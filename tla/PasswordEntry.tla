--------------------------- MODULE PasswordEntry ---------------------------
(***************************************************************************)
(* The keyboard half of readpw() in screen-locker.c and the PAM exchange   *)
(* of pam.c.  The locked screen is driven by one key event at a time; a    *)
(* submitted string that the password hash does not accept is handed to    *)
(* PAM, and no event is read until PAM has answered.                       *)
(*                                                                         *)
(* userinput is kept as the C array it is: a cursor and bytes that must be *)
(* NUL beyond it, because crypt(3) and PAM read it as a C string.          *)
(***************************************************************************)
EXTENDS Naturals, Sequences

CONSTANTS
  Byte,          \* the bytes a key can produce, the terminator excluded
  NUL,           \* the string terminator
  Capacity,      \* sizeof(userinput)
  Text,          \* what XLookupString can return for one printable key
  HashPassword,  \* the strings whose crypt(3) equals the stored hash
  PamPassword    \* the strings the PAM stack "login" accepts

ASSUME CapacityAssumption == Capacity \in Nat \ {0}
ASSUME ByteAssumption == NUL \notin Byte
ASSUME TextAssumption == Text \subseteq Seq(Byte) \ {<<>>}

VARIABLES
  phase,         \* "closed" until the screens are locked, "reading",
                 \* "authenticating" inside pam_password_ok, then "done"
  hash,          \* what user_password_hash() found
  userinput,     \* the bytes of the input buffer
  cursor,        \* number of bytes typed
  guess,         \* pam.c's guessbuffer, as the string it holds
  failure,       \* an attempt was rejected by PAM
  seenkeypress,  \* some key was pressed since the lock started
  oldcolor,      \* the colour readpw believes is shown
  shown          \* the colour that is shown

entryVars == <<phase, hash, userinput, cursor, guess, failure, seenkeypress,
               oldcolor, shown>>

Color == {"NO_ACTIVITY", "ENTRY_STARTED", "ENTRY_REJECTED", "PAM_AUTHENTICATION"}

\* user_password_hash() fails, returns a string crypt(3) rejects ("*", "!"),
\* or a hash.
Hash == {"missing", "unusable", "usable"}

Cells == 0 .. Capacity - 1
Wiped == [i \in Cells |-> NUL]

EntryTypeOK ==
  /\ phase \in {"closed", "reading", "authenticating", "done"}
  /\ hash \in Hash
  /\ userinput \in [Cells -> Byte \cup {NUL}]
  /\ cursor \in Cells
  /\ guess \in Seq(Byte)
  /\ failure \in BOOLEAN
  /\ seenkeypress \in BOOLEAN
  /\ oldcolor \in Color
  /\ shown \in Color

\* The string userinput holds, as strcmp, crypt and strncpy read it: the bytes
\* before the first NUL.
StringLength(array) ==
  CHOOSE n \in Cells : array[n] = NUL /\ \A i \in 0 .. n - 1 : array[i] # NUL
CString(array) == [k \in 1 .. StringLength(array) |-> array[k - 1]]

-----------------------------------------------------------------------------
(* Key events: what XLookupString makes of a key, by what readpw does with  *)
(* it.  "control" is a key that yields only a control character (Tab, C-a), *)
(* "silent" one that yields no text (a modifier), "skipped" a keypad        *)
(* operator or a function key.  Return stands for the keypad's Enter too.   *)

KeyEvent ==
  [press : BOOLEAN, class : {"Return", "Escape", "BackSpace", "control",
                             "silent", "skipped"}, text : {<<>>}]
  \cup [press : BOOLEAN, class : {"text"}, text : Text]

HasText(e) == e.class \notin {"silent", "skipped"}

\* A key event the loop drops.  A key release is of interest only for a key
\* without text, and only after some press: the release of the key that started
\* the program is not.
Dropped(e) ==
  \/ ~e.press /\ (HasText(e) \/ ~seenkeypress)
  \/ e.press /\ ~HasText(e)
  \/ e.class = "skipped"

FailOnClear == TRUE

\* The colour the loop computes after every key it did not drop, and the
\* repaint that is skipped when that colour is believed to be shown already.
ColorFor(typedBytes, failed) ==
  IF typedBytes > 0 THEN "ENTRY_STARTED"
  ELSE IF failed \/ FailOnClear THEN "ENTRY_REJECTED" ELSE "NO_ACTIVITY"

Refresh(color) ==
  /\ oldcolor' = color
  /\ shown' = IF oldcolor # color THEN color ELSE shown

-----------------------------------------------------------------------------
EntryInit ==
  /\ phase = "closed"
  /\ hash \in Hash
  /\ userinput = Wiped
  /\ cursor = 0
  /\ guess = <<>>
  /\ failure = FALSE
  /\ seenkeypress = FALSE
  /\ oldcolor = "NO_ACTIVITY"
  /\ shown = "NO_ACTIVITY"

\* main() reached readpw(): every screen is locked.
Open ==
  /\ phase = "closed"
  /\ phase' = "reading"
  /\ UNCHANGED <<hash, userinput, cursor, guess, failure, seenkeypress,
                 oldcolor, shown>>

Drop(e) ==
  /\ phase = "reading"
  /\ Dropped(e)
  /\ seenkeypress' = (seenkeypress \/ e.press)
  /\ UNCHANGED <<phase, hash, userinput, cursor, guess, failure, oldcolor, shown>>

\* The key events that reach the switch on the keysym, and the colour update
\* after it.
Key(e, class) ==
  /\ phase = "reading"
  /\ ~Dropped(e)
  /\ e.class = class
  /\ seenkeypress' = (seenkeypress \/ e.press)

\* Return, local half: the stored hash accepts the input, and the loop ends
\* before any colour is updated.
Terminated == [userinput EXCEPT ![cursor] = NUL]
HashAcceptsUnchecked == CString(Terminated) \in HashPassword
HashAccepts == hash = "usable" /\ CString(Terminated) \in HashPassword

ForgetCursor == cursor' = 0 /\ UNCHANGED userinput
ForgetInput == userinput' = Wiped /\ cursor' = 0

AcceptHash(e) ==
  /\ Key(e, "Return")
  /\ HashAccepts
  /\ phase' = "done"
  /\ ForgetInput
  /\ UNCHANGED <<hash, guess, failure, oldcolor, shown>>

\* Return, PAM half: the colour is set behind oldcolor's back, the string is
\* copied for the conversation and pam_authenticate() takes over.
AskPam(e) ==
  /\ Key(e, "Return")
  /\ ~HashAccepts
  /\ shown' = "PAM_AUTHENTICATION"
  /\ userinput' = Terminated
  /\ guess' = CString(Terminated)
  /\ phase' = "authenticating"
  /\ UNCHANGED <<hash, cursor, failure, oldcolor>>

RejectedByNoRepaint(current) ==
  failure' = TRUE /\ ForgetInput /\ shown' = current /\ UNCHANGED oldcolor

\* The rest of the Return case after PAM said no.
RejectedBy(current) ==
  LET color == ColorFor(0, TRUE) IN
  /\ failure' = TRUE
  /\ ForgetInput
  /\ oldcolor' = color
  /\ shown' = IF oldcolor # color THEN color ELSE current

\* pam_password_ok() cannot find the user: the string never reaches PAM.
NoSuchUser(e) ==
  /\ Key(e, "Return")
  /\ ~HashAccepts
  /\ RejectedBy("PAM_AUTHENTICATION")
  /\ UNCHANGED <<phase, hash, guess>>

\* The messages of one call of the conversation function.  PAM hands over where it
\* wants the array of answers, and pam.c:37 takes that for an array of arrays: the
\* answer to a prompt for the password that comes first is where PAM looks for it,
\* memory allowing.  That to a later prompt is written behind, so that PAM gets
\* none; what else is lost by that write is not modelled.
Conversation == {<<"password">>, <<"other">>, <<"other", "password">>}
Answers(messages, memory) == memory /\ messages[1] = "password"

PamAcceptsAccount(messages, memory, account) == Answers(messages, memory) /\ account

\* PAM accepts nobody whose answer it has not got, and no account that has expired.
PamAccepts(messages, memory, account) ==
  Answers(messages, memory) /\ guess \in PamPassword /\ account

PamReply(messages, memory, account) ==
  /\ phase = "authenticating"
  /\ guess' = <<>>
  /\ IF PamAccepts(messages, memory, account)
     THEN phase' = "done" /\ ForgetInput /\ UNCHANGED <<failure, oldcolor, shown>>
     ELSE phase' = "reading" /\ RejectedBy(shown)
  /\ UNCHANGED <<hash, seenkeypress>>

Escape(e) ==
  /\ Key(e, "Escape")
  /\ ForgetInput
  /\ Refresh(ColorFor(0, failure))
  /\ UNCHANGED <<phase, hash, guess, failure>>

BackSpace(e) ==
  /\ Key(e, "BackSpace")
  /\ IF cursor > 0
     THEN /\ cursor' = cursor - 1
          /\ userinput' = [userinput EXCEPT ![cursor - 1] = NUL]
     ELSE UNCHANGED <<cursor, userinput>>
  /\ Refresh(ColorFor(cursor', failure))
  /\ UNCHANGED <<phase, hash, guess, failure>>

Fits(t) == cursor + Len(t) < Capacity

Insert(e) ==
  /\ Key(e, "text")
  /\ IF Fits(e.text)
     THEN /\ cursor' = cursor + Len(e.text)
          /\ userinput' = [i \in Cells |-> IF i \in cursor .. cursor + Len(e.text) - 1
                                           THEN e.text[i - cursor + 1]
                                           ELSE userinput[i]]
     ELSE UNCHANGED <<cursor, userinput>>
  /\ Refresh(ColorFor(cursor', failure))
  /\ UNCHANGED <<phase, hash, guess, failure>>

\* Control characters are not inserted, and the release of a modifier has
\* nothing to insert; both still update the colour.
Nothing(e) ==
  /\ Key(e, "control") \/ Key(e, "silent")
  /\ Refresh(ColorFor(cursor, failure))
  /\ UNCHANGED <<phase, hash, userinput, cursor, guess, failure>>

HandleKey(e) ==
  \/ Drop(e)
  \/ AcceptHash(e) \/ AskPam(e) \/ NoSuchUser(e)
  \/ Escape(e) \/ BackSpace(e) \/ Insert(e) \/ Nothing(e)

PamReturns ==
  \E messages \in Conversation, memory, account \in BOOLEAN :
    PamReply(messages, memory, account)

EntryNext ==
  \/ Open
  \/ \E e \in KeyEvent : HandleKey(e)
  \/ PamReturns

EntrySpec == EntryInit /\ [][EntryNext]_entryVars

-----------------------------------------------------------------------------
(* Properties                                                               *)

\* What was typed: the array up to the cursor.
Typed == [k \in 1 .. cursor |-> userinput[k - 1]]

\* The array is a C string of exactly the bytes typed: its end is
\* inside, nothing of an earlier, longer input is left beyond the cursor for
\* crypt(3) or PAM to read (the wipes at Return and Escape, the single byte
\* cleared by BackSpace); and the copy in pam.c is what was typed, in full, while
\* PAM is asked, and does not outlive that.
NoResidue ==
  /\ cursor < Capacity
  /\ \A i \in Cells : userinput[i] = NUL <=> i >= cursor
  /\ guess = IF phase = "authenticating" THEN Typed ELSE <<>>

\* While the locker waits for a key, the screen shows the colour of a started
\* entry exactly when something is typed, even though the repaint is decided
\* from oldcolor, which the PAM colour does not update.
TypingShown ==
  phase = "reading" => (cursor > 0 <=> shown = "ENTRY_STARTED")

\* The locker opens only for a string one of the two authorities accepts, and
\* opens at once when the stored hash accepts the submitted one.
OpensExactlyForPassword ==
  [][/\ phase = "reading" /\ phase' = "done" =>
          hash = "usable" /\ CString(userinput) \in HashPassword
     /\ phase = "authenticating" /\ phase' = "done" => guess \in PamPassword
     /\ phase' = "authenticating" /\ phase = "reading" /\ hash = "usable" =>
          guess' \notin HashPassword]_entryVars

\* The promise of LockSession, with the array read up to the cursor.
EntryStatus == IF phase = "closed" THEN "open"
          ELSE IF phase = "done" THEN "released" ELSE "locked"
EntryPromise == INSTANCE LockSession
             WITH Accepted <- HashPassword \cup PamPassword,
                  status <- EntryStatus, typed <- Typed
EntryPromiseSpec == EntryPromise!Spec
=============================================================================
