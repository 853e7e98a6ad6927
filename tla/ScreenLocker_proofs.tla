------------------------- MODULE ScreenLocker_proofs -------------------------
(***************************************************************************)
(* What the password entry guarantees for every buffer size, alphabet and  *)
(* set of passwords, and the screen locker as a whole for every number of  *)
(* screens, every queue and everything other clients do.                   *)
(*                                                                         *)
(* EntryInv is the invariant of the entry: the C string in userinput is    *)
(* what was typed, as is the one PAM is asked about (NoResidue), and       *)
(* oldcolor tells the colour shown except for the PAM colour, which can    *)
(* stay behind only over a rejected entry.  The startup, the other events  *)
(* and the other clients leave it alone.                                   *)
(*                                                                         *)
(* StartupInv says how far the lock has come at each place of main(), and  *)
(* PhaseInv how the place of main() and the phase of the entry go          *)
(* together: the last turn of the grab loop returns, keys are read only    *)
(* behind a complete lock, and the program keeps the promise of            *)
(* LockSession.                                                            *)
(***************************************************************************)
EXTENDS ScreenLocker, SequenceTheorems, TLAPS

USE CapacityAssumption, ByteAssumption, TextAssumption

ColorInv ==
  /\ oldcolor # "PAM_AUTHENTICATION"
  /\ phase # "done" => (oldcolor = "ENTRY_STARTED" <=> cursor > 0)
  /\ phase \in {"closed", "reading"} =>
       \/ shown = oldcolor
       \/ shown = "PAM_AUTHENTICATION" /\ oldcolor = "ENTRY_REJECTED"

EntryInv == EntryTypeOK /\ NoResidue /\ ColorInv

-----------------------------------------------------------------------------
(* The C string held by an array whose bytes are NUL exactly from some cell *)
(* on is the prefix up to that cell (strcmp, crypt, strncpy on userinput).  *)
LEMMA StringIsPrefix ==
  ASSUME NEW array \in [Cells -> Byte \cup {NUL}], NEW n \in Cells,
         \A i \in Cells : array[i] = NUL <=> i >= n
  PROVE  CString(array) = [k \in 1 .. n |-> array[k - 1]]
<1> DEFINE P(m) == array[m] = NUL /\ \A i \in 0 .. m - 1 : array[i] # NUL
<1>1. P(n)
  BY DEF Cells
<1>2. ASSUME NEW m \in Cells, P(m) PROVE m = n
  <2>1. array[m] = NUL /\ m >= n  BY <1>2
  <2>2. CASE m > n
    <3>1. n \in 0 .. m - 1  BY <2>2 DEF Cells
    <3>2. QED  BY <3>1, <1>1, <1>2
  <2>3. QED  BY <2>1, <2>2 DEF Cells
<1>3. StringLength(array) = n
  <2>1. StringLength(array) = CHOOSE m \in Cells : P(m)  BY DEF StringLength
  <2>2. \E m \in Cells : P(m)  BY <1>1
  <2>3. (CHOOSE m \in Cells : P(m)) \in Cells /\ P(CHOOSE m \in Cells : P(m))
    BY <2>2
  <2>4. QED  BY <2>1, <2>3, <1>2
<1>4. QED  BY <1>3 DEF CString

\* What Return reads: the terminator written at the cursor changes nothing, and
\* the string is the bytes typed.
LEMMA SubmittedIsTyped ==
  ASSUME EntryTypeOK, NoResidue
  PROVE  /\ Terminated = userinput
         /\ CString(Terminated) = Typed
         /\ Typed \in Seq(Byte)
<1>1. userinput[cursor] = NUL  BY DEF EntryTypeOK, NoResidue, Cells
<1>2. Terminated = userinput  BY <1>1 DEF EntryTypeOK, Terminated
<1>3. CString(userinput) = Typed
  BY StringIsPrefix DEF EntryTypeOK, NoResidue, Typed
<1>4. Typed \in Seq(Byte)
  <2>1. ASSUME NEW k \in 1 .. cursor PROVE userinput[k - 1] \in Byte
    <3>1. k - 1 \in Cells /\ ~(k - 1 >= cursor)  BY DEF EntryTypeOK, Cells
    <3>2. QED  BY <3>1 DEF EntryTypeOK, NoResidue
  <2>2. cursor \in Nat  BY DEF EntryTypeOK, Cells
  <2>3. QED  BY <2>1, <2>2 DEF Typed
<1>5. QED  BY <1>2, <1>3, <1>4

LEMMA WipedArray == Wiped \in [Cells -> Byte \cup {NUL}]
                    /\ 0 \in Cells /\ \A i \in Cells : Wiped[i] = NUL /\ i >= 0
BY DEF Wiped, Cells

-----------------------------------------------------------------------------
LEMMA EntryInitInv == EntryInit => EntryInv
BY WipedArray DEF EntryInit, EntryInv, EntryTypeOK, NoResidue, Typed, ColorInv,
                  Color, Hash

(* Each action preserves the invariant.  A step that forgets the input       *)
(* (Return, Escape) leaves the wiped array; the others change one end of it. *)
LEMMA DropInv == ASSUME EntryInv, NEW e \in KeyEvent, Drop(e) PROVE EntryInv'
BY DEF Drop, EntryInv, EntryTypeOK, NoResidue, Typed, ColorInv, KeyEvent

LEMMA OpenInv == ASSUME EntryInv, Open PROVE EntryInv'
BY DEF Open, EntryInv, EntryTypeOK, NoResidue, Typed, ColorInv

LEMMA AcceptHashInv == ASSUME EntryInv, NEW e \in KeyEvent, AcceptHash(e) PROVE EntryInv'
BY WipedArray DEF AcceptHash, Key, ForgetInput, EntryInv, EntryTypeOK, NoResidue,
                  Typed, ColorInv, KeyEvent

LEMMA AskPamInv == ASSUME EntryInv, NEW e \in KeyEvent, AskPam(e) PROVE EntryInv'
<1>1. Terminated = userinput /\ CString(Terminated) = Typed /\ Typed \in Seq(Byte)
  BY SubmittedIsTyped DEF EntryInv
<1>2. QED
  BY <1>1 DEF AskPam, Key, EntryInv, EntryTypeOK, NoResidue, Typed, ColorInv,
              KeyEvent, Color

LEMMA NoSuchUserInv == ASSUME EntryInv, NEW e \in KeyEvent, NoSuchUser(e) PROVE EntryInv'
BY WipedArray DEF NoSuchUser, Key, RejectedBy, ColorFor, FailOnClear, ForgetInput,
     EntryInv, EntryTypeOK, NoResidue, Typed, ColorInv, KeyEvent, Color

LEMMA PamReplyInv ==
  ASSUME EntryInv, NEW messages \in Conversation, NEW memory \in BOOLEAN,
         NEW account \in BOOLEAN, PamReply(messages, memory, account)
  PROVE  EntryInv'
<1>1. <<>> \in Seq(Byte)  OBVIOUS
<1>2. CASE PamAccepts(messages, memory, account)
  BY <1>1, <1>2, WipedArray DEF PamReply, ForgetInput, EntryInv, EntryTypeOK, NoResidue,
     Typed, ColorInv
<1>3. CASE ~PamAccepts(messages, memory, account)
  <2>1. /\ phase' = "reading" /\ guess' = <<>> /\ userinput' = Wiped /\ cursor' = 0
        /\ UNCHANGED <<hash, seenkeypress>>
    BY <1>3 DEF PamReply, RejectedBy, ForgetInput
  <2>2. NoResidue'
    BY <2>1, WipedArray, CapacityAssumption DEF NoResidue, Typed
  <2>3. EntryTypeOK' /\ ColorInv'
    BY <1>1, <1>3, <2>1, WipedArray DEF PamReply, RejectedBy, ColorFor, FailOnClear,
       EntryInv, EntryTypeOK, ColorInv, Color
  <2>4. QED  BY <2>2, <2>3 DEF EntryInv
<1>4. QED  BY <1>2, <1>3

LEMMA EscapeInv == ASSUME EntryInv, NEW e \in KeyEvent, Escape(e) PROVE EntryInv'
BY WipedArray DEF Escape, Key, Refresh, ColorFor, FailOnClear, ForgetInput, EntryInv,
     EntryTypeOK, NoResidue, Typed, ColorInv, KeyEvent, Color

LEMMA BackSpaceInv == ASSUME EntryInv, NEW e \in KeyEvent, BackSpace(e) PROVE EntryInv'
<1>1. cursor' \in Cells /\ userinput' \in [Cells -> Byte \cup {NUL}]
  BY DEF BackSpace, Key, EntryInv, EntryTypeOK, Cells
<1>2. \A i \in Cells : userinput'[i] = NUL <=> i >= cursor'
  <2>1. CASE cursor > 0
    BY <2>1 DEF BackSpace, Key, EntryInv, EntryTypeOK, NoResidue, Cells
  <2>2. CASE ~(cursor > 0)
    BY <2>2 DEF BackSpace, Key, EntryInv, NoResidue
  <2>3. QED  BY <2>1, <2>2
<1>3. oldcolor' = ColorFor(cursor', failure)
      /\ shown' = IF oldcolor # oldcolor' THEN oldcolor' ELSE shown
  BY DEF BackSpace, Refresh
<1>4. phase = "reading" /\ phase' = "reading" /\ guess' = guess /\ hash' = hash
      /\ failure' = failure /\ seenkeypress' \in BOOLEAN
  BY DEF BackSpace, Key, KeyEvent, EntryInv, EntryTypeOK
<1>5. EntryTypeOK'
  BY <1>1, <1>3, <1>4 DEF EntryInv, EntryTypeOK, ColorFor, FailOnClear, Color
<1>6. ColorInv'
  BY <1>1, <1>3, <1>4 DEF EntryInv, ColorInv, ColorFor, FailOnClear, Color, Cells
<1>7. cursor' < Capacity
  BY <1>1, CapacityAssumption DEF Cells
<1>8. QED  BY <1>2, <1>4, <1>5, <1>6, <1>7 DEF EntryInv, NoResidue, Typed

LEMMA InsertInv == ASSUME EntryInv, NEW e \in KeyEvent, Insert(e) PROVE EntryInv'
<1>1. e.text \in Seq(Byte) /\ Len(e.text) \in Nat \ {0}
  BY DEF Insert, Key, KeyEvent
<1>2. cursor' \in Cells /\ userinput' \in [Cells -> Byte \cup {NUL}]
      /\ \A i \in Cells : userinput'[i] = NUL <=> i >= cursor'
  <2>1. CASE Fits(e.text)
    <3>1. cursor' = cursor + Len(e.text) /\ cursor' \in Cells
      BY <1>1, <2>1 DEF Insert, Fits, EntryInv, EntryTypeOK, Cells
    <3>2. \A i \in Cells :
            userinput'[i] = IF i \in cursor .. cursor + Len(e.text) - 1
                            THEN e.text[i - cursor + 1] ELSE userinput[i]
      BY <2>1 DEF Insert
    <3>3. \A i \in Cells : i \in cursor .. cursor + Len(e.text) - 1 =>
            e.text[i - cursor + 1] \in Byte
      <4>1. TAKE i \in Cells
      <4>2. HAVE i \in cursor .. cursor + Len(e.text) - 1
      <4>3. i - cursor + 1 \in 1 .. Len(e.text)
        BY <1>1, <4>2 DEF EntryInv, EntryTypeOK, Cells
      <4>4. QED  BY <1>1, <4>3
    <3>4. userinput' \in [Cells -> Byte \cup {NUL}]
      BY <2>1, <3>3 DEF Insert, EntryInv, EntryTypeOK
    <3>5. \A i \in Cells : userinput'[i] = NUL <=> i >= cursor'
      <4>1. TAKE i \in Cells
      <4>2. CASE i \in cursor .. cursor + Len(e.text) - 1
        BY <1>1, <3>1, <3>2, <3>3, <4>2 DEF EntryInv, EntryTypeOK, Cells
      <4>3. CASE i \notin cursor .. cursor + Len(e.text) - 1
        <5>1. userinput'[i] = userinput[i]  BY <3>2, <4>3
        <5>2. i >= cursor <=> i >= cursor'
          BY <1>1, <3>1, <4>3 DEF EntryInv, EntryTypeOK, Cells
        <5>3. QED  BY <5>1, <5>2 DEF EntryInv, NoResidue
      <4>4. QED  BY <4>2, <4>3
    <3>6. QED  BY <3>1, <3>4, <3>5
  <2>2. CASE ~Fits(e.text)
    BY <2>2 DEF Insert, EntryInv, EntryTypeOK, NoResidue
  <2>3. QED  BY <2>1, <2>2
<1>3. oldcolor' = ColorFor(cursor', failure)
      /\ shown' = IF oldcolor # oldcolor' THEN oldcolor' ELSE shown
  BY DEF Insert, Refresh
<1>4. phase = "reading" /\ phase' = "reading" /\ guess' = guess /\ hash' = hash
      /\ failure' = failure /\ seenkeypress' \in BOOLEAN
  BY DEF Insert, Key, KeyEvent, EntryInv, EntryTypeOK
<1>5. EntryTypeOK'
  BY <1>2, <1>3, <1>4 DEF EntryInv, EntryTypeOK, ColorFor, FailOnClear, Color
<1>6. ColorInv'
  BY <1>2, <1>3, <1>4 DEF EntryInv, ColorInv, ColorFor, FailOnClear, Color, Cells
<1>7. cursor' < Capacity
  BY <1>2, CapacityAssumption DEF Cells
<1>8. QED  BY <1>2, <1>4, <1>5, <1>6, <1>7 DEF EntryInv, NoResidue, Typed

LEMMA NothingInv == ASSUME EntryInv, NEW e \in KeyEvent, Nothing(e) PROVE EntryInv'
BY DEF Nothing, Key, Refresh, ColorFor, FailOnClear, EntryInv, EntryTypeOK, NoResidue,
       Typed, ColorInv, KeyEvent, Color, Cells

LEMMA EntryNextInv == EntryInv /\ [EntryNext]_entryVars => EntryInv'
<1> SUFFICES ASSUME EntryInv, [EntryNext]_entryVars PROVE EntryInv'
  OBVIOUS
<1>1. CASE Open  BY <1>1, OpenInv
<1>2. ASSUME NEW e \in KeyEvent, HandleKey(e) PROVE EntryInv'
  BY <1>2, DropInv, AcceptHashInv, AskPamInv, NoSuchUserInv, EscapeInv,
     BackSpaceInv, InsertInv, NothingInv DEF HandleKey
<1>3. CASE PamReturns  BY <1>3, PamReplyInv DEF PamReturns
<1>4. CASE UNCHANGED entryVars
  BY <1>4 DEF entryVars, EntryInv, EntryTypeOK, NoResidue, Typed, ColorInv
<1>5. QED  BY <1>1, <1>2, <1>3, <1>4 DEF EntryNext

(* The inductive invariant of the keyboard loop and the PAM exchange.         *)
THEOREM EntryInvariant == EntrySpec => []EntryInv
BY EntryInitInv, EntryNextInv, PTL DEF EntrySpec

(* The typing colour is shown exactly while something is typed, although the *)
(* repaint is decided from a colour the PAM exchange does not update.         *)
THEOREM TypingShownAlways == EntrySpec => []TypingShown
<1>1. EntryInv => TypingShown  BY DEF EntryInv, ColorInv, TypingShown
<1>2. QED  BY <1>1, EntryInvariant, PTL

(* Nothing of an earlier input is left in the buffer; PAM is asked about the  *)
(* whole string that was typed and nothing else, for every length, and the    *)
(* copy pam.c asks with does not outlive the PAM exchange.                    *)
THEOREM NoResidueAlways == EntrySpec => []NoResidue
<1>1. EntryInv => NoResidue  BY DEF EntryInv
<1>2. QED  BY <1>1, EntryInvariant, PTL

-----------------------------------------------------------------------------
(* The lock opens only for an accepted string, and at once for one the stored *)
(* hash accepts.                                                              *)
THEOREM OpensExactly == EntrySpec => OpensExactlyForPassword
<1> DEFINE Opens ==
      /\ phase = "reading" /\ phase' = "done" =>
           hash = "usable" /\ CString(userinput) \in HashPassword
      /\ phase = "authenticating" /\ phase' = "done" => guess \in PamPassword
      /\ phase' = "authenticating" /\ phase = "reading" /\ hash = "usable" =>
           guess' \notin HashPassword
<1>1. ASSUME EntryInv, [EntryNext]_entryVars PROVE Opens
  <2>0. Terminated = userinput  BY <1>1, SubmittedIsTyped DEF EntryInv
  <2>1. CASE Open  BY <2>1 DEF Open
  <2>2. ASSUME NEW e \in KeyEvent, HandleKey(e) PROVE Opens
    BY <2>0, <2>2 DEF HandleKey, Drop, AcceptHash, AskPam, NoSuchUser, Escape,
       BackSpace, Insert, Nothing, Key, HashAccepts
  <2>3. CASE PamReturns
    BY <2>3 DEF PamReturns, PamReply, PamAccepts
  <2>4. CASE UNCHANGED entryVars  BY <2>4 DEF entryVars
  <2>5. QED  BY <1>1, <2>1, <2>2, <2>3, <2>4 DEF EntryNext
<1>2. EntryInv /\ [EntryNext]_entryVars => [Opens]_entryVars  BY <1>1
<1>3. QED  BY <1>2, EntryInvariant, PTL DEF EntrySpec, OpensExactlyForPassword

-----------------------------------------------------------------------------
(* The refinement: the array read up to the cursor is LockSession's typed.    *)

LEMMA ForgottenIsEmpty == ASSUME cursor' = 0 PROVE Typed' = <<>>
BY DEF Typed

LEMMA UnchangedTyped ==
  ASSUME cursor' = cursor, userinput' = userinput PROVE Typed' = Typed
BY DEF Typed

LEMMA ErasedTyped ==
  ASSUME EntryInv, cursor > 0, cursor' = cursor - 1,
         userinput' = [userinput EXCEPT ![cursor - 1] = NUL]
  PROVE  Typed # <<>> /\ Typed' = SubSeq(Typed, 1, Len(Typed) - 1)
<1>1. cursor \in Nat /\ cursor \in Cells  BY DEF EntryInv, EntryTypeOK, Cells
<1>2. Typed \in Seq(Byte)  BY SubmittedIsTyped DEF EntryInv
<1>3. Len(Typed) = cursor /\ DOMAIN Typed = 1 .. cursor
  BY <1>1, <1>2 DEF Typed
<1>4. SubSeq(Typed, 1, Len(Typed) - 1) = [k \in 1 .. cursor - 1 |-> Typed[k]]
  BY <1>1, <1>2, <1>3
<1>5. ASSUME NEW k \in 1 .. cursor - 1
      PROVE  userinput'[k - 1] = userinput[k - 1] /\ Typed[k] = userinput[k - 1]
  <2>1. k - 1 \in Cells /\ k - 1 # cursor - 1 /\ k \in 1 .. cursor
    BY <1>1 DEF Cells
  <2>2. QED  BY <2>1 DEF EntryInv, EntryTypeOK, Typed
<1>6. Typed' = [k \in 1 .. cursor - 1 |-> userinput'[k - 1]]  BY DEF Typed
<1>7. QED  BY <1>1, <1>3, <1>4, <1>5, <1>6

LEMMA InsertedTyped ==
  ASSUME EntryInv, NEW t \in Seq(Byte), cursor' = cursor + Len(t), cursor' \in Cells,
         \A i \in Cells : userinput'[i] =
           IF i \in cursor .. cursor + Len(t) - 1 THEN t[i - cursor + 1]
           ELSE userinput[i]
  PROVE  Typed' = Typed \o t
<1>1. cursor \in Nat /\ cursor \in Cells  BY DEF EntryInv, EntryTypeOK, Cells
<1>2. Typed \in Seq(Byte)  BY SubmittedIsTyped DEF EntryInv
<1>3. Len(Typed) = cursor  BY <1>1, <1>2 DEF Typed
<1>4. Typed \o t = [k \in 1 .. cursor + Len(t) |->
                      IF k <= cursor THEN Typed[k] ELSE t[k - cursor]]
  <2>1. Len(t) \in Nat  BY LenProperties
  <2>2. Typed \o t \in Seq(Byte) /\ Len(Typed \o t) = cursor + Len(t)
    BY <1>2, <1>3, ConcatProperties
  <2>3. \A k \in 1 .. cursor + Len(t) : (Typed \o t)[k] =
          IF k <= cursor THEN Typed[k] ELSE t[k - cursor]
    BY <1>2, <1>3, ConcatProperties
  <2>4. Typed \o t \in [1 .. cursor + Len(t) -> Byte]
    BY <2>2, LenProperties
  <2>5. QED  BY <2>3, <2>4
<1>5. ASSUME NEW k \in 1 .. cursor + Len(t)
      PROVE  userinput'[k - 1] = IF k <= cursor THEN Typed[k] ELSE t[k - cursor]
  <2>1. k - 1 \in Cells  BY <1>1 DEF Cells
  <2>2. CASE k <= cursor
    <3>1. k - 1 \notin cursor .. cursor + Len(t) - 1  BY <1>1, <2>2
    <3>2. Typed[k] = userinput[k - 1]  BY <1>1, <2>2 DEF Typed
    <3>3. QED  BY <2>1, <2>2, <3>1, <3>2
  <2>3. CASE ~(k <= cursor)
    <3>1. k - 1 \in cursor .. cursor + Len(t) - 1 /\ k - 1 - cursor + 1 = k - cursor
      BY <1>1, <2>3
    <3>2. QED  BY <2>1, <2>3, <3>1
  <2>4. QED  BY <2>2, <2>3
<1>6. Typed' = [k \in 1 .. cursor + Len(t) |-> userinput'[k - 1]]  BY DEF Typed
<1>7. QED  BY <1>4, <1>5, <1>6

LEMMA EntryPromiseInit == EntryInit => EntryPromise!Init
BY DEF EntryInit, EntryPromise!Init, EntryStatus, Typed

LEMMA EntryPromiseStep ==
  EntryInv /\ [EntryNext]_entryVars => [EntryPromise!Next]_(EntryPromise!vars)
<1> SUFFICES ASSUME EntryInv, [EntryNext]_entryVars
             PROVE  [EntryPromise!Next]_(EntryPromise!vars)
  OBVIOUS
<1> USE DEF EntryPromise!Next, EntryPromise!vars
<1>0. Terminated = userinput /\ CString(Terminated) = Typed /\ Typed \in Seq(Byte)
  BY SubmittedIsTyped DEF EntryInv
<1>1. CASE Open
  <2>1. Typed' = Typed  BY <1>1, UnchangedTyped DEF Open
  <2>2. EntryPromise!Lock  BY <1>1, <2>1 DEF Open, EntryPromise!Lock, EntryStatus
  <2>3. QED  BY <2>2
<1>2. ASSUME NEW e \in KeyEvent, HandleKey(e) PROVE [EntryPromise!Next]_(EntryPromise!vars)
  <2>1. CASE Drop(e) \/ AskPam(e) \/ Nothing(e)
    <3>1. Typed' = Typed
      BY <1>0, <2>1, UnchangedTyped DEF Drop, AskPam, Nothing
    <3>2. EntryStatus' = EntryStatus  BY <2>1 DEF Drop, AskPam, Nothing, Key, EntryStatus
    <3>3. QED  BY <3>1, <3>2
  <2>2. CASE AcceptHash(e)
    <3>1. Typed' = <<>>  BY <2>2, ForgottenIsEmpty DEF AcceptHash, ForgetInput
    <3>2. EntryPromise!Release
      BY <1>0, <2>2, <3>1 DEF AcceptHash, Key, HashAccepts, EntryPromise!Release, EntryStatus
    <3>3. QED  BY <3>2
  <2>3. CASE NoSuchUser(e) \/ Escape(e)
    <3>1. Typed' = <<>>
      BY <2>3, ForgottenIsEmpty DEF NoSuchUser, Escape, RejectedBy, ForgetInput
    <3>2. EntryPromise!Clear
      BY <2>3, <3>1 DEF NoSuchUser, Escape, Key, EntryPromise!Clear, EntryStatus
    <3>3. QED  BY <3>2
  <2>4. CASE BackSpace(e)
    <3>1. EntryStatus' = EntryStatus /\ EntryStatus = "locked"
      BY <2>4 DEF BackSpace, Key, EntryStatus
    <3>2. CASE cursor > 0
      <4>1. Typed # <<>> /\ Typed' = SubSeq(Typed, 1, Len(Typed) - 1)
        BY <2>4, <3>2, ErasedTyped DEF BackSpace
      <4>2. EntryPromise!Erase  BY <3>1, <4>1 DEF EntryPromise!Erase
      <4>3. QED  BY <4>2
    <3>3. CASE ~(cursor > 0)
      BY <2>4, <3>1, <3>3, UnchangedTyped DEF BackSpace
    <3>4. QED  BY <3>2, <3>3
  <2>5. CASE Insert(e)
    <3>1. EntryStatus' = EntryStatus /\ EntryStatus = "locked"
      BY <2>5 DEF Insert, Key, EntryStatus
    <3>2. CASE Fits(e.text)
      <4>1. e.text \in Text /\ e.text \in Seq(Byte) /\ Len(e.text) \in Nat
        BY <2>5 DEF Insert, Key, KeyEvent
      <4>2. cursor' = cursor + Len(e.text) /\ cursor' \in Cells
        BY <2>5, <3>2, <4>1 DEF Insert, Fits, EntryInv, EntryTypeOK, Cells
      <4>3. \A i \in Cells : userinput'[i] =
              IF i \in cursor .. cursor + Len(e.text) - 1
              THEN e.text[i - cursor + 1] ELSE userinput[i]
        BY <2>5, <3>2 DEF Insert
      <4>4. Typed' = Typed \o e.text  BY <4>1, <4>2, <4>3, InsertedTyped
      <4>5. Len(Typed) = cursor  BY <1>0 DEF Typed, EntryInv, EntryTypeOK, Cells
      <4>6. EntryPromise!Type(e.text)
        BY <3>1, <3>2, <4>4, <4>5 DEF EntryPromise!Type, Fits
      <4>7. QED  BY <4>1, <4>6
    <3>3. CASE ~Fits(e.text)
      BY <2>5, <3>1, <3>3, UnchangedTyped DEF Insert
    <3>4. QED  BY <3>2, <3>3
  <2>6. QED  BY <1>2, <2>1, <2>2, <2>3, <2>4, <2>5 DEF HandleKey
<1>3. ASSUME NEW messages \in Conversation, NEW memory \in BOOLEAN,
             NEW account \in BOOLEAN, PamReply(messages, memory, account)
      PROVE  [EntryPromise!Next]_(EntryPromise!vars)
  <2>1. Typed' = <<>>
    BY <1>3, ForgottenIsEmpty DEF PamReply, RejectedBy, ForgetInput
  <2>2. guess = Typed  BY <1>3 DEF PamReply, EntryInv, NoResidue
  <2>3. CASE PamAccepts(messages, memory, account)
    <3>1. EntryPromise!Release
      BY <1>3, <2>1, <2>2, <2>3 DEF PamReply, PamAccepts, EntryPromise!Release, EntryStatus
    <3>2. QED  BY <3>1
  <2>4. CASE ~PamAccepts(messages, memory, account)
    <3>1. EntryPromise!Clear
      BY <1>3, <2>1, <2>4 DEF PamReply, EntryPromise!Clear, EntryStatus
    <3>2. QED  BY <3>1
  <2>5. QED  BY <2>3, <2>4
<1>4. CASE UNCHANGED entryVars
  BY <1>4, UnchangedTyped DEF entryVars, EntryStatus
<1>5. QED  BY <1>1, <1>2, <1>3, <1>4 DEF EntryNext, PamReturns

(* The keyboard loop implements LockSession: whatever the buffer, the colours *)
(* and the two authorities do, the session opens only for an accepted string  *)
(* that was typed in full.                                                    *)
THEOREM ImplementsPromise == EntrySpec => EntryPromiseSpec
BY EntryPromiseInit, EntryPromiseStep, EntryInvariant, PTL
   DEF EntrySpec, EntryPromiseSpec, EntryPromise!Spec

-----------------------------------------------------------------------------
(* The screen locker as a whole                                             *)

StartupInv ==
  /\ pc \in {"creating", "grabbing", "watching"} => screen \in Screen
  /\ pc = "grabbing" => attempts # 0
  /\ pc # "unreachable"
  /\ Running /\ pc # "checking" => ~privileged
  /\ pc = "checking" => screen = 1
  /\ pc \in {"forking", "reading"} => screen = NumScreens + 1
  /\ Running => \A s \in Screen : s < screen => window[s] = "watched"
  /\ Running /\ (screen > 1 \/ pc = "watching") => grabbed = Device

PhaseInv ==
  /\ pc = "reading" <=> phase \in {"reading", "authenticating"}
  /\ pc = "exit 0" <=> phase = "done"
  /\ command = "started" => pc \in {"reading", "exit 0"}

SizesInv == \A s \in Screen \ missed : Fitting(s)

Inv == TypeOK /\ EntryInv /\ StartupInv /\ PhaseInv /\ SizesInv

USE KeysAssumption, ScreenAssumption, BoundAssumption

-----------------------------------------------------------------------------
(* The entry takes part in the steps of the whole: it makes one of its own    *)
(* steps or none.                                                             *)
LEMMA KeyOfEvent ==
  ASSUME TypeOK, events # <<>>, Head(events).type = "key"
  PROVE  Head(events).key \in KeyEvent
<1>1. Head(events) \in Event  BY HeadTailProperties DEF TypeOK
<1>2. QED  BY <1>1 DEF Event

LEMMA EntryStep == ASSUME TypeOK, [Next]_vars PROVE [EntryNext]_entryVars
<1>1. CASE Startup
  BY <1>1 DEF Startup, SetupFails, RefuseHash, DropPrivileges, CreateWindow, TryGrabs,
     WatchRoot, StartCommand, EntryNext
<1>2. CASE ReadKey
  BY <1>2, KeyOfEvent DEF ReadKey, Consume, EntryNext
<1>3. CASE FinishPam
  BY <1>3 DEF FinishPam, EntryNext
<1>4. CASE Resize \/ RaiseAll
  BY <1>4 DEF Resize, RaiseAll
<1>5. CASE Environment
  BY <1>5 DEF Environment, PressKey, ForeignGrab, ChangeScreen, MapAbove
<1>6. CASE UNCHANGED vars
  BY <1>6 DEF vars
<1>7. QED  BY <1>1, <1>2, <1>3, <1>4, <1>5, <1>6 DEF Next, ReadEvent

LEMMA EntryKept == ASSUME TypeOK, EntryInv, [Next]_vars PROVE EntryInv'
BY EntryStep, EntryNextInv

-----------------------------------------------------------------------------
(* The initial state.                                                         *)
LEMMA InitInv == Init => Inv
<1> SUFFICES ASSUME Init PROVE Inv  OBVIOUS
<1>1. EntryInv /\ EntryTypeOK
  BY EntryInitInv DEF Init, EntryInv
<1>2. \A m \in Mode : m \in Sizes  BY DEF Sizes
<1>3. TypeOK
  BY <1>1, <1>2 DEF Init, TypeOK, GrabStatus, GrabAttempts
<1>4. StartupInv
  BY DEF Init, StartupInv, Running, Screen
<1>5. PhaseInv
  BY DEF Init, PhaseInv, EntryInit
<1>6. SizesInv
  BY DEF Init, SizesInv, Fitting, Notices
<1>7. QED  BY <1>1, <1>3, <1>4, <1>5, <1>6 DEF Inv

-----------------------------------------------------------------------------
(* Types.                                                                     *)
LEMMA RotatedSize == ASSUME NEW m \in Mode PROVE m \in Sizes /\ Rotated(m) \in Sizes
BY DEF Sizes

LEMMA Delivered ==
  ASSUME TypeOK, NEW e \in Event, Deliver(e)
  PROVE  /\ events' \in Seq(Event) /\ Len(events') = Len(events) + 1
         /\ events'[Len(events) + 1] = e
         /\ \A i \in 1 .. Len(events) : events'[i] = events[i]
<1>1. events \in Seq(Event) /\ events' = Append(events, e)  BY DEF TypeOK, Deliver
<1>2. QED  BY <1>1, AppendProperties

LEMMA Consumed ==
  ASSUME TypeOK, NEW type, Consume(type)
  PROVE  /\ Head(events) \in Event /\ Head(events) = events[1] /\ events[1].type = type
         /\ events' \in Seq(Event) /\ Len(events') = Len(events) - 1
         /\ \A i \in 1 .. Len(events') : events'[i] = events[i + 1]
BY HeadTailProperties DEF TypeOK, Consume

LEMMA NoticeSize ==
  ASSUME NEW e \in Event, e.type = "RRScreenChangeNotify"
  PROVE  e.screen \in Screen /\ ResizedTo(e) \in Sizes
<1>1. e.screen \in Screen /\ e.mode \in Mode  BY DEF Event
<1>2. QED  BY <1>1, RotatedSize DEF ResizedTo

LEMMA Counted ==
  ASSUME TypeOK, changes < MaxChanges, changes' = changes + 1
  PROVE  changes' \in 0 .. MaxChanges
<1>1. changes \in 0 .. MaxChanges  BY DEF TypeOK
<1>2. QED  BY <1>1

LEMMA TypeNext == ASSUME TypeOK, EntryInv, StartupInv, [Next]_vars PROVE TypeOK'
<1>1. EntryTypeOK'  BY EntryKept DEF EntryInv
<1> USE <1>1
<1>2. CASE SetupFails \/ RefuseHash
  BY <1>2 DEF SetupFails, RefuseHash, Exit, TypeOK
<1>3. CASE DropPrivileges
  BY <1>3 DEF DropPrivileges, grabVars, windowVars, TypeOK
<1>4. CASE CreateWindow
  BY <1>4 DEF CreateWindow, grabVars, TypeOK, GrabStatus, GrabAttempts, StartupInv
<1>5. CASE TryGrabs
  <2>1. CASE attempts = 0
    BY <1>5, <2>1 DEF TryGrabs, TypeOK
  <2>2. CASE attempts # 0
    <3>1. PICK mouse \in GrabResult("pointer", mousegrab), kb \in GrabResult("keyboard", kbgrab) :
            /\ attempts' = attempts - 1
            /\ mousegrab' = mouse /\ kbgrab' = kb
            /\ \/ /\ pc' = "watching"
                  /\ grabbed' = Device
                  /\ window' = [window EXCEPT ![screen] = "mapped"]
                  /\ above' = above \ {screen}
               \/ Exit("exit 1") /\ UNCHANGED above
               \/ /\ grabbed' = grabbed \cup Holds(mouse, kb)
                  /\ UNCHANGED <<pc, window, above>>
      BY <1>5, <2>2 DEF TryGrabs
    <3>2. attempts' \in 0 .. GrabAttempts
      <4>1. attempts \in 0 .. GrabAttempts  BY DEF TypeOK
      <4>2. attempts' = attempts - 1  BY <3>1
      <4>3. QED  BY <2>2, <4>1, <4>2 DEF GrabAttempts
    <3>3. mousegrab' \in GrabStatus /\ kbgrab' \in GrabStatus
      BY <3>1 DEF GrabResult, GrabStatus
    <3>4. /\ grabbed' \subseteq Device
          /\ window' \in [Screen -> {"none", "created", "mapped", "watched"}]
          /\ above' \subseteq Screen
          /\ pc' \in {"watching", "exit 1", pc}
      BY <3>1 DEF Holds, Exit, TypeOK
    <3>5. QED
      BY <1>5, <3>2, <3>3, <3>4 DEF TryGrabs, TypeOK
  <2>3. QED  BY <2>1, <2>2
<1>6. CASE WatchRoot
  <2>1. screen' \in 1 .. NumScreens + 1
    BY <1>6 DEF WatchRoot, StartupInv, Screen
  <2>2. QED  BY <1>6, <2>1 DEF WatchRoot, grabVars, TypeOK
<1>7. CASE StartCommand
  BY <1>7 DEF StartCommand, Exit, TypeOK
<1>8. CASE ReadKey
  <2>1. Consume("key") /\ LeaveIfDone
        /\ UNCHANGED <<screen, attempts, mousegrab, kbgrab, privileged, command, foreign,
                       size, above, geometry, missed, changes>>
    BY <1>8 DEF ReadKey
  <2>2. /\ grabbed' \subseteq Device
        /\ window' \in [Screen -> {"none", "created", "mapped", "watched"}]
        /\ pc' \in {"exit 0", pc}
    BY <2>1 DEF LeaveIfDone, Exit, TypeOK
  <2>3. QED  BY <1>1, <2>1, <2>2, Consumed DEF TypeOK
<1>9. CASE FinishPam
  BY <1>9 DEF FinishPam, LeaveIfDone, Exit, TypeOK
<1>10. CASE Resize
  BY <1>10, Consumed, NoticeSize DEF Resize, mainVars, grabVars, TypeOK
<1>11. CASE RaiseAll
  BY <1>11, Consumed DEF RaiseAll, mainVars, grabVars, TypeOK
<1>12. ASSUME NEW k \in Keys, PressKey(k) PROVE TypeOK'
  <2>1. [type |-> "key", key |-> k] \in Event  BY DEF Event
  <2>2. QED  BY <1>12, <2>1, Delivered DEF PressKey, mainVars, grabVars, windowVars, TypeOK
<1>13. ASSUME NEW d \in Device, ForeignGrab(d) PROVE TypeOK'
  BY <1>13 DEF ForeignGrab, mainVars, windowVars, TypeOK
<1>14. ASSUME NEW s \in Screen, NEW mode \in Mode, NEW rotate \in BOOLEAN,
              ChangeScreen(s, mode, rotate)
       PROVE  TypeOK'
  <2>1. [type |-> "RRScreenChangeNotify", screen |-> s, mode |-> mode, rotate |-> rotate]
          \in Event
    BY DEF Event
  <2>2. events' \in Seq(Event) /\ missed' \subseteq Screen
    BY <1>14, <2>1, Delivered DEF ChangeScreen, TypeOK
  <2>3. geometry' \in [Screen -> Sizes] /\ changes' \in 0 .. MaxChanges
    BY <1>14, RotatedSize, Counted DEF ChangeScreen, TypeOK
  <2>4. QED  BY <1>14, <2>2, <2>3 DEF ChangeScreen, mainVars, grabVars, TypeOK
<1>15. ASSUME NEW s \in Screen, MapAbove(s) PROVE TypeOK'
  <2>1. [type |-> "other"] \in Event  BY DEF Event
  <2>2. events' \in Seq(Event) /\ changes' \in 0 .. MaxChanges
    BY <1>15, <2>1, Delivered, Counted DEF MapAbove, TypeOK
  <2>3. QED  BY <1>15, <2>2 DEF MapAbove, mainVars, grabVars, TypeOK
<1>16. CASE UNCHANGED vars
  BY <1>16 DEF vars, mainVars, grabVars, windowVars, TypeOK
<1>17. QED
  BY <1>2, <1>3, <1>4, <1>5, <1>6, <1>7, <1>8, <1>9, <1>10, <1>11, <1>12, <1>13,
     <1>14, <1>15, <1>16 DEF Next, Startup, ReadEvent, Environment

-----------------------------------------------------------------------------
(* How far the lock has come.                                                 *)
LEMMA StartupKept ==
  ASSUME StartupInv, UNCHANGED <<pc, screen, attempts, privileged, grabbed, window>>
  PROVE  StartupInv'
BY DEF StartupInv, Running

LEMMA StartupNext ==
  ASSUME TypeOK, StartupInv, PhaseInv, [Next]_vars PROVE StartupInv'
<1> USE DEF Running
<1>0. /\ screen \in 1 .. NumScreens + 1
      /\ window \in [Screen -> {"none", "created", "mapped", "watched"}]
  BY DEF TypeOK
<1>1. CASE SetupFails \/ RefuseHash
  BY <1>1 DEF SetupFails, RefuseHash, Exit, StartupInv
<1>2. CASE DropPrivileges
  BY <1>0, <1>2 DEF DropPrivileges, grabVars, windowVars, StartupInv, Screen
<1>3. CASE CreateWindow
  BY <1>0, <1>3 DEF CreateWindow, grabVars, StartupInv, Screen, GrabAttempts
<1>4. CASE TryGrabs
  <2>1. pc = "grabbing" /\ attempts # 0 /\ screen \in Screen
        /\ UNCHANGED <<screen, privileged>>
    BY <1>4 DEF TryGrabs, StartupInv
  <2>2. PICK mouse \in GrabResult("pointer", mousegrab), kb \in GrabResult("keyboard", kbgrab) :
          /\ attempts' = attempts - 1
          /\ \/ /\ pc' = "watching"
                /\ grabbed' = Device
                /\ window' = [window EXCEPT ![screen] = "mapped"]
             \/ Exit("exit 1")
             \/ /\ ~GivesUp(mouse, kb)
                /\ grabbed' = grabbed \cup Holds(mouse, kb)
                /\ UNCHANGED <<pc, window>>
    BY <1>4, <2>1 DEF TryGrabs
  <2>3. CASE pc' = "watching" /\ grabbed' = Device
             /\ window' = [window EXCEPT ![screen] = "mapped"]
    BY <1>0, <2>1, <2>3 DEF StartupInv
  <2>4. CASE Exit("exit 1")
    BY <2>4 DEF Exit, StartupInv
  <2>5. CASE /\ ~GivesUp(mouse, kb)
             /\ grabbed' = grabbed \cup Holds(mouse, kb)
             /\ UNCHANGED <<pc, window>>
    <3>1. attempts' # 0  BY <2>2, <2>5 DEF GivesUp, LastAttempt
    <3>2. grabbed = Device => grabbed' = Device  BY <2>5 DEF Holds
    <3>3. QED  BY <2>1, <2>5, <3>1, <3>2 DEF StartupInv
  <2>6. QED  BY <2>2, <2>3, <2>4, <2>5
<1>5. CASE WatchRoot
  <2>1. screen \in Screen /\ screen' = screen + 1 /\ grabbed' = Device /\ ~privileged'
        /\ pc' = IF screen = NumScreens THEN "forking" ELSE "creating"
    BY <1>5 DEF WatchRoot, StartupInv, grabVars
  <2>2. \A s \in Screen : s < screen' => window'[s] = "watched"
    BY <1>0, <1>5, <2>1 DEF WatchRoot, StartupInv, Screen
  <2>3. CASE screen = NumScreens
    BY <2>1, <2>2, <2>3 DEF StartupInv
  <2>4. CASE screen # NumScreens
    <3>1. screen' \in Screen /\ screen' > 1  BY <2>1, <2>4 DEF Screen
    <3>2. QED  BY <2>1, <2>2, <2>4, <3>1 DEF StartupInv
  <2>5. QED  BY <2>3, <2>4
<1>6. CASE StartCommand
  BY <1>6 DEF StartCommand, Exit, StartupInv
<1>7. CASE ReadKey \/ FinishPam
  <2>1. UNCHANGED <<screen, attempts, privileged>>  BY <1>7 DEF ReadKey, FinishPam
  <2>2. CASE Exit("exit 0")
    BY <2>2 DEF Exit, StartupInv
  <2>3. CASE UNCHANGED <<pc, grabbed, window>>
    BY <2>1, <2>3, StartupKept
  <2>4. QED  BY <1>7, <2>2, <2>3 DEF ReadKey, FinishPam, LeaveIfDone
<1>8. CASE Resize \/ RaiseAll
  BY <1>8, StartupKept DEF Resize, RaiseAll, mainVars, grabVars
<1>9. CASE Environment
  BY <1>9, StartupKept DEF Environment, PressKey, ForeignGrab, ChangeScreen, MapAbove,
     mainVars, grabVars, windowVars
<1>10. CASE UNCHANGED vars
  BY <1>10, StartupKept DEF vars, mainVars, grabVars, windowVars
<1>11. QED
  BY <1>1, <1>2, <1>3, <1>4, <1>5, <1>6, <1>7, <1>8, <1>9, <1>10
     DEF Next, Startup, ReadEvent

-----------------------------------------------------------------------------
(* The place of main() and the phase of the entry.                            *)
LEMMA KeyPhase ==
  ASSUME NEW e, HandleKey(e)
  PROVE  phase = "reading" /\ phase' \in {"reading", "authenticating", "done"}
BY DEF HandleKey, Drop, Key, AcceptHash, AskPam, NoSuchUser, Escape, BackSpace, Insert,
       Nothing

LEMMA PamPhase ==
  ASSUME PamReturns PROVE phase = "authenticating" /\ phase' \in {"reading", "done"}
BY DEF PamReturns, PamReply

LEMMA PhaseNext ==
  ASSUME TypeOK, StartupInv, PhaseInv, [Next]_vars PROVE PhaseInv'
<1>1. CASE Startup /\ ~StartCommand
  <2>1. UNCHANGED phase /\ UNCHANGED command
    BY <1>1 DEF Startup, SetupFails, RefuseHash, DropPrivileges, CreateWindow, TryGrabs,
       WatchRoot, entryVars
  <2>2. pc \notin {"reading", "exit 0"} /\ pc' \notin {"reading", "exit 0"}
    BY <1>1 DEF Startup, SetupFails, RefuseHash, DropPrivileges, CreateWindow, TryGrabs,
       WatchRoot, Exit
  <2>3. QED  BY <2>1, <2>2 DEF PhaseInv
<1>2. CASE StartCommand
  BY <1>2 DEF StartCommand, Exit, Open, entryVars, PhaseInv
<1>3. CASE ReadKey
  <2>1. pc = "reading" /\ phase' \in {"reading", "authenticating", "done"}
        /\ UNCHANGED command
    BY <1>3, KeyPhase DEF ReadKey, Consume
  <2>2. QED  BY <1>3, <2>1 DEF ReadKey, LeaveIfDone, Exit, PhaseInv
<1>4. CASE FinishPam
  <2>1. pc = "reading" /\ phase' \in {"reading", "done"} /\ UNCHANGED command
    BY <1>4, PamPhase DEF FinishPam
  <2>2. QED  BY <1>4, <2>1 DEF FinishPam, LeaveIfDone, Exit, PhaseInv
<1>5. CASE Resize \/ RaiseAll
  BY <1>5 DEF Resize, RaiseAll, mainVars, entryVars, PhaseInv
<1>6. CASE Environment
  BY <1>6 DEF Environment, PressKey, ForeignGrab, ChangeScreen, MapAbove, mainVars,
     entryVars, PhaseInv
<1>7. CASE UNCHANGED vars
  BY <1>7 DEF vars, mainVars, entryVars, PhaseInv
<1>8. QED
  BY <1>1, <1>2, <1>3, <1>4, <1>5, <1>6, <1>7 DEF Next, ReadEvent

-----------------------------------------------------------------------------
(* The sizes of the windows and the notices in the queue.                     *)
LEMMA SizesKept ==
  ASSUME SizesInv, UNCHANGED <<events, size, geometry, missed>> PROVE SizesInv'
BY DEF SizesInv, Fitting, Notices

\* Reading an event moves the notices forward; the one that was first gives its
\* screen's window a size.
LEMMA FittingConsumed ==
  ASSUME TypeOK, NEW type, Consume(type), NEW s \in Screen, Fitting(s),
         geometry' = geometry,
         size'[s] = IF 1 \in Notices(s) THEN ResizedTo(events[1]) ELSE size[s]
  PROVE  Fitting(s)'
<1>1. Len(events) \in Nat \ {0} /\ DOMAIN events = 1 .. Len(events)
  BY HeadTailProperties, EmptySeq, LenProperties DEF TypeOK, Consume
<1>2. /\ DOMAIN events' = 1 .. Len(events) - 1
      /\ \A i \in 1 .. Len(events) - 1 : events'[i] = events[i + 1]
  <2>1. events' \in Seq(Event) /\ Len(events') = Len(events) - 1
        /\ \A i \in 1 .. Len(events') : events'[i] = events[i + 1]
    BY Consumed
  <2>2. QED  BY <2>1, LenProperties
<1>3. \A i \in 1 .. Len(events) - 1 : i \in Notices(s)' <=> i + 1 \in Notices(s)
  BY <1>1, <1>2 DEF Notices
<1>4. Notices(s)' \subseteq 1 .. Len(events) - 1 /\ Notices(s) \subseteq 1 .. Len(events)
  BY <1>1, <1>2 DEF Notices
<1>5. CASE Notices(s) = {} /\ size[s] = geometry[s]
  <2>1. Notices(s)' = {}  BY <1>3, <1>4, <1>5
  <2>2. QED  BY <1>5, <2>1 DEF Fitting
<1>6. ASSUME NEW last \in Notices(s), \A i \in Notices(s) : i <= last,
             ResizedTo(events[last]) = geometry[s]
      PROVE  Fitting(s)'
  <2>1. CASE last = 1
    <3>1. Notices(s)' = {}
      <4>1. ASSUME NEW i \in Notices(s)' PROVE FALSE
        <5>1. i \in Nat \ {0} /\ i + 1 \in Notices(s)  BY <1>3, <1>4, <4>1
        <5>2. QED  BY <1>6, <2>1, <5>1
      <4>2. QED  BY <4>1
    <3>2. QED  BY <1>6, <2>1, <3>1 DEF Fitting
  <2>2. CASE last # 1
    <3>1. last - 1 \in 1 .. Len(events) - 1 /\ (last - 1) + 1 = last
      BY <1>1, <1>4, <2>2
    <3>2. last - 1 \in Notices(s)'  BY <1>3, <3>1
    <3>3. \A i \in Notices(s)' : i <= last - 1
      <4>1. TAKE i \in Notices(s)'
      <4>2. i \in 1 .. Len(events) - 1 /\ i + 1 \in Notices(s)  BY <1>3, <1>4
      <4>3. i + 1 <= last  BY <1>6, <4>2
      <4>4. QED  BY <1>1, <1>4, <4>2, <4>3
    <3>4. events'[last - 1] = events[last]  BY <1>2, <3>1
    <3>5. ResizedTo(events'[last - 1]) = geometry'[s]
      BY <1>6, <3>4 DEF ResizedTo
    <3>6. QED  BY <3>2, <3>3, <3>5 DEF Fitting, ResizedTo
  <2>3. QED  BY <2>1, <2>2
<1>7. QED  BY <1>5, <1>6 DEF Fitting

\* An event that arrives is the last one.
LEMMA FittingDelivered ==
  ASSUME TypeOK, NEW e \in Event, Deliver(e), NEW s \in Screen, size' = size,
         \/ e.type = "RRScreenChangeNotify" /\ e.screen = s /\ ResizedTo(e) = geometry'[s]
         \/ /\ Fitting(s) /\ geometry'[s] = geometry[s]
            /\ ~(e.type = "RRScreenChangeNotify" /\ e.screen = s)
  PROVE  Fitting(s)'
<1>1. Len(events) \in Nat /\ DOMAIN events = 1 .. Len(events)
  BY LenProperties DEF TypeOK
<1>2. /\ DOMAIN events' = 1 .. Len(events) + 1 /\ events'[Len(events) + 1] = e
      /\ \A i \in 1 .. Len(events) : events'[i] = events[i]
  BY Delivered, LenProperties
<1>3. Notices(s) \subseteq 1 .. Len(events) /\ Notices(s)' \subseteq 1 .. Len(events) + 1
  BY <1>1, <1>2 DEF Notices
<1>4. CASE e.type = "RRScreenChangeNotify" /\ e.screen = s /\ ResizedTo(e) = geometry'[s]
  <2>1. Len(events) + 1 \in Notices(s)'  BY <1>1, <1>2, <1>4 DEF Notices
  <2>2. \A i \in Notices(s)' : i <= Len(events) + 1  BY <1>1, <1>3
  <2>3. ResizedTo(events'[Len(events) + 1]) = geometry'[s]  BY <1>2, <1>4
  <2>4. QED  BY <2>1, <2>2, <2>3 DEF Fitting, ResizedTo
<1>5. CASE /\ Fitting(s) /\ geometry'[s] = geometry[s]
           /\ ~(e.type = "RRScreenChangeNotify" /\ e.screen = s)
  <2>1. Notices(s)' = Notices(s)
    <3>1. \A i \in 1 .. Len(events) : i \in Notices(s)' <=> i \in Notices(s)
      BY <1>1, <1>2 DEF Notices
    <3>2. Len(events) + 1 \notin Notices(s)'  BY <1>2, <1>5 DEF Notices
    <3>3. \A i \in 1 .. Len(events) + 1 : i \in 1 .. Len(events) \/ i = Len(events) + 1
      BY <1>1
    <3>4. QED  BY <1>3, <3>1, <3>2, <3>3
  <2>2. \A i \in Notices(s) : ResizedTo(events'[i]) = ResizedTo(events[i])
    BY <1>2, <1>3 DEF ResizedTo
  <2>3. QED  BY <1>5, <2>1, <2>2 DEF Fitting, ResizedTo
<1>6. QED  BY <1>4, <1>5

LEMMA SizesNext == ASSUME TypeOK, SizesInv, [Next]_vars PROVE SizesInv'
<1>1. CASE Startup \/ FinishPam
  BY <1>1, SizesKept DEF Startup, SetupFails, RefuseHash, DropPrivileges, CreateWindow,
     TryGrabs, WatchRoot, StartCommand, FinishPam, windowVars
<1>2. CASE ReadKey \/ RaiseAll
  <2>1. /\ events[1].type \in {"key", "other"} /\ Consume(events[1].type)
        /\ UNCHANGED <<size, geometry, missed>>
    BY <1>2, Consumed DEF ReadKey, RaiseAll
  <2>2. ASSUME NEW s \in Screen PROVE 1 \notin Notices(s)
    BY <2>1 DEF Notices
  <2>3. QED  BY <2>1, <2>2, FittingConsumed DEF SizesInv
<1>3. CASE Resize
  <2>1. /\ Consume("RRScreenChangeNotify") /\ UNCHANGED <<geometry, missed>>
        /\ events[1] \in Event /\ events[1].type = "RRScreenChangeNotify"
        /\ size' = [size EXCEPT ![events[1].screen] = ResizedTo(events[1])]
        /\ 1 \in DOMAIN events
    <3>1. Consume("RRScreenChangeNotify") /\ Head(events) = events[1]
          /\ events[1].type = "RRScreenChangeNotify" /\ events[1] \in Event
      BY <1>3, Consumed DEF Resize
    <3>2. 1 \in DOMAIN events
      BY <3>1, EmptySeq, LenProperties DEF Consume, TypeOK
    <3>3. QED  BY <1>3, <3>1, <3>2 DEF Resize
  <2>2. ASSUME NEW s \in Screen
        PROVE  size'[s] = IF 1 \in Notices(s) THEN ResizedTo(events[1]) ELSE size[s]
    <3>1. size \in [Screen -> Sizes]  BY DEF TypeOK
    <3>2. 1 \in Notices(s) <=> events[1].screen = s  BY <2>1 DEF Notices
    <3>3. QED  BY <2>1, <3>1, <3>2
  <2>3. QED  BY <2>1, <2>2, FittingConsumed DEF SizesInv
<1>4. ASSUME NEW k \in Keys, PressKey(k) PROVE SizesInv'
  <2>1. [type |-> "key", key |-> k] \in Event  BY DEF Event
  <2>2. Deliver([type |-> "key", key |-> k]) /\ UNCHANGED <<size, geometry, missed>>
    BY <1>4 DEF PressKey, windowVars
  <2>3. QED  BY <2>1, <2>2, FittingDelivered DEF SizesInv
<1>5. ASSUME NEW d \in Device, ForeignGrab(d) PROVE SizesInv'
  BY <1>5, SizesKept DEF ForeignGrab, windowVars
<1>6. ASSUME NEW s \in Screen, NEW mode \in Mode, NEW rotate \in BOOLEAN,
             ChangeScreen(s, mode, rotate)
      PROVE  SizesInv'
  <2> DEFINE e == [type |-> "RRScreenChangeNotify", screen |-> s, mode |-> mode,
                   rotate |-> rotate]
  <2>1. e \in Event  BY DEF Event
  <2>2. /\ geometry \in [Screen -> Sizes] /\ UNCHANGED size
        /\ geometry' = [geometry EXCEPT ![s] = IF rotate THEN Rotated(mode) ELSE mode]
    BY <1>6 DEF ChangeScreen, TypeOK
  <2>3. ResizedTo(e) = geometry'[s]  BY <2>2 DEF ResizedTo
  <2>4. CASE Deliver(e) /\ missed' = missed \ {s}
    <3>1. ASSUME NEW t \in Screen \ missed' PROVE Fitting(t)'
      <4>1. CASE t = s  BY <2>1, <2>2, <2>3, <2>4, <4>1, FittingDelivered
      <4>2. CASE t # s
        <5>1. Fitting(t) /\ geometry'[t] = geometry[t] /\ e.screen # t
          BY <2>2, <2>4, <3>1, <4>2 DEF SizesInv
        <5>2. QED  BY <2>1, <2>2, <2>4, <5>1, FittingDelivered
      <4>3. QED  BY <4>1, <4>2
    <3>2. QED  BY <3>1 DEF SizesInv
  <2>5. CASE missed' = missed \cup {s} /\ UNCHANGED events
    <3>1. ASSUME NEW t \in Screen \ missed' PROVE Fitting(t)'
      <4>1. Fitting(t) /\ geometry'[t] = geometry[t]
        BY <2>2, <2>5, <3>1 DEF SizesInv
      <4>2. QED  BY <2>2, <2>5, <4>1 DEF Fitting, Notices
    <3>2. QED  BY <3>1 DEF SizesInv
  <2>6. QED  BY <1>6, <2>4, <2>5 DEF ChangeScreen
<1>7. ASSUME NEW s \in Screen, MapAbove(s) PROVE SizesInv'
  <2>1. [type |-> "other"] \in Event  BY DEF Event
  <2>2. CASE Deliver([type |-> "other"])
    BY <1>7, <2>1, <2>2, FittingDelivered DEF MapAbove, SizesInv
  <2>3. CASE UNCHANGED events
    BY <1>7, <2>3, SizesKept DEF MapAbove
  <2>4. QED  BY <1>7, <2>2, <2>3 DEF MapAbove
<1>8. CASE UNCHANGED vars
  BY <1>8, SizesKept DEF vars, windowVars
<1>9. QED
  BY <1>1, <1>2, <1>3, <1>4, <1>5, <1>6, <1>7, <1>8 DEF Next, ReadEvent, Environment

-----------------------------------------------------------------------------
LEMMA NextInv == Inv /\ [Next]_vars => Inv'
BY EntryKept, TypeNext, StartupNext, PhaseNext, SizesNext DEF Inv

\* The inductive invariant of the whole program.
THEOREM LockerInvariant == Spec => []Inv
BY InitInv, NextInv, PTL DEF Spec

\* The assertion after the grab loop of lockscreen() is never reached, however
\* the grabs go.
THEOREM NeverUnreachableAlways == Spec => []NeverUnreachable
<1>1. Inv => NeverUnreachable  BY DEF Inv, StartupInv, NeverUnreachable
<1>2. QED  BY <1>1, LockerInvariant, PTL

\* readpw() and the post-lock command run only behind windows on all screens,
\* with both devices held and no privileges, for any number of screens.
THEOREM LockedWhileReadingAlways == Spec => []LockedWhileReading
<1>1. ASSUME Inv PROVE LockedWhileReading
  <2>1. ASSUME pc = "reading" PROVE Locked /\ ~privileged
    <3>1. screen = NumScreens + 1 /\ screen > 1 /\ \A s \in Screen : s < screen
      BY <1>1, <2>1 DEF Inv, StartupInv, Screen
    <3>2. QED  BY <1>1, <2>1, <3>1 DEF Inv, StartupInv, Running, Locked
  <2>2. QED  BY <1>1, <2>1 DEF Inv, PhaseInv, Running, LockedWhileReading
<1>2. QED  BY <1>1, LockerInvariant, PTL

\* Rotations and resizes come out right at last, in whatever order keys and
\* notices are queued, also while PAM is asked (XRRScreenChangeNotifyEvent in
\* readpw()).
THEOREM CoveredAlways == Spec => []Covered
<1>1. Inv => Covered  BY DEF Inv, SizesInv, Covered
<1>2. QED  BY <1>1, LockerInvariant, PTL

-----------------------------------------------------------------------------
(* Notices of other windows                                                 *)

\* Behind EventuallyOnTop: a window that another client puts above a watched screen
\* is announced, and the announcement is not taken from the queue without every
\* screen being raised, whatever keys, sizes and answers of PAM come before it.
NoticeRaises ==
  /\ \A s \in above' \ above : window[s] = "watched" => Noticed'
  /\ Noticed /\ ~Noticed' => above' = {} \/ ~Running'

LEMMA StillRunning == ASSUME Running, UNCHANGED pc PROVE Running'
BY DEF Running

LEMMA NoticeWaits ==
  ASSUME TypeOK, Noticed, Running', NEW type, type # "other", Consume(type)
  PROVE  Noticed'
<1>1. PICK i \in DOMAIN events : events[i].type = "other"
  BY DEF Noticed
<1>2. /\ events \in Seq(Event) /\ events[1].type = type
      /\ events' \in Seq(Event) /\ Len(events') = Len(events) - 1
      /\ \A j \in 1 .. Len(events') : events'[j] = events[j + 1]
  BY Consumed DEF TypeOK
<1>3. i \in 1 .. Len(events) /\ Len(events) \in Nat /\ i # 1
  BY <1>1, <1>2, LenProperties
<1>4. i - 1 \in 1 .. Len(events') /\ (i - 1) + 1 = i
  BY <1>2, <1>3
<1>5. events'[i - 1].type = "other" /\ i - 1 \in DOMAIN events'
  BY <1>1, <1>2, <1>4, LenProperties
<1>6. QED  BY <1>5 DEF Noticed

LEMMA NoticeStays ==
  ASSUME TypeOK, Running', NEW e \in Event, Deliver(e)
  PROVE  /\ Noticed => Noticed'
         /\ e.type = "other" => Noticed'
<1>1. /\ events \in Seq(Event) /\ events' \in Seq(Event)
      /\ Len(events') = Len(events) + 1 /\ events'[Len(events) + 1] = e
      /\ \A i \in 1 .. Len(events) : events'[i] = events[i]
  BY Delivered DEF TypeOK
<1>2. DOMAIN events = 1 .. Len(events) /\ DOMAIN events' = 1 .. Len(events) + 1
      /\ Len(events) \in Nat
  BY <1>1, LenProperties
<1>3. ASSUME Noticed PROVE Noticed'
  <2>1. PICK i \in 1 .. Len(events) : events[i].type = "other"
    BY <1>2, <1>3 DEF Noticed
  <2>2. i \in DOMAIN events' /\ events'[i].type = "other"
    BY <1>1, <1>2, <2>1
  <2>3. QED  BY <2>2 DEF Noticed
<1>4. ASSUME e.type = "other" PROVE Noticed'
  <2>1. Len(events) + 1 \in DOMAIN events' /\ events'[Len(events) + 1].type = "other"
    BY <1>1, <1>2, <1>4
  <2>2. QED  BY <2>1 DEF Noticed
<1>5. QED  BY <1>3, <1>4

LEMMA NoticeKept ==
  ASSUME UNCHANGED events, above' \subseteq above
  PROVE  NoticeRaises
BY DEF NoticeRaises, Noticed

LEMMA NoticeStep == ASSUME TypeOK, [Next]_vars PROVE [NoticeRaises]_vars
<1>1. CASE Startup
  <2>1. UNCHANGED events
    BY <1>1 DEF Startup, SetupFails, RefuseHash, DropPrivileges, CreateWindow, TryGrabs,
       WatchRoot, StartCommand
  <2>2. above' \subseteq above
    BY <1>1 DEF Startup, SetupFails, RefuseHash, DropPrivileges, CreateWindow, TryGrabs,
       WatchRoot, StartCommand, windowVars
  <2>3. QED  BY <2>1, <2>2, NoticeKept
<1>2. CASE ReadKey \/ Resize
  <2>1. UNCHANGED above /\ (Consume("key") \/ Consume("RRScreenChangeNotify"))
    BY <1>2 DEF ReadKey, Resize
  <2>2. Noticed /\ Running' => Noticed'
    BY <2>1, NoticeWaits
  <2>3. QED  BY <2>1, <2>2 DEF NoticeRaises
<1>3. CASE RaiseAll
  BY <1>3 DEF RaiseAll, NoticeRaises
<1>4. CASE FinishPam
  BY <1>4, NoticeKept DEF FinishPam
<1>5. ASSUME NEW k \in Keys, PressKey(k) PROVE NoticeRaises
  <2>1. [type |-> "key", key |-> k] \in Event  BY DEF Event
  <2>2. Running' /\ UNCHANGED above /\ Deliver([type |-> "key", key |-> k])
    BY <1>5, StillRunning DEF PressKey, mainVars, windowVars
  <2>3. QED  BY <2>1, <2>2, NoticeStays DEF NoticeRaises
<1>6. ASSUME NEW d \in Device, ForeignGrab(d) PROVE NoticeRaises
  BY <1>6, NoticeKept DEF ForeignGrab, windowVars
<1>7. ASSUME NEW s \in Screen, NEW mode \in Mode, NEW rotate \in BOOLEAN,
             ChangeScreen(s, mode, rotate)
      PROVE  NoticeRaises
  <2> DEFINE e == [type |-> "RRScreenChangeNotify", screen |-> s, mode |-> mode,
                   rotate |-> rotate]
  <2>1. e \in Event  BY DEF Event
  <2>2. Running' /\ UNCHANGED above /\ (Deliver(e) \/ UNCHANGED events)
    BY <1>7, StillRunning DEF ChangeScreen, mainVars
  <2>3. CASE Deliver(e)
    <3>1. Noticed => Noticed'  BY <2>1, <2>2, <2>3, NoticeStays
    <3>2. QED  BY <2>2, <3>1 DEF NoticeRaises
  <2>4. CASE UNCHANGED events
    BY <2>2, <2>4, NoticeKept
  <2>5. QED  BY <2>2, <2>3, <2>4
<1>8. ASSUME NEW s \in Screen, MapAbove(s) PROVE NoticeRaises
  <2> DEFINE e == [type |-> "other"]
  <2>1. e \in Event  BY DEF Event
  <2>2. Running' /\ above' = above \cup {s}
    BY <1>8, StillRunning DEF MapAbove, mainVars
  <2>3. CASE window[s] = "watched"
    <3>1. Deliver(e)  BY <1>8, <2>3 DEF MapAbove
    <3>2. Noticed'  BY <2>1, <2>2, <3>1, NoticeStays
    <3>3. QED  BY <3>2 DEF NoticeRaises
  <2>4. CASE window[s] # "watched"
    <3>1. UNCHANGED events  BY <1>8, <2>4 DEF MapAbove
    <3>2. Noticed => Noticed'  BY <2>2, <3>1 DEF Noticed
    <3>3. QED  BY <2>2, <2>4, <3>2 DEF NoticeRaises
  <2>5. QED  BY <2>3, <2>4
<1>9. CASE UNCHANGED vars
  BY <1>9
<1>10. QED  BY <1>1, <1>2, <1>3, <1>4, <1>5, <1>6, <1>7, <1>8, <1>9
       DEF Next, ReadEvent, Environment

\* For any number of screens, any queue and any order of keys, notices and PAM, a
\* window put over a watched screen is announced, and no announcement is lost.
THEOREM NoticeRaisesAlways == Spec => [][NoticeRaises]_vars
<1>1. Inv => TypeOK  BY DEF Inv
<1>2. TypeOK /\ [Next]_vars => [NoticeRaises]_vars  BY NoticeStep
<1>3. QED  BY <1>1, <1>2, LockerInvariant, PTL DEF Spec

-----------------------------------------------------------------------------
(* The refinement: Status is the entry's until the program fails to lock.     *)

LEMMA SameStatus ==
  ASSUME TypeOK, PhaseInv, EntryTypeOK, pc \notin {"exit 1", "unreachable"}
  PROVE  Status = EntryStatus
BY DEF PhaseInv, Status, EntryStatus, EntryTypeOK

LEMMA PromiseInit == Init => Promise!Init
BY EntryPromiseInit DEF Init, Promise!Init, EntryPromise!Init, Status

LEMMA PromiseStep == Inv /\ [Next]_vars => [Promise!Next]_(Promise!vars)
<1> SUFFICES ASSUME Inv, [Next]_vars PROVE [Promise!Next]_(Promise!vars)
  OBVIOUS
<1>0. TypeOK /\ PhaseInv /\ TypeOK' /\ PhaseInv' /\ EntryTypeOK /\ EntryTypeOK'
  BY NextInv DEF Inv, TypeOK
<1>1. CASE pc' = "exit 1" /\ pc # "exit 1"
  <2>1. Status' = "failed" /\ UNCHANGED Typed
    BY <1>1, UnchangedTyped DEF Next, Startup, SetupFails, RefuseHash, DropPrivileges,
       CreateWindow, TryGrabs, WatchRoot, StartCommand, ReadEvent, ReadKey, Resize,
       RaiseAll, FinishPam, LeaveIfDone, Exit, Environment, PressKey, ForeignGrab,
       ChangeScreen, MapAbove, mainVars, entryVars, vars, Status
  <2>2. Status = "open"
    BY <1>1 DEF Next, Startup, SetupFails, RefuseHash, DropPrivileges,
       CreateWindow, TryGrabs, WatchRoot, StartCommand, ReadEvent, ReadKey, Resize,
       RaiseAll, FinishPam, LeaveIfDone, Exit, Environment, PressKey, ForeignGrab,
       ChangeScreen, MapAbove, mainVars, vars, Status
  <2>3. QED  BY <2>1, <2>2 DEF Promise!Next, Promise!Fail
<1>2. CASE pc = "exit 1"
  <2>1. UNCHANGED <<pc, entryVars>>
    BY <1>2 DEF Next, Startup, SetupFails, RefuseHash, DropPrivileges,
       CreateWindow, TryGrabs, WatchRoot, StartCommand, ReadEvent, ReadKey, Resize,
       RaiseAll, Consume, FinishPam, Environment, PressKey, ForeignGrab,
       ChangeScreen, MapAbove, mainVars, vars
  <2>2. QED  BY <2>1, UnchangedTyped DEF entryVars, Status, Promise!vars
<1>3. CASE pc # "exit 1" /\ pc' # "exit 1"
  <2>1. Status = EntryStatus /\ Status' = EntryStatus'
    BY <1>0, <1>3, NextInv, SameStatus DEF Inv, StartupInv, EntryStatus, Status, PhaseInv,
       EntryTypeOK
  <2>2. [EntryPromise!Next]_(EntryPromise!vars)
    BY EntryStep, EntryPromiseStep DEF Inv
  <2>3. QED
    BY <2>1, <2>2 DEF Promise!Next, Promise!vars, Promise!Lock, Promise!Fail, Promise!Type,
       Promise!Erase, Promise!Clear, Promise!Release, EntryPromise!Next, EntryPromise!vars,
       EntryPromise!Lock, EntryPromise!Fail, EntryPromise!Type, EntryPromise!Erase,
       EntryPromise!Clear, EntryPromise!Release
<1>4. QED  BY <1>1, <1>2, <1>3

\* The whole program, with its startup that can fail on any screen, the grabs,
\* the other clients and the two authorities, implements LockSession: what was
\* locked opens only for an accepted string that was typed in full.
THEOREM LockerImplementsPromise == Spec => PromiseSpec
BY PromiseInit, PromiseStep, LockerInvariant, PTL DEF Spec, PromiseSpec, Promise!Spec
=============================================================================
