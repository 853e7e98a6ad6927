------------------------------ MODULE DelRefresh ------------------------------
(***************************************************************************)
(* "del -r" (src/desktop-environment/utilities/del.c): read the exclusions *)
(* and the commands already known, search the desktop entries for more,    *)
(* write all of them sorted to a temporary file and rename that over the   *)
(* command list.  Several refreshes may run at once; each one can fail at  *)
(* every call, be killed, and lose what is not on the disk in a crash.     *)
(*                                                                         *)
(* The file a refresh writes is an inode named after the refresh.  What is *)
(* installed may be another set of programs each time a refresh looks.     *)
(* Names are compared, as in the code, with and without regard to case; no *)
(* two names in use differ in case only.                                   *)
(***************************************************************************)
EXTENDS Naturals, SequencesExt

CONSTANTS
  Proc,       \* refreshes; also the inodes of their temporary files
  Old,        \* the inode of the list that was there before
  Absent,     \* no file
  Commands,   \* names of commands
  None,       \* the empty name
  Lower,      \* a name in lower-case letters
  Rank,       \* place of a name in the order of strcasecmp()
  Entries,    \* the desktop entries, sequences of lines
  Paths,      \* what PATH may refer to: sequences of directories
  Patterns,   \* lines of the exclusion list
  Stdin,      \* what standard input may hold; nothing if it is a terminal
  OldList,    \* contents of the list that was there before
  MaxFaults   \* bound on failing calls, kills and crashes

ASSUME NamesAssumption ==
  /\ None \notin Commands
  /\ Lower \in [Commands -> Commands] /\ Rank \in [Commands -> Nat]
  /\ \A c \in Commands : Lower[Lower[c]] = Lower[c]
  /\ \A c, d \in Commands : Rank[c] = Rank[d] <=> Lower[c] = Lower[d]
ASSUME FiniteAssumption == IsFiniteSet(Commands) /\ IsFiniteSet(Entries)
ASSUME PathAssumption == UNION {UNION ToSet(path) : path \in Paths} \subseteq Commands
ASSUME OneCaseAssumption ==
  \A c, d \in UNION {UNION ToSet(path) : path \in Paths} : Rank[c] = Rank[d] => c = d
ASSUME LinesAssumption == \A lines \in Stdin \cup {OldList} : lines \in Seq(ToSet(lines))
ASSUME InodeAssumption == Old \notin Proc /\ Absent \notin Proc \cup {Old}
ASSUME BoundAssumption == MaxFaults \in Nat

Inodes == Proc \cup {Old}

VARIABLES
  pc,         \* where each refresh is
  exclusions, \* the patterns it loaded
  commands,   \* the list it collects
  status,     \* its exit status
  content,    \* what a read of an inode returns
  synced,     \* the inodes whose content is on the disk
  list,       \* the inode at the path of the command list, or Absent
  committed,  \* the same on the disk
  temps,      \* refreshes whose temporary name is in the directory
  made,       \* history: the lists that refreshes have made
  faults      \* history: failing calls, kills and crashes

runVars == <<pc, exclusions, commands, status>>
fileVars == <<content, synced, list, committed, temps, made>>
refreshVars == <<runVars, fileVars, faults>>

-----------------------------------------------------------------------------
(* Names                                                                    *)

SameName(c, d) == Lower[c] = Lower[d]

list_contains(l, c) == \E i \in DOMAIN l : SameName(l[i], c)

\* Both sides are put in lower-case by setting a bit, which makes of "[" a
\* "{": a pattern with brackets matches nothing it was written for.
fncasematch(pattern, c) ==
  ~pattern.bracket /\ \E d \in pattern.matches : SameName(c, d)

excluded(patterns, c) == \E pattern \in patterns : fncasematch(pattern, c)

command_path(path, c) == \E i \in DOMAIN path : c \in path[i]

-----------------------------------------------------------------------------
(* Desktop entries                                                          *)

\* The command of an Exec line.  With env, it is the first word behind that is
\* neither a variable nor an option.
ExecCommand(words) ==
  IF words[1] # "env" \/ Len(words) = 1 THEN words[1]
  ELSE LET named == {i \in 2 .. Len(words) : words[i] \notin {"variable", "option"}}
       IN IF named = {} THEN None ELSE words[CHOOSE i \in named : \A j \in named : i <= j]

\* One line, given what the lines before have shown.  A later group does not
\* end the first one, and a later Exec line counts instead of an earlier one.
ParseLine(entry, line) ==
  IF entry.over THEN entry
  ELSE IF ~entry.inside THEN [entry EXCEPT !.inside = line.key = "[Desktop Entry]"]
  ELSE IF line.key \in {"NoDisplay", "Terminal", "KonsoleApplication"}
  THEN [entry EXCEPT !.command = None, !.over = TRUE]
  ELSE IF line.key = "Exec" THEN [entry EXCEPT !.command = ExecCommand(line.words)]
  ELSE entry

EntryCommand(lines) ==
  FoldLeft(ParseLine, [inside |-> FALSE, over |-> FALSE, command |-> None], lines).command

\* The command that an entry is good for.  The name is tried in lower-case
\* letters before it is tried as it is.
parse_desktop_entry(lines, patterns, path) ==
  LET c == EntryCommand(lines)
  IN IF c \notin Commands \/ excluded(patterns, c) THEN None
     ELSE IF command_path(path, Lower[c]) THEN Lower[c]
     ELSE IF command_path(path, c) THEN c
     ELSE None

\* The elements of a list at these places, in order.
Pick(l, places) ==
  [n \in 1 .. Cardinality(places) |->
     l[CHOOSE i \in places : Cardinality({j \in places : j <= i}) = n]]

\* The entries in the order of the directory: each one adds its command unless
\* that is in the list, from before or from an earlier entry.
Found(l, order, patterns, path) ==
  LET names == [i \in DOMAIN order |-> parse_desktop_entry(order[i], patterns, path)]
      new == {i \in DOMAIN order :
                /\ names[i] # None /\ ~list_contains(l, names[i])
                /\ \A j \in 1 .. i - 1 : names[j] # None => ~SameName(names[j], names[i])}
  IN l \o Pick(names, new)

\* The lines that are still worth listing.
load_commands_from_file(l, lines, patterns, path) ==
  l \o Pick(lines, {i \in DOMAIN lines : /\ ~excluded(patterns, lines[i])
                                         /\ command_path(path, lines[i])})

\* qsort() with stringcomparator, of which equal names do not show the order;
\* then each command is printed that differs from the one before.
Sorted(l) ==
  LET before(j, i) == Rank[l[j]] < Rank[l[i]] \/ (Rank[l[j]] = Rank[l[i]] /\ j <= i)
  IN [n \in DOMAIN l |->
        l[CHOOSE i \in DOMAIN l : Cardinality({j \in DOMAIN l : before(j, i)}) = n]]

Printed(l) == Pick(l, {i \in DOMAIN l : i = 1 \/ l[i] # l[i - 1]})

-----------------------------------------------------------------------------
\* What somebody who opens the path reads.
Current == IF list = Absent THEN <<>> ELSE content[list]

\* Where a refresh is not running.
Over == {"never", "start", "ended", "complained", "dead"}

RefreshInit ==
  /\ pc \in [Proc -> {"never", "start"}]
  /\ exclusions = [p \in Proc |-> {}]
  /\ commands = [p \in Proc |-> <<>>]
  /\ status = [p \in Proc |-> 0]
  /\ content = [i \in Inodes |-> IF i = Old THEN OldList ELSE <<>>]
  /\ synced = {Old} /\ list \in {Old, Absent} /\ committed = list
  /\ temps = {} /\ faults = 0
  /\ made = {IF list = Old THEN OldList ELSE <<>>}

Fault == faults < MaxFaults /\ faults' = faults + 1

Goto(p, label) == pc' = [pc EXCEPT ![p] = label]

\* What a refresh had in memory is gone when it ends.
Forget(p) ==
  exclusions' = [exclusions EXCEPT ![p] = {}] /\ commands' = [commands EXCEPT ![p] = <<>>]

Exit(p, code) ==
  Goto(p, "ended") /\ status' = [status EXCEPT ![p] = code] /\ Forget(p)

\* A call fails and the refresh ends.
Fails(p) == Fault /\ Exit(p, 1) /\ UNCHANGED fileVars

\* The name of the exclusion list is appended to what malloc() returned: the
\* file read is the right one, another one, or none.
LoadExclusions(p) ==
  /\ pc[p] = "start"
  /\ \/ /\ exclusions' \in {[exclusions EXCEPT ![p] = e] : e \in {Patterns, {}}}
        /\ Goto(p, "stdin") /\ UNCHANGED <<commands, status, fileVars, faults>>
     \/ Fails(p)

\* Standard input, unless it is a terminal or closed.
LoadStdin(p) ==
  /\ pc[p] = "stdin"
  /\ \/ \E lines \in Stdin, path \in Paths :
          /\ commands' = [commands EXCEPT ![p] =
                            load_commands_from_file(@, lines, exclusions[p], path)]
          /\ Goto(p, "load") /\ UNCHANGED <<exclusions, status, fileVars, faults>>
     \/ Fails(p)

\* The present list, which need not exist.
LoadList(p) ==
  /\ pc[p] = "load"
  /\ \/ /\ \E path \in Paths :
              commands' = [commands EXCEPT ![p] =
                             load_commands_from_file(@, Current, exclusions[p], path)]
        /\ Goto(p, "search") /\ UNCHANGED <<exclusions, status, fileVars, faults>>
     \/ list # Absent /\ Fails(p)

Search(p) ==
  /\ pc[p] = "search"
  /\ \/ \E order \in SetToSeqs(Entries), path \in Paths :
          LET found == Found(commands[p], order, exclusions[p], path)
          IN /\ UNCHANGED <<fileVars, faults>>
             /\ IF found = <<>> THEN Exit(p, 1)
                ELSE /\ commands' = [commands EXCEPT ![p] = found]
                     /\ Goto(p, "make") /\ UNCHANGED <<exclusions, status>>
     \/ Fails(p) \* nftw()

\* Bugs of the kind the properties are for: nothing is synced; the new list is
\* at the path while it is being written; a failure leaves the file.
SyncForgotten(p) ==
  /\ pc[p] = "sync" /\ Goto(p, "rename")
  /\ UNCHANGED <<exclusions, commands, status, fileVars, faults>>

MakeInPlace(p) ==
  /\ pc[p] = "make"
  /\ temps' = temps \cup {p} /\ list' = p
  /\ commands' = [commands EXCEPT ![p] = Printed(Sorted(@))]
  /\ made' = made \cup {commands'[p]} /\ Goto(p, "print")
  /\ UNCHANGED <<exclusions, status, content, synced, committed, faults>>

RenameAndLeave(p) ==
  /\ pc[p] = "rename"
  /\ \/ list' = p /\ temps' = temps \ {p} /\ Exit(p, 0)
        /\ UNCHANGED <<content, synced, committed, made, faults>>
     \/ Fails(p)

\* A file with a name of its own for the new list.
MakeTemp(p) ==
  /\ pc[p] = "make"
  /\ \/ Fails(p)
     \/ /\ temps' = temps \cup {p}
        /\ \/ Fault /\ Goto(p, "unlink") /\ UNCHANGED <<made, commands>> \* fdopen()
           \/ /\ commands' = [commands EXCEPT ![p] = Printed(Sorted(@))]
              /\ made' = made \cup {commands'[p]}
              /\ Goto(p, "print") /\ UNCHANGED faults
        /\ UNCHANGED <<exclusions, status, content, synced, list, committed>>

\* The temporary file is not to be used.
GiveUp(p) ==
  Fault /\ Goto(p, "unlink") /\ UNCHANGED <<exclusions, commands, status, fileVars>>

\* The buffer of stdio is written when it is full: a part of the list is in the
\* file then.  A write may fail.
PrintList(p) ==
  /\ pc[p] = "print"
  /\ content' \in {[content EXCEPT ![p] = part] : part \in Prefixes(commands[p])}
  /\ \/ Goto(p, "flush") /\ UNCHANGED faults
     \/ Goto(p, "unlink") /\ Fault
  /\ UNCHANGED <<exclusions, commands, status, synced, list, committed, temps, made>>

Flush(p) ==
  /\ pc[p] = "flush"
  /\ \/ /\ content' = [content EXCEPT ![p] = commands[p]] /\ Goto(p, "sync")
        /\ UNCHANGED <<exclusions, commands, status, synced, list, committed, temps, made, faults>>
     \/ GiveUp(p)

\* fsync() and fclose().
Sync(p) ==
  /\ pc[p] = "sync"
  /\ \/ /\ synced' = synced \cup {p} /\ Goto(p, "rename")
        /\ UNCHANGED <<exclusions, commands, status, content, list, committed, temps, made, faults>>
     \/ GiveUp(p)

Rename(p) ==
  /\ pc[p] = "rename"
  /\ \/ list' = p /\ temps' = temps \ {p} /\ Exit(p, 0)
        /\ UNCHANGED <<content, synced, committed, made, faults>>
     \/ GiveUp(p)

\* The temporary file is deleted; if that fails, the user is told its name.
Unlink(p) ==
  /\ pc[p] = "unlink" /\ Forget(p) /\ status' = [status EXCEPT ![p] = 1]
  /\ \/ temps' = temps \ {p} /\ content' = [content EXCEPT ![p] = <<>>]
        /\ Goto(p, "ended") /\ UNCHANGED faults
     \/ UNCHANGED <<temps, content>> /\ Goto(p, "complained") /\ Fault
  /\ UNCHANGED <<synced, list, committed, made>>

Refresh(p) ==
  \/ LoadExclusions(p) \/ LoadStdin(p) \/ LoadList(p) \/ Search(p)
  \/ MakeTemp(p) \/ PrintList(p) \/ Flush(p) \/ Sync(p) \/ Rename(p) \/ Unlink(p)

-----------------------------------------------------------------------------
(* The machine                                                              *)

\* A refresh is killed.
Kill(p) ==
  /\ Fault /\ pc[p] \notin Over /\ Goto(p, "dead") /\ Forget(p)
  /\ UNCHANGED <<status, fileVars>>

\* The directory reaches the disk.
Commit ==
  /\ committed # list /\ committed' = list
  /\ UNCHANGED <<runVars, content, synced, list, temps, made, faults>>

\* The path leads to the file it led to on the disk; if that was not synced, it
\* has lost what is behind some place.
Crash ==
  /\ Fault
  /\ pc' = [p \in Proc |-> IF pc[p] \in Over THEN pc[p] ELSE "dead"]
  /\ exclusions' = [p \in Proc |-> {}] /\ commands' = [p \in Proc |-> <<>>]
  /\ list' = committed
  /\ IF committed \in synced \cup {Absent} THEN UNCHANGED content
     ELSE content' \in {[content EXCEPT ![committed] = part] :
                          part \in Prefixes(content[committed])}
  /\ UNCHANGED <<status, synced, committed, temps, made>>

RefreshNext == (\E p \in Proc : Refresh(p) \/ Kill(p)) \/ Commit

-----------------------------------------------------------------------------
\* The lists in which every command is there once, in order.
OrderedLists ==
  UNION {{l \in [1 .. n -> Commands] : \A i, j \in 1 .. n : i < j => Rank[l[i]] < Rank[l[j]]} :
           n \in 0 .. Cardinality(Commands)}

\* An unlucky refresh is without effect: unless it was killed or the machine
\* crashed, its temporary file is gone when it ends, and the list is its own
\* if and only if it says so.
NothingLeftBehind ==
  \A p \in Proc : pc[p] = "ended" => p \notin temps /\ (status[p] = 1 => p # list)
=============================================================================
