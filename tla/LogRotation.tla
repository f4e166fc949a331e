----------------------------- MODULE LogRotation -----------------------------
(***************************************************************************)
(* internal/logging/file.go: one process appends entries to xuandu.log and *)
(* renames it to .1, .1 to .2 and so on when the next entry does not fit.  *)
(*                                                                         *)
(* File.mu lets one Write or Close run at a time, so there is one thread;  *)
(* what can interfere is a system call that fails or a process that dies   *)
(* between two of them: one action per system call.  A file is the set of  *)
(* entries in it, numbered in the order of their write(2), and its length. *)
(***************************************************************************)
EXTENDS Naturals

CONSTANTS Limit,    \* MaxBytes
          Backups,  \* Backups
          Sizes,    \* lengths of entries
          None,
          MaxWrites, MaxFaults

ASSUME LimitAssumption == Limit \in Nat
ASSUME BackupsAssumption == Backups \in Nat \ {0}
ASSUME SizesAssumption == Sizes \subseteq Nat \ {0}

VARIABLES
    files,    \* files[0] is xuandu.log, files[n] is xuandu.log.n
    open,     \* File.file: "nil", "open", or closed by Close
    size,     \* File.size
    closed,   \* File.closed
    pc,       \* the system call the process is about to make
    n,        \* the loop variable of rotate
    len,      \* length of the entry to be written
    written,  \* how many entries reached a file, whole or in part
    faults

vars == <<files, open, size, closed, pc, n, len, written, faults>>

File == [ids : SUBSET Nat, bytes : Nat]
EmptyFile == [ids |-> {}, bytes |-> 0]

ASSUME NoneAssumption == None \notin File
ASSUME FaultsAssumption == MaxFaults \in Nat

TypeOK ==
    /\ files \in [0 .. Backups -> File \cup {None}]
    /\ open \in {"nil", "open", "closed"}
    /\ size \in 0 .. Limit
    /\ closed \in BOOLEAN
    /\ pc \in {"down", "idle", "reopen", "close", "shift", "move", "renew", "append"}
    /\ n \in 1 .. Backups
    /\ len \in Nat
    /\ written \in Nat
    /\ faults \in 0 .. MaxFaults

Init ==
    /\ files = [i \in 0 .. Backups |-> None]
    /\ open = "nil" /\ size = 0 /\ closed = FALSE
    /\ pc = "down" /\ n = Backups /\ len = 0
    /\ written = 0 /\ faults = 0
-----------------------------------------------------------------------------
Fault == faults < MaxFaults /\ faults' = faults + 1

\* The call fails: Write returns the error, a process that starts exits.
Fails == Fault /\ pc' = IF pc = "down" THEN "down" ELSE "idle"

SizeForgotten(f) == 0

\* The size taken over from a file when it is opened.
KnownSize(f) == f.bytes

\* An entry of length l does not fit behind s bytes.
Full(s, l) == s + l > Limit

\* The call that follows the opening of the file at size s.
NextCall(s, l) == IF Full(s, l) THEN "close" ELSE "append"

\* Write accepts an entry of length l.
Accepted(l) == ~closed /\ l <= Limit

Write(l) ==
    /\ pc = "idle" /\ Accepted(l)
    /\ written < MaxWrites
    /\ len' = l
    /\ pc' = IF open = "nil" THEN "reopen" ELSE NextCall(size, l)
    /\ UNCHANGED <<files, open, size, closed, n, written, faults>>

Created(fs) == IF fs[0] = None THEN [fs EXCEPT ![0] = EmptyFile] ELSE fs

\* reopen(): at the start, before an entry after a failure, or after a rotation.
Reopen ==
    /\ pc \in {"down", "reopen", "renew"}
    /\ \/ /\ files' = Created(files)
          /\ open' = "open"
          /\ size' = KnownSize(files'[0])
          /\ pc' = CASE pc = "down" -> "idle"
                     [] pc = "reopen" -> NextCall(size', len)
                     [] pc = "renew" -> "append"
          /\ UNCHANGED faults
       \/ /\ files' \in {files, Created(files)}
          /\ Fails
          /\ UNCHANGED <<open, size>>
    /\ UNCHANGED <<closed, n, len, written>>

\* The loop of rotate goes on at m.
MoreToShift(m) == m > 1

\* Close of the full file; whatever it returns, the handle is gone.
CloseFull ==
    /\ pc = "close"
    /\ open' = "nil"
    /\ n' = Backups
    /\ \/ pc' = (IF MoreToShift(n') THEN "shift" ELSE "move") /\ UNCHANGED faults
       \/ Fails
    /\ UNCHANGED <<files, size, closed, len, written>>

Moved(fs, i, j) == IF fs[i] = None THEN fs ELSE [fs EXCEPT ![j] = fs[i], ![i] = None]

GoesOn(m) == Fault /\ n' = m - 1 /\ pc' = IF MoreToShift(n') THEN "shift" ELSE "move"

\* A rename in the loop fails at m.
ShiftFails(m) == Fails /\ n' = m

Shift ==
    /\ pc = "shift"
    /\ \/ /\ files' = Moved(files, n - 1, n)
          /\ n' = n - 1
          /\ pc' = IF MoreToShift(n') THEN "shift" ELSE "move"
          /\ UNCHANGED faults
       \/ ShiftFails(n) /\ UNCHANGED files
    /\ UNCHANGED <<open, size, closed, len, written>>

Move ==
    /\ pc = "move"
    /\ \/ files' = Moved(files, 0, 1) /\ pc' = "renew" /\ UNCHANGED faults
       \/ Fails /\ UNCHANGED files
    /\ UNCHANGED <<open, size, closed, n, len, written>>

\* files[0] with k bytes of the next entry behind it.
Appended(k) ==
    [files EXCEPT ![0] = [ids |-> @.ids \cup {written + 1}, bytes |-> @.bytes + k]]

\* All of the entry is written, or an error leaves a part of it, or nothing.
Append ==
    /\ pc = "append"
    /\ \/ /\ open = "open"
          /\ files' = Appended(len) /\ size' = size + len /\ written' = written + 1
          /\ pc' = "idle" /\ UNCHANGED faults
       \/ \E k \in 1 .. len - 1 :
          /\ open = "open"
          /\ files' = Appended(k) /\ size' = size + k /\ written' = written + 1
          /\ Fails
       \/ /\ IF open = "open" THEN Fails ELSE pc' = "idle" /\ UNCHANGED faults
          /\ UNCHANGED <<files, size, written>>
    /\ UNCHANGED <<open, closed, n, len>>

Close ==
    /\ pc = "idle" /\ ~closed
    /\ closed' = TRUE
    /\ open' = IF open = "nil" THEN "nil" ELSE "closed"
    /\ UNCHANGED <<files, size, pc, n, len, written, faults>>

\* The process ends after Close, or is killed.
Exit ==
    /\ pc # "down"
    /\ IF pc = "idle" /\ closed THEN UNCHANGED faults ELSE Fault
    /\ pc' = "down" /\ open' = "nil" /\ size' = 0 /\ closed' = FALSE /\ n' = Backups /\ len' = 0
    /\ UNCHANGED <<files, written>>

Next == (\E l \in Sizes : Write(l)) \/ Reopen \/ CloseFull \/ Shift \/ Move \/ Append \/ Close \/ Exit

Spec == Init /\ [][Next]_vars
-----------------------------------------------------------------------------
\* No file exceeds the limit, whatever failed before: what counts is the size that
\* File remembers, and it is the one of the file that is open.
Bounded == \A i \in 0 .. Backups : files[i] # None => files[i].bytes <= Limit

\* The entries present are the latest ones, and lie in the files in their order: a
\* rotation that fails or is cut short anywhere costs at most the oldest entries.
Present(id) == \E i \in 0 .. Backups : files[i] # None /\ id \in files[i].ids

RetainedIsSuffix ==
    /\ \A i, j \in 0 .. Backups : i < j /\ files[i] # None /\ files[j] # None =>
         \A x \in files[i].ids, y \in files[j].ids : y < x
    /\ \A x \in 1 .. written : Present(x) => \A y \in x .. written : Present(y)

\* Nothing is written once Close has returned, even if a rotation had failed before and
\* a Write would open the file again.
ClosedIsFinal == [][closed /\ closed' => files' = files]_vars
-----------------------------------------------------------------------------
(* What makes the properties inductive                                     *)

\* Entries are numbered in the order of their writes.
Numbered == \A i \in 0 .. Backups : files[i] # None => files[i].ids \subseteq 1 .. written

\* File.size is the size of the open file; an entry about to be appended fits.
SizeKnown ==
    /\ open = "open" => files[0] # None /\ size = files[0].bytes
    /\ pc = "append" => open = "open" /\ size + len <= Limit
    /\ pc \in {"shift", "move", "renew"} => open = "nil"

\* The name a backup is renamed to is free, unless it is the last; a renewed file is new.
Vacated ==
    /\ pc \in {"shift", "move"} /\ n < Backups => files[n] = None
    /\ pc = "shift" => n > 1
    /\ pc = "move" => n = 1
    /\ pc = "renew" => files[0] = None

\* Between the calls of a Write the entry has passed its checks.
Writing ==
    /\ pc \notin {"down", "idle"} => ~closed /\ len <= Limit
    /\ pc = "down" => ~closed
    /\ open = "closed" => closed

\* The inductive invariant behind Bounded, RetainedIsSuffix and ClosedIsFinal.
IInv == TypeOK /\ Bounded /\ RetainedIsSuffix /\ Numbered /\ SizeKnown /\ Vacated /\ Writing
=============================================================================
