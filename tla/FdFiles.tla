------------------------------- MODULE FdFiles -------------------------------
(***************************************************************************)
(* What BFD's file cache promises: every file keeps its contents and one   *)
(* position, as if its stream stayed open until bfd_close.  A call is what *)
(* the caller asked for, in terms of the file; bytes is what it got.       *)
(***************************************************************************)
EXTENDS Integers, Sequences

CONSTANTS File,      \* the files
          Writers    \* the files opened by bfd_openw

VARIABLES data,      \* file -> its contents
          position,  \* file -> where the next transfer takes place
          known,     \* the files that are open for the caller
          call,      \* the last call
          bytes      \* what it has read

filesVars == <<data, position, known, call, bytes>>

(* Up to n elements of s from the offset at on.                            *)
Slice(s, at, n) == SubSeq(s, at + 1, IF at + n <= Len(s) THEN at + n ELSE Len(s))

(* s with v at the offset at.  A gap before it reads as 0.                 *)
Patched(s, at, v) ==
    [i \in 1..(IF at < Len(s) THEN Len(s) ELSE at + 1) |->
        IF i = at + 1 THEN v ELSE IF i <= Len(s) THEN s[i] ELSE 0]

NoCall == [op |-> "none"]

filesInit ==
    /\ position = [f \in File |-> 0]
    /\ known = {}
    /\ call = NoCall
    /\ bytes = <<>>

Calls(op, f) == call'.op = op /\ call'.file = f

Open(f) ==
    /\ Calls("open", f) /\ f \notin known
    /\ known' = known \cup {f}
    /\ data' = IF f \in Writers THEN [data EXCEPT ![f] = <<>>] ELSE data
    /\ position' = [position EXCEPT ![f] = 0]
    /\ bytes' = <<>>

Seek(f) ==
    /\ Calls("seek", f) /\ f \in known
    /\ position' = [position EXCEPT ![f] = call'.to]
    /\ bytes' = <<>>
    /\ UNCHANGED <<data, known>>

ReadFrom(f, p) ==
    /\ f \in known
    /\ bytes' = Slice(data[f], p, call'.n)
    /\ position' = [position EXCEPT ![f] = p + Len(bytes')]
    /\ UNCHANGED <<data, known>>

Read(f)     == Calls("read", f) /\ ReadFrom(f, position[f])
SeekRead(f) == Calls("seek_read", f) /\ ReadFrom(f, call'.to)

Write(f) ==
    /\ Calls("write", f) /\ f \in known \cap Writers
    /\ data' = [data EXCEPT ![f] = Patched(@, position[f], call'.byte)]
    /\ position' = [position EXCEPT ![f] = @ + 1]
    /\ bytes' = <<>>
    /\ UNCHANGED known

Close(f) ==
    /\ Calls("close", f) /\ f \in known
    /\ known' = known \ {f}
    /\ position' = [position EXCEPT ![f] = 0]
    /\ bytes' = <<>>
    /\ UNCHANGED data

(* A call that has failed, or that neither moves nor transfers.            *)
Nothing == call' = NoCall /\ bytes' = <<>> /\ UNCHANGED <<data, position, known>>

filesNext ==
    \/ \E f \in File : Open(f) \/ Seek(f) \/ Read(f) \/ SeekRead(f) \/ Write(f) \/ Close(f)
    \/ Nothing

filesSpec == filesInit /\ [][filesNext]_filesVars
=============================================================================
