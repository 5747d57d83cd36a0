----------------------------- MODULE Descriptors -----------------------------
(***************************************************************************)
(* gold's file descriptors (gold/descriptors.cc), as the input files       *)
(* (gold/fileread.cc), the output file (gold/output.cc) and a file that is *)
(* read once (gold/layout.cc) use them.  Each file is used by one thread   *)
(* at a time, and several threads run: ::open is called without the lock,  *)
(* everything else under it.                                               *)
(***************************************************************************)
EXTENDS Integers, FiniteSetsExt

CONSTANTS File,        \* the objects that own a descriptor
          Writers,     \* the output files among them
          Once,        \* the files that are opened and read only once
          Name(_),     \* the name of a file
          NoName,
          Fds,         \* the number of descriptors the kernel gives out
          Limits,      \* what limit_ may be at first
          Slack, Floor,\* how limit_ is lowered when the kernel has no more
          Threads      \* how many threads use a file at a time

ASSUME DescriptorsAssumption ==
    /\ Writers \cup Once \subseteq File /\ Writers \cap Once = {}
    /\ \A f \in File : Name(f) # NoName
    /\ {Fds, Slack, Floor, Threads} \cup Limits \subseteq Nat

Descriptor == 0..Fds - 1

VARIABLES open_descriptors_, stack_top_, current_, limit_,
          kernel,      \* descriptor -> the name of the file it is open on, or NoName
          pc,          \* file -> where it is in open, or how it stands
          descriptor_, \* file -> the descriptor it has, or had the last time
          ended        \* "" while gold runs, or why it has stopped

tableVars == <<open_descriptors_, stack_top_, current_, limit_, kernel>>
vars == <<tableVars, pc, descriptor_, ended>>

Unused == [name |-> NoName, stack_next |-> -1, inuse |-> FALSE, is_write |-> FALSE,
           is_on_stack |-> FALSE]

Init ==
    /\ open_descriptors_ = [d \in Descriptor |-> Unused]
    /\ stack_top_ = -1 /\ current_ = 0 /\ limit_ \in Limits
    /\ kernel = [d \in Descriptor |-> NoName]
    /\ pc = [f \in File |-> "released"]
    /\ descriptor_ = [f \in File |-> -1]
    /\ ended = ""

-----------------------------------------------------------------------------
Table == [pods |-> open_descriptors_, top |-> stack_top_, current |-> current_,
          limit |-> limit_, kernel |-> kernel]
Becomes(t) ==
    /\ open_descriptors_' = t.pods /\ stack_top_' = t.top
    /\ current_' = t.current /\ limit_' = t.limit /\ kernel' = t.kernel

(* The stack from its top: what a walk of n steps along stack_next finds.  *)
Walk(t) ==
    LET at[n \in 0..Fds] == IF n = 0 THEN t.top
                            ELSE IF at[n - 1] < 0 THEN -1
                            ELSE t.pods[at[n - 1]].stack_next
    IN  at

(* Mutant of Closed: current_ is left alone.                               *)
Closed_uncounted(t, d) == [t EXCEPT !.kernel[d] = NoName, !.pods[d].name = NoName]

Closed(t, d) ==
    [t EXCEPT !.kernel[d] = NoName, !.pods[d].name = NoName, !.current = @ - 1]

(* Mutant of Closable: descriptors in use are closed too.                  *)
Closable_any(t) == {n \in 0..Fds : Walk(t)[n] >= 0 /\ ~t.pods[Walk(t)[n]].is_write}

(* close_some_descriptor: the first one on the stack that is not in use.   *)
Closable(t) ==
    {n \in 0..Fds : Walk(t)[n] >= 0 /\ ~t.pods[Walk(t)[n]].inuse /\ ~t.pods[Walk(t)[n]].is_write}

close_some_descriptor(t) ==
    IF Closable(t) = {} THEN t
    ELSE LET n    == Min(Closable(t))
             i    == Walk(t)[n]
             next == t.pods[i].stack_next
             u    == IF n = 0 THEN [t EXCEPT !.top = next]
                     ELSE [t EXCEPT !.pods[Walk(t)[n - 1]].stack_next = next]
         IN  [Closed(u, i) EXCEPT !.pods[i].stack_next = -1, !.pods[i].is_on_stack = FALSE]

(* The walk never ends: everything it goes round and round is in use.      *)
Hangs(t) == Closable(t) = {} /\ Walk(t)[Fds] >= 0

-----------------------------------------------------------------------------
(* Mutant of Taken: the descriptor leaves the stack wherever it is.        *)
Taken_anywhere(t, d) ==
    [t EXCEPT !.pods[d] = [@ EXCEPT !.inuse = TRUE, !.stack_next = -1, !.is_on_stack = FALSE],
              !.top = t.pods[d].stack_next]

(* A descriptor is used again; only the top of the stack is taken off it.  *)
Taken(t, d) ==
    IF d = t.top
    THEN [t EXCEPT !.pods[d] = [@ EXCEPT !.inuse = TRUE, !.stack_next = -1, !.is_on_stack = FALSE],
                   !.top = t.pods[d].stack_next]
    ELSE [t EXCEPT !.pods[d].inuse = TRUE]

(* Mutant of StillOpen: the name is not looked at.                         *)
StillOpen_unnamed(f) == descriptor_[f] >= 0

StillOpen(f) == descriptor_[f] >= 0 /\ open_descriptors_[descriptor_[f]].name = Name(f)

(* The files that a thread is busy with.  The output file is open from the *)
(* time it is created until the link ends.                                 *)
Busy  == {f \in File : pc[f] \notin {"released", "closed"} /\ (f \in Writers => pc[f] # "open")}
Ended == \E f \in Writers : pc[f] = "closed"

(* Descriptors::open with the descriptor of the last time.                 *)
Reuse(f) ==
    /\ pc[f] = "released" /\ Cardinality(Busy) < Threads /\ ~Ended
    /\ \/ /\ ~StillOpen(f)
          /\ pc' = [pc EXCEPT ![f] = "opening"]
          /\ UNCHANGED <<tableVars, ended>>
       \/ /\ StillOpen(f)
          /\ pc' = [pc EXCEPT ![f] = "open"]
          /\ ended' = IF open_descriptors_[descriptor_[f]].inuse THEN "assert" ELSE ended
          /\ Becomes(Taken(Table, descriptor_[f]))
    /\ UNCHANGED descriptor_

(* ::open gives the lowest free descriptor.                                *)
KernelOpen(f) ==
    LET free == {d \in Descriptor : kernel[d] = NoName}
    IN  /\ pc[f] = "opening"
        /\ IF free = {}
           THEN pc' = [pc EXCEPT ![f] = "EMFILE"] /\ UNCHANGED <<kernel, descriptor_>>
           ELSE /\ pc' = [pc EXCEPT ![f] = "opened"]
                /\ kernel' = [kernel EXCEPT ![Min(free)] = Name(f)]
                /\ descriptor_' = [descriptor_ EXCEPT ![f] = Min(free)]
        /\ UNCHANGED <<open_descriptors_, stack_top_, current_, limit_, ended>>

Record(f) ==
    LET t == [Table EXCEPT !.pods[descriptor_[f]] =
                              [Unused EXCEPT !.name = Name(f), !.inuse = TRUE,
                                             !.is_write = f \in Writers],
                           !.current = @ + 1]
    IN  /\ pc[f] = "opened"
        /\ Becomes(IF t.current >= t.limit THEN close_some_descriptor(t) ELSE t)
        /\ pc' = [pc EXCEPT ![f] = "open"]
        /\ ended' = IF t.current >= t.limit /\ Hangs(t) THEN "hang" ELSE ended
        /\ UNCHANGED descriptor_

RunOut(f) ==
    LET t == [Table EXCEPT !.limit = Max({current_ - Slack, Floor})]
    IN  /\ pc[f] = "EMFILE"
        /\ Becomes(close_some_descriptor(t))
        /\ pc' = [pc EXCEPT ![f] = "opening"]
        /\ ended' = IF Hangs(t) THEN "hang" ELSE IF Closable(t) = {} THEN "fatal" ELSE ended
        /\ UNCHANGED descriptor_

(* Descriptors::release.                                                   *)
release(t, d, permanent) ==
    IF permanent \/ (t.current > t.limit /\ ~t.pods[d].is_write) THEN Closed(t, d)
    ELSE IF t.pods[d].is_write \/ t.pods[d].is_on_stack
    THEN [t EXCEPT !.pods[d].inuse = FALSE]
    ELSE [t EXCEPT !.pods[d] = [@ EXCEPT !.inuse = FALSE, !.is_on_stack = TRUE, !.stack_next = t.top],
                   !.top = d]

(* File_read::release; what is read once is released for good.             *)
Release(f) ==
    /\ pc[f] = "open" /\ f \notin Writers
    /\ Becomes(release(Table, descriptor_[f], f \in Once))
    /\ pc' = [pc EXCEPT ![f] = IF f \in Once THEN "closed" ELSE "released"]
    /\ UNCHANGED <<descriptor_, ended>>

(* Output_file::close, the last that is done in a link: the descriptor is  *)
(* closed without a word to the table.                                     *)
Close(f) ==
    /\ pc[f] = "open" /\ f \in Writers /\ Busy = {}
    /\ kernel' = [kernel EXCEPT ![descriptor_[f]] = NoName]
    /\ pc' = [pc EXCEPT ![f] = "closed"]
    /\ UNCHANGED <<open_descriptors_, stack_top_, current_, limit_, descriptor_, ended>>

Next == /\ ended = ""
        /\ \E f \in File : \/ Reuse(f) \/ KernelOpen(f) \/ Record(f) \/ RunOut(f)
                          \/ Release(f) \/ Close(f)

Spec == Init /\ [][Next]_vars

-----------------------------------------------------------------------------
(* The table of descriptors is well-formed, and current_ never counts more *)
(* descriptors than the kernel gives out, nor fewer than none.             *)
descTypeOK ==
    /\ open_descriptors_ \in [Descriptor -> [name : {Name(f) : f \in File} \cup {NoName},
                              stack_next : Descriptor \cup {-1}, inuse : BOOLEAN,
                              is_write : BOOLEAN, is_on_stack : BOOLEAN]]
    /\ stack_top_ \in Descriptor \cup {-1}
    /\ current_ \in 0..Fds /\ limit_ \in Nat

(* A file that is open has a descriptor of its own, which the kernel has   *)
(* open on that file: no thread closes the descriptor of another one.      *)
OwnDescriptor ==
    \A f \in File : pc[f] = "open" =>
        /\ kernel[descriptor_[f]] = Name(f)
        /\ \A g \in File \ {f} : pc[g] = "open" => descriptor_[f] # descriptor_[g]

(* The table is well-formed, and current_, which release and open compare  *)
(* with the limit, is the number of descriptors that it has a name for.    *)
Recorded   == {d \in Descriptor : open_descriptors_[d].name # NoName}
CountExact == descTypeOK /\ current_ = Cardinality(Recorded)

(* A released descriptor is available to be closed: the stack leads to it, *)
(* and the stack ends, also when descriptors in its midst are used again.  *)
OnStack == {Walk(Table)[n] : n \in 0..Fds} \ {-1}
ReleasedClosable ==
    /\ \A d \in Recorded : open_descriptors_[d].inuse \/ open_descriptors_[d].is_write \/ d \in OnStack
    /\ Walk(Table)[Fds] = -1

(* gold neither runs into the assertion that a descriptor it finds again   *)
(* is free, nor follows the stack forever; and when it gives up for want   *)
(* of a descriptor that it could close, all that it has open are in use.   *)
KeepsRunning ==
    /\ ended \notin {"assert", "hang"}
    /\ ended = "fatal" =>
          \A d \in Recorded : open_descriptors_[d].inuse \/ open_descriptors_[d].is_write

(* No descriptor was closed by release while it was linked in the stack.   *)
(* Over the limit release does so with a descriptor that was used again    *)
(* from the midst of the stack, and what is said above holds up to then.   *)
Intact == \A d \in Descriptor : open_descriptors_[d].is_on_stack => d \in Recorded
=============================================================================
