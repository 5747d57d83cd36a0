------------------------------- MODULE FdCache -------------------------------
(***************************************************************************)
(* BFD's cache of open files (bfd/cache.c), the transfers that go through  *)
(* it (bfd/bfdio.c), and the members of archives, which share the stream   *)
(* of their archive (bfd/archive.c, opncls.c).                             *)
(*                                                                         *)
(* BFD has one thread, so a call is one step.  A call may close the least  *)
(* recently used file, reopen its own and move it to where it was.  fopen  *)
(* may fail, and so may fclose of a file that was written.                 *)
(***************************************************************************)
EXTENDS Integers, Sequences, FiniteSets, Functions

CONSTANTS File,            \* the files, and the BFDs opened on them
          Writers,         \* those opened by bfd_openw
          Streams,         \* those opened on a stream of the caller
          Archive,         \* those that are archives
          Contents,        \* file -> its contents at first
          Byte,            \* what is written
          NoUser,
          max_open_files,
          Modulus,         \* one more than the largest bfd_size_type
          MaxPos,          \* bound on the positions of headers
          MaxSeek, MaxRead,\* bounds on the positions and lengths asked for
          MaxKnown         \* bound on the files with a BFD at a time

Null    == -1
SARMAG  == 2               \* the length of the magic string of an archive
ar_hdr  == 2               \* the length of a member's header

(* The contents of a file: a header is the size of a member, and ARFMAG.   *)
CellType    == [is : STRING, size : Nat]
Cell(is, n) == [is |-> is, size |-> n]
Header(n)   == <<Cell("size", n), Cell("ARFMAG", 0)>>
IsHeader(s) == Len(s) = ar_hdr /\ s[2].is = "ARFMAG"

(* A member is known by its archive and the position of its header.        *)
Elt == {[my_archive |-> a, key |-> f] : a \in Archive, f \in 0..MaxPos}
Bfd == File \cup Elt

ASSUME FileAssumption ==
    /\ Writers \cap (Streams \cup Archive) = {} /\ Archive \cap Streams = {}
    /\ Writers \cup Streams \cup Archive \subseteq File
    /\ NoUser \notin File /\ (File \cup {NoUser}) \cap Elt = {}
    /\ Contents \in [File -> Seq(CellType)]
    /\ \A f \in File : \A i \in DOMAIN Contents[f] : Len(Contents[f]) + Contents[f][i].size < MaxPos
ASSUME LimitAssumption ==
    /\ max_open_files \in Nat \ {0} /\ MaxPos \in Nat /\ MaxSeek \in Nat /\ MaxRead \in Nat
    /\ MaxKnown \in Nat /\ Modulus \in Nat /\ SARMAG <= MaxPos
    /\ Modulus > 2 * (MaxPos + MaxSeek + MaxRead + ar_hdr)

VARIABLES
    lru,                   \* the ring from bfd_last_cache along lru_next
    open_files,
    stream,                \* file -> where its iostream is, or Null
    where, cacheable, opened_once,  \* of every BFD or file
    data,                  \* file -> its contents
    known,                 \* the files with a BFD
    elts,                  \* the members with a BFD -> origin and parsed_size
    call, bytes,           \* the last call and what it has read
    user                   \* file -> the BFD that has used its stream last

cacheVars == <<lru, open_files, stream, where, cacheable, opened_once>>
vars == <<cacheVars, data, known, elts, call, bytes, user>>

Container(b) == IF b \in Elt THEN b.my_archive ELSE b
Offset(b)    == IF b \in Elt THEN elts[b].origin ELSE 0

(* Where the next transfer of a file takes place, and the files as the     *)
(* cache is to make them appear.                                           *)
Position == [f \in File |-> IF stream[f] # Null THEN stream[f] ELSE where[f]]
Files    == INSTANCE FdFiles WITH position <- Position
ImplementsFiles == Files!filesSpec

(* What the functions below pass on: the state so far, and their result.   *)
Now == [lru |-> lru, open_files |-> open_files, stream |-> stream, where |-> where,
        cacheable |-> cacheable, opened_once |-> opened_once, data |-> data]
Ok(s)     == [s |-> s, ok |-> TRUE]
Failed(s) == [s |-> s, ok |-> FALSE]
Becomes(s) ==
    /\ lru' = s.lru /\ open_files' = s.open_files
    /\ stream' = s.stream /\ where' = s.where
    /\ cacheable' = s.cacheable /\ opened_once' = s.opened_once
    /\ data' = s.data

-----------------------------------------------------------------------------
(* cache.c: the ring and the streams.                                      *)

insert(s, b) == [s EXCEPT !.lru = <<b>> \o @]
snip(s, b)   == LET i == CHOOSE k \in DOMAIN s.lru : s.lru[k] = b
                IN  [s EXCEPT !.lru = SubSeq(@, 1, i - 1) \o SubSeq(@, i + 1, Len(@))]

(* Mutant of bfd_cache_delete: a file that fclose fails on stays in the    *)
(* ring.                                                                   *)
bfd_cache_delete_early(s, b) ==
    {Ok([snip(s, b) EXCEPT !.stream[b] = Null, !.open_files = @ - 1])}
    \cup IF b \in Writers THEN {Failed([s EXCEPT !.stream[b] = Null])} ELSE {}

bfd_cache_delete(s, b) ==
    LET t == [snip(s, b) EXCEPT !.stream[b] = Null, !.open_files = @ - 1]
    IN  {Ok(t)} \cup IF b \in Writers THEN {Failed(t)} ELSE {}

(* close_one looks for a cacheable file from the end of the ring on.       *)
Cacheable(s) == {i \in DOMAIN s.lru : s.cacheable[s.lru[i]]}
to_kill(s)   == {s.lru[i] : i \in {j \in Cacheable(s) : \A k \in Cacheable(s) : k <= j}}

(* Mutant of close_one: the position is not saved.                         *)
close_one_forgets(s) ==
    IF Cacheable(s) = {} THEN {Ok(s)} ELSE UNION {bfd_cache_delete(s, b) : b \in to_kill(s)}

close_one(s) ==
    IF Cacheable(s) = {} THEN {Ok(s)}
    ELSE UNION {bfd_cache_delete([s EXCEPT !.where[b] = s.stream[b]], b) : b \in to_kill(s)}

(* Mutant of MakeRoom: one file more than the limit.                       *)
MakeRoom_late(s) == IF s.open_files > max_open_files THEN close_one(s) ELSE {Ok(s)}

MakeRoom(s) == IF s.open_files >= max_open_files THEN close_one(s) ELSE {Ok(s)}

bfd_cache_init(s, b) ==
    {IF r.ok THEN Ok([insert(r.s, b) EXCEPT !.open_files = @ + 1]) ELSE r : r \in MakeRoom(s)}

(* Mutant of fopen in bfd_open_file: opened_once is not looked at.         *)
truncate(s, b) ==
    [s EXCEPT !.stream[b] = 0, !.opened_once[b] = @ \/ b \in Writers,
              !.data[b] = IF b \in Writers THEN <<>> ELSE @]

(* A file to be written is created once and updated after that.  fopen     *)
(* with r+ and then with w+ fail together, or the first one succeeds.      *)
fopen(s, b) ==
    [s EXCEPT !.stream[b] = 0, !.opened_once[b] = @ \/ b \in Writers,
              !.data[b] = IF b \in Writers /\ ~s.opened_once[b] THEN <<>> ELSE @]

bfd_open_file(s, b) ==
    UNION {IF r.ok THEN {Failed(r.s)} \cup bfd_cache_init(fopen(r.s, b), b) ELSE {r} :
             r \in MakeRoom([s EXCEPT !.cacheable[b] = TRUE])}

(* bfd_cache_lookup: flags holds CACHE_NO_OPEN and CACHE_NO_SEEK.          *)
bfd_cache_lookup(s, b, flags) ==
    LET c == Container(b)
        seek(t) == IF "CACHE_NO_SEEK" \in flags THEN t ELSE [t EXCEPT !.stream[c] = t.where[c]]
    IN  IF s.stream[c] # Null
        THEN {Ok(IF s.lru[1] = c THEN s ELSE insert(snip(s, c), c))}
        ELSE IF "CACHE_NO_OPEN" \in flags THEN {Failed(s)}
        ELSE {IF r.ok THEN Ok(seek(r.s)) ELSE r : r \in bfd_open_file(s, c)}

-----------------------------------------------------------------------------
(* bfdio.c: the transfers of a BFD.                                        *)

bfd_tell(s, b) ==
    {[r.s EXCEPT !.where[b] = IF r.ok THEN (r.s.stream[Container(b)] - Offset(b)) % Modulus
                              ELSE (@ - Offset(b)) % Modulus] :
       r \in bfd_cache_lookup(s, b, {"CACHE_NO_OPEN"})}

(* bfd_seek with SEEK_SET, as [s, ok].  Only a BFD outside of archives     *)
(* trusts its own where.                                                   *)
bfd_seek(s, b, p) ==
    IF b \in File /\ s.where[b] = p THEN {Ok(s)}
    ELSE UNION {IF r.ok
                THEN {Ok([r.s EXCEPT !.stream[Container(b)] = Offset(b) + p, !.where[b] = p])}
                ELSE {Failed(t) : t \in bfd_tell(r.s, b)} :
                  r \in bfd_cache_lookup(s, b, {"CACHE_NO_SEEK"})}

(* Mutant of limited: the end of the member is not looked at.            *)
unlimited(b, w, n) == n

(* How much of a read of n at w a member allows.                           *)
limited(b, w, n) ==
    IF b \notin Elt \/ w + n <= elts[b].parsed_size THEN n
    ELSE IF w >= elts[b].parsed_size THEN 0 ELSE elts[b].parsed_size - w

(* A read of n, as the state and what was read.                            *)
bfd_bread(s, b, n) ==
    LET c == Container(b)
        size == limited(b, s.where[b], n)
        from(t) == Files!Slice(t.data[c], t.stream[c], size)
    IN  IF size = 0 THEN {[s |-> s, ok |-> FALSE, got |-> <<>>]}
        ELSE {IF r.ok
              THEN [s |-> [r.s EXCEPT !.stream[c] = @ + Len(from(r.s)),
                                      !.where[b] = @ + Len(from(r.s))],
                    ok |-> TRUE, got |-> from(r.s)]
              ELSE [s |-> r.s, ok |-> FALSE, got |-> <<>>] :
                r \in bfd_cache_lookup(s, b, {})}

bfd_bwrite(s, b, v) ==
    {IF r.ok
     THEN Ok([r.s EXCEPT !.stream[b] = @ + 1, !.where[b] = @ + 1,
                         !.data[b] = Files!Patched(@, r.s.stream[b], v)])
     ELSE r : r \in bfd_cache_lookup(s, b, {})}

-----------------------------------------------------------------------------
Init ==
    /\ lru = <<>> /\ open_files = 0
    /\ stream = [f \in File |-> Null]
    /\ where = [b \in Bfd |-> 0]
    /\ cacheable = [f \in File |-> FALSE]
    /\ opened_once = [f \in File |-> FALSE]
    /\ data = Contents
    /\ known = {} /\ elts = <<>>
    /\ call = Files!NoCall /\ bytes = <<>>
    /\ user = [f \in File |-> f]

(* The caller has asked for c and got the bytes g.                         *)
Returns(c, g) == call' = c /\ bytes' = g
Fails         == Returns(Files!NoCall, <<>>)

(* _bfd_delete_bfd: nothing is left of the BFD of a file.                  *)
_bfd_delete_bfd(s, f) ==
    [s EXCEPT !.stream[f] = Null, !.cacheable[f] = FALSE, !.opened_once[f] = FALSE,
              !.where = [b \in Bfd |-> IF Container(b) = f THEN 0 ELSE @[b]]]

Opened(f, r) ==
    /\ IF r.ok THEN Becomes(r.s) /\ known' = known \cup {f}
                    /\ Returns([op |-> "open", file |-> f], <<>>)
       ELSE Becomes(_bfd_delete_bfd(r.s, f)) /\ Fails /\ UNCHANGED known
    /\ user' = [user EXCEPT ![f] = f]
    /\ UNCHANGED elts

bfd_fopen(f) ==
    /\ f \in File \ (known \cup Writers) /\ Cardinality(known) < MaxKnown
    /\ \E r \in {Failed(Now)} \cup bfd_cache_init(fopen(Now, f), f) :
         Opened(f, IF r.ok THEN Ok([r.s EXCEPT !.opened_once[f] = TRUE,
                                               !.cacheable[f] = f \notin Streams])
                   ELSE r)

bfd_openw(f) ==
    /\ f \in Writers \ known /\ Cardinality(known) < MaxKnown
    /\ \E r \in bfd_open_file(Now, f) : Opened(f, r)

(* bfd_close of a file, which closes the members of an archive first.      *)
bfd_close(f) ==
    /\ f \in known
    /\ \E r \in IF stream[f] = Null THEN {Ok(Now)} ELSE bfd_cache_delete(Now, f) :
         Becomes(_bfd_delete_bfd(r.s, f))
    /\ known' = known \ {f}
    /\ elts' = Restrict(elts, {e \in DOMAIN elts : e.my_archive # f})
    /\ user' = [user EXCEPT ![f] = f]
    /\ Returns([op |-> "close", file |-> f], <<>>)

(* bfd_close of a member: its stream is its archive's and stays open.      *)
bfd_close_element(e) ==
    /\ e \in DOMAIN elts
    /\ elts' = Restrict(elts, DOMAIN elts \ {e})
    /\ where' = [where EXCEPT ![e] = 0]
    /\ user' = [user EXCEPT ![e.my_archive] = IF @ = e THEN NoUser ELSE @]
    /\ Fails
    /\ UNCHANGED <<lru, open_files, stream, cacheable, opened_once, data, known>>

(* bfd_cache_close of an open file, which is used again later.             *)
bfd_cache_close(f) ==
    /\ f \in known \ (Archive \cup Streams) /\ stream[f] # Null
    /\ \E r \in bfd_cache_delete(Now, f) : Becomes(r.s)
    /\ Fails
    /\ UNCHANGED <<known, elts, user>>

-----------------------------------------------------------------------------
(* The callers' transfers.  Archives are only read by way of their members,*)
(* and a member that has lost its position in a call that failed is only   *)
(* closed.                                                                 *)
Lost    == {e \in DOMAIN elts : where[e] > MaxPos}
Callers == (known \ Archive) \cup (DOMAIN elts \ Lost)

Seek(b, p) ==
    /\ b \in Callers
    /\ \E r \in bfd_seek(Now, b, p) :
         /\ Becomes(r.s)
         /\ user' = [user EXCEPT ![Container(b)] =
                        IF r.ok THEN b ELSE IF @ = b THEN NoUser ELSE @]
         /\ IF r.ok THEN Returns([op |-> "seek", file |-> Container(b), to |-> Offset(b) + p], <<>>)
            ELSE Fails
    /\ UNCHANGED <<known, elts>>

(* A BFD reads on from where it is: it has used the stream last.           *)
Read(b, n) ==
    /\ b \in Callers \ Writers /\ user[Container(b)] = b
    /\ \E r \in bfd_bread(Now, b, n) :
         /\ Becomes(r.s)
         /\ IF r.ok THEN Returns([op |-> "read", file |-> Container(b), by |-> b,
                                  asked |-> n, n |-> limited(b, where[b], n)], r.got)
            ELSE Fails
    /\ UNCHANGED <<known, elts, user>>

Write(b, v) ==
    /\ b \in Callers \cap Writers /\ Position[b] < MaxSeek
    /\ \E r \in bfd_bwrite(Now, b, v) :
         /\ Becomes(r.s)
         /\ IF r.ok THEN Returns([op |-> "write", file |-> b, byte |-> v], <<>>) ELSE Fails
    /\ UNCHANGED <<known, elts, user>>

(* bfd_tell of the BFD that has used the stream last.  A member whose      *)
(* archive is closed takes its own position for one in the archive.        *)
Tell(b) ==
    /\ b \in Callers /\ user[Container(b)] = b
    /\ \E s \in bfd_tell(Now, b) : Becomes(s)
    /\ user' = [user EXCEPT ![Container(b)] =
                   IF b \in Elt /\ stream[Container(b)] = Null THEN NoUser ELSE @]
    /\ Fails
    /\ UNCHANGED <<known, elts>>

Stat(b) ==
    /\ b \in Callers
    /\ \E r \in bfd_cache_lookup(Now, b, {"CACHE_NO_SEEK_ERROR"}) : Becomes(r.s)
    /\ Fails
    /\ UNCHANGED <<known, elts, user>>

-----------------------------------------------------------------------------
(* archive.c: the members of an archive, by the positions of their headers.*)

(* Where bfd_generic_openr_next_archived_file looks for the next header.   *)
AfterMember(e) ==
    LET end == elts[e].origin + elts[e].parsed_size IN end + (end % 2)

FilePositions(a) ==
    {SARMAG} \cup {AfterMember(e) : e \in {x \in DOMAIN elts : x.my_archive = a}}

(* _bfd_get_elt_at_filepos for a member that is not in the cache: the      *)
(* archive is moved to the header, which is then read.                     *)
_bfd_get_elt_at_filepos(a, f) ==
    LET e == [my_archive |-> a, key |-> f]
        trusts == where[a] = f
        asked == IF trusts THEN [op |-> "read", file |-> a, by |-> a, n |-> ar_hdr]
                 ELSE [op |-> "seek_read", file |-> a, to |-> f, n |-> ar_hdr]
    IN  /\ e \notin DOMAIN elts
        /\ \E r \in bfd_seek(Now, a, f) :
             IF ~r.ok THEN Becomes(r.s) /\ Fails /\ UNCHANGED <<elts, user>>
             ELSE \E q \in bfd_bread(r.s, a, ar_hdr) :
                  /\ IF q.ok THEN Returns(asked, q.got) ELSE Fails
                  /\ user' = [user EXCEPT ![a] = IF q.ok /\ trusts /\ @ # a THEN NoUser
                                                 ELSE IF q.ok THEN a ELSE @]
                  /\ IF IsHeader(q.got)
                     THEN \E s \in bfd_tell(q.s, a) :
                            /\ Becomes([s EXCEPT !.where[e] = 0])
                            /\ elts' = [x \in DOMAIN elts \cup {e} |->
                                 IF x # e THEN elts[x]
                                 ELSE [origin |-> s.where[a], parsed_size |-> q.got[1].size]]
                     ELSE Becomes(q.s) /\ UNCHANGED elts
        /\ UNCHANGED known

OpenNext(a) ==
    /\ a \in known \cap Archive
    /\ \E f \in FilePositions(a) : _bfd_get_elt_at_filepos(a, f)

-----------------------------------------------------------------------------
Next ==
    \/ \E f \in File : bfd_fopen(f) \/ bfd_openw(f) \/ bfd_close(f) \/ bfd_cache_close(f)
    \/ \E e \in DOMAIN elts : bfd_close_element(e)
    \/ \E b \in Callers :
         \/ \E p \in 0..MaxSeek : Seek(b, p)
         \/ \E n \in 1..MaxRead : Read(b, n)
         \/ \E v \in Byte : Write(b, v)
         \/ Tell(b) \/ Stat(b)
    \/ \E a \in Archive : OpenNext(a)

Spec == Init /\ [][Next]_vars

-----------------------------------------------------------------------------
(* The state of the cache is well-formed.                                  *)
fdTypeOK ==
    /\ lru \in Seq(File) /\ open_files \in Nat
    /\ stream \in [File -> Nat \cup {Null}]
    /\ where \in [Bfd -> Nat]
    /\ cacheable \in [File -> BOOLEAN] /\ opened_once \in [File -> BOOLEAN]
    /\ known \subseteq File /\ DOMAIN elts \subseteq Elt
    /\ \A f \in File : user[f] \in Bfd \cup {NoUser}

(* The ring holds every file with an open stream once and open_files       *)
(* counts them, after evictions that fail too: no stream is left open that *)
(* close_one cannot find.                                                  *)
RingExact ==
    /\ \A f \in File : stream[f] # Null <=> \E i \in DOMAIN lru : lru[i] = f
    /\ \A i, j \in DOMAIN lru : lru[i] = lru[j] => i = j
    /\ open_files = Len(lru)

(* Beyond the limit only files stay open that must not be closed, and at   *)
(* most one other.                                                         *)
LimitKept ==
    open_files > max_open_files =>
        \A f, g \in File : {f, g} \subseteq {h \in File : stream[h] # Null /\ cacheable[h]} => f = g

(* A BFD that has used the stream of its file last finds the stream where  *)
(* it believes it to be, however often the file was closed and opened      *)
(* again in between.                                                       *)
PositionKept ==
    \A f \in known : user[f] # NoUser => where[user[f]] + Offset(user[f]) = Position[f]

(* What a member reads after a seek or a read of its own is the member's   *)
(* contents, and never what follows it in the archive.                     *)
ReadsExact ==
    [][(call'.op = "read" /\ bytes' # <<>>) => \A e \in DOMAIN elts :
         call'.by = e =>
            bytes' = Files!Slice(Files!Slice(data[e.my_archive], elts[e].origin, elts[e].parsed_size),
                                 where[e], call'.asked)]_vars

(* A header is read where the header is: the member that is kept for a     *)
(* position of the archive is the one at that position.                    *)
MembersExact == \A e \in DOMAIN elts : elts[e].origin = e.key + ar_hdr
=============================================================================
