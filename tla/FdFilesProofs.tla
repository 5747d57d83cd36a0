---------------------------- MODULE FdFilesProofs ----------------------------
(***************************************************************************)
(* Every step of FdCache keeps the invariant fdInv and is a step of        *)
(* FdFiles or none: the theorems about the file cache and the members of   *)
(* archives.                                                               *)
(***************************************************************************)
EXTENDS FdCacheProofs

(* The provers, in the order in which a leaf is given to them.             *)
USE ZenonT(5), SMTT(30), ZenonT(30)

(* A bound on where a file, as opposed to a member, is.                    *)
Reach == MaxPos + MaxSeek + ar_hdr

(* What holds of each file when K are the files with a BFD.                *)
FileSane(s, K, f) ==
    /\ s.where[f] \in 0..Reach /\ s.stream[f] \in 0..Reach \cup {Null}
    /\ f \notin Writers => s.data[f] = Contents[f]
    /\ f \notin K => s.stream[f] = Null /\ s.where[f] = 0 /\ ~s.opened_once[f]
    /\ f \in K \cap Writers => s.opened_once[f]
    /\ f \in K \ Archive /\ s.stream[f] # Null => s.stream[f] = s.where[f]

(* A member lies in its archive, and does not lead out of reach.           *)
EltSane(e) ==
    /\ e.my_archive \in known
    /\ elts[e].origin \in Nat /\ elts[e].parsed_size \in Nat
    /\ elts[e].origin + elts[e].parsed_size < MaxPos

(* The BFDs that may be the last to have used the stream of f.             *)
Users(f) == {f, NoUser} \cup {e \in DOMAIN elts : e.my_archive = f}

fdInv ==
    /\ Good(Now, {}) /\ \A f \in File : FileSane(Now, known, f)
    /\ known \subseteq File /\ DOMAIN elts \subseteq Elt
    /\ \A e \in DOMAIN elts : EltSane(e)
    /\ user \in [File -> Bfd \cup {NoUser}] /\ \A f \in File : user[f] \in Users(f)
    /\ PositionKept

(* f with v for c.                                                         *)
Updated(f, c, v) == [f EXCEPT ![c] = v]

(* A call leaves the state that its last function has returned.            *)
LEMMA NowIs ==
    ASSUME NEW t \in State, Becomes(t)
    PROVE  Now' = t
  BY DEF Becomes, Now, State

(* The state that the functions pass on is that of the variables.          *)
LEMMA NowFields ==
    /\ Now.stream = stream /\ Now.where = where /\ Now.data = data
    /\ Now.opened_once = opened_once /\ Now.cacheable = cacheable
    /\ Now.lru = lru /\ Now.open_files = open_files
    /\ \A f \in File : Place(Now, f) = Position[f]
    /\ Position = [f \in File |-> Place(Now, f)]
  <1>1. /\ Now.stream = stream /\ Now.where = where /\ Now.data = data
        /\ Now.opened_once = opened_once /\ Now.cacheable = cacheable
        /\ Now.lru = lru /\ Now.open_files = open_files
    BY DEF Now
  <1>2. QED
    BY <1>1 DEF Position, Place

(* The same after the step.                                                *)
LEMMA NowFieldsNext ==
    /\ Now'.stream = stream' /\ Now'.where = where' /\ Now'.data = data'
    /\ Now'.opened_once = opened_once' /\ Now'.cacheable = cacheable'
    /\ \A f \in File : Place(Now, f)' = Position'[f]
    /\ Position' = [f \in File |-> Place(Now, f)']
  <1>1. /\ Now'.stream = stream' /\ Now'.where = where' /\ Now'.data = data'
        /\ Now'.opened_once = opened_once' /\ Now'.cacheable = cacheable'
    BY DEF Now
  <1>2. QED
    BY <1>1 DEF Position, Place

(* An open file is where its stream is.                                    *)
LEMMA PlaceOpen ==
    ASSUME NEW s, NEW c, NEW k \in Nat, s.stream[c] = k
    PROVE  Place(s, c) = k /\ s.stream[c] # Null
  BY Sorts DEF Place

(* Sums of positions.                                                      *)
LEMMA Sums ==
    /\ \A x, y \in Nat : x + y = y + x
    /\ \A x, y, z \in Nat : (x + y) + z = (x + z) + y
  OBVIOUS

(* Two transfers of the same BFD in a row.                                 *)
LEMMA ApartChains ==
    ASSUME NEW s, NEW t, NEW u, NEW b, Apart(s, t, b), Apart(t, u, b)
    PROVE  Apart(s, u, b)
  <1>1. ASSUME NEW f \in File \ {Container(b)}
        PROVE  /\ Same(s, u, f) \/ Evicted(s, u, f)
               /\ u.data[f] = s.data[f] /\ u.opened_once[f] = s.opened_once[f]
    <2>1. /\ Same(s, t, f) \/ Evicted(s, t, f)
          /\ Same(t, u, f) \/ Evicted(t, u, f)
          /\ t.data[f] = s.data[f] /\ t.opened_once[f] = s.opened_once[f]
          /\ u.data[f] = t.data[f] /\ u.opened_once[f] = t.opened_once[f]
      BY DEF Apart
    <2>2. Same(s, u, f) \/ Evicted(s, u, f)
      BY <2>1 DEF Same, Evicted
    <2>3. QED
      BY <2>1, <2>2
  <1>2. \A e \in Elt \ {b} : u.where[e] = s.where[e]
    BY DEF Apart
  <1>3. b \in Elt => u.where[Container(b)] = s.where[Container(b)]
    BY DEF Apart
  <1>4. QED
    BY <1>1, <1>2, <1>3 DEF Apart

(* What bfd_bread does for the BFD of a file that is not written.          *)
LEMMA FileReads ==
    ASSUME NEW s, NEW b \in File, Good(s, {}), b \notin Writers,
           NEW n \in Nat, n # 0, NEW r \in bfd_bread(s, b, n)
    PROVE  /\ Good(r.s, {}) /\ Apart(s, r.s, b) /\ r.s.data[b] = s.data[b]
           /\ r.ok => /\ r.got = Files!Slice(s.data[b], Place(s, b), n)
                      /\ r.s.stream[b] = Place(s, b) + Len(r.got)
                      /\ r.s.where[b] = s.where[b] + Len(r.got)
           /\ ~r.ok => /\ r.got = <<>> /\ r.s.where[b] = s.where[b]
                       /\ r.s.stream[b] = s.stream[b]
           /\ s.stream[b] # Null => r.ok
  <1>1. /\ b \in Bfd /\ b \notin Elt /\ b = Container(b)
        /\ limited(b, s.where[b], n) = n
    BY Sorts, Containers DEF limited
  <1>2. PICK c, k : c = b /\ k = limited(b, s.where[b], n)
    OBVIOUS
  <1>3. /\ b \in Bfd /\ (b \in Elt => elts[b].parsed_size \in Nat)
        /\ c = Container(b) /\ c \notin Writers
    BY <1>1, <1>2
  <1>4. /\ Good(r.s, {}) /\ Apart(s, r.s, b) /\ r.s.data[c] = s.data[c]
        /\ r.ok => /\ r.got = Files!Slice(s.data[c], Place(s, c), limited(b, s.where[b], n))
                   /\ r.s.stream[c] = Place(s, c) + Len(r.got)
                   /\ r.s.where[b] = s.where[b] + Len(r.got)
        /\ ~r.ok => /\ r.got = <<>> /\ r.s.where[b] = s.where[b]
                    /\ r.s.stream[c] = s.stream[c]
        /\ b \in File /\ n # 0 /\ s.stream[c] # Null => r.ok
    BY <1>3, Reads
  <1>5. QED
    BY <1>1, <1>2, <1>4

(* From s to t, nothing but evictions has happened to the files but c, and *)
(* nothing to members outside of c.                                        *)
Aside(s, t, c) ==
    /\ \A f \in File \ {c} : /\ Same(s, t, f) \/ Evicted(s, t, f)
                             /\ t.data[f] = s.data[f]
                             /\ t.opened_once[f] = s.opened_once[f]
    /\ \A e \in Elt : e.my_archive # c => t.where[e] = s.where[e]

(* A transfer of a BFD is aside from the files but its container.          *)
LEMMA ApartAside ==
    ASSUME NEW s, NEW t, NEW b \in Bfd, Apart(s, t, b)
    PROVE  Aside(s, t, Container(b))
  BY Containers DEF Apart, Aside

(* The other files stay sane, and where they are.                          *)
LEMMA AsideSane ==
    ASSUME NEW s, NEW t, NEW c, Aside(s, t, c), NEW K, NEW f \in File \ {c},
           FileSane(s, K, f)
    PROVE  FileSane(t, K, f) /\ Place(t, f) = Place(s, f)
  <1>1. CASE Same(s, t, f)
    BY <1>1 DEF Aside, Same, FileSane, Place
  <1>2. CASE Evicted(s, t, f)
    BY <1>2 DEF Aside, Evicted, FileSane, Place
  <1>3. QED
    BY <1>1, <1>2 DEF Aside

(* A call that is about the file c keeps the invariant if it keeps it for  *)
(* c, its members and the BFD x that has used it last; and the other files *)
(* stay as they are.                                                       *)
LEMMA CallKeeps ==
    ASSUME fdInv, NEW c \in File, NEW t, Becomes(t), Good(t, {}), Aside(Now, t, c),
           known' \subseteq File, known' \ {c} = known \ {c}, FileSane(t, known', c),
           DOMAIN elts' \subseteq Elt,
           \A e \in Elt : e.my_archive # c =>
             (e \in DOMAIN elts' <=> e \in DOMAIN elts) /\ (e \in DOMAIN elts => elts'[e] = elts[e]),
           \A e \in DOMAIN elts' : e.my_archive = c => EltSane(e)',
           NEW x, user' = Updated(user, c, x),
           x \in {c, NoUser} \cup {e \in DOMAIN elts' : e.my_archive = c},
           c \in known' /\ x # NoUser => t.where[x] + Offset(x)' = Place(t, c)
    PROVE  /\ fdInv'
           /\ Position' = Updated(Position, c, Place(t, c))
           /\ data' = Updated(data, c, t.data[c])
  <1>1. t \in State /\ Now \in State /\ t.data \in Stores /\ data \in Stores
    BY NowFields DEF Good, fdInv, State
  <1>2. Now' = t
    BY <1>1, NowIs
  <1>3. \A f \in File \ {c} : f \in known' <=> f \in known
    OBVIOUS
  <1>4. ASSUME NEW f \in File \ {c}
        PROVE  FileSane(t, known', f) /\ Place(t, f) = Place(Now, f)
    <2>1. FileSane(Now, known', f)
      BY <1>3 DEF FileSane, fdInv
    <2>2. QED
      BY <2>1, AsideSane
  <1>5. Good(Now', {}) /\ \A f \in File : FileSane(Now', known', f)
    BY <1>2, <1>4
  <1>6. \A e \in DOMAIN elts' : EltSane(e)'
    <2> SUFFICES ASSUME NEW e \in DOMAIN elts', e.my_archive # c
                 PROVE  EltSane(e)'
      OBVIOUS
    <2>1. e \in DOMAIN elts /\ elts'[e] = elts[e] /\ EltSane(e)
      BY DEF fdInv
    <2>2. e.my_archive \in File
      BY <2>1 DEF fdInv, EltSane
    <2>3. QED
      BY <1>3, <2>1, <2>2 DEF EltSane
  <1>7. user' \in [File -> Bfd \cup {NoUser}]
    <2>1. x \in Bfd \cup {NoUser}
      BY Sorts
    <2>2. QED
      BY <2>1 DEF fdInv, Updated
  <1>8. user'[c] = x /\ \A f \in File \ {c} : user'[f] = user[f]
    BY DEF fdInv, Updated
  <1>9. \A f \in File : user'[f] \in Users(f)'
    <2>1. user'[c] \in Users(c)'
      BY <1>8 DEF Users
    <2>2. ASSUME NEW f \in File \ {c}
          PROVE  user'[f] \in Users(f)'
      BY <1>8 DEF Users, fdInv
    <2>3. QED
      BY <2>1, <2>2
  <1>10. ASSUME NEW f \in known', user'[f] # NoUser
         PROVE  where'[user'[f]] + Offset(user[f])' = Position'[f]
    <2>1. f \in File /\ where' = t.where /\ Position'[f] = Place(t, f)
      BY <1>2, NowFieldsNext DEF Place
    <2>2. CASE f = c
      BY <1>8, <1>10, <2>1, <2>2 DEF Offset
    <2>3. CASE f # c
      <3>1. PICK u : u = user[f]
        OBVIOUS
      <3>2. u = user'[f] /\ u # NoUser /\ f \in known /\ u \in Users(f)
        BY <1>3, <1>8, <1>10, <2>1, <2>3, <3>1 DEF fdInv
      <3>3. where[u] + Offset(u) = Position[f]
        BY <3>1, <3>2 DEF fdInv, PositionKept
      <3>4. Position[f] = Place(t, f)
        BY <1>4, <2>1, <2>3, NowFields
      <3>5. CASE u = f
        <4>1. Offset(u) = 0 /\ Offset(u)' = 0 /\ where[f] \in Nat /\ t.where[f] \in Nat
          BY <1>5, <1>2, <2>1, <3>5, Sorts, NowFields DEF Offset, fdInv, FileSane
        <4>2. t.where[f] = Place(t, f)
          <5>1. where[f] = Place(Now, f)
            BY <2>1, <3>3, <3>5, <4>1, NowFields
          <5>2. QED
            BY <2>1, <2>3, <3>4, <5>1, NowFields DEF Aside, Same, Evicted, Place
        <4>3. QED
          BY <2>1, <3>1, <3>2, <3>5, <4>1, <4>2 DEF Offset
      <3>6. CASE u \in DOMAIN elts /\ u.my_archive = f
        <4>1. u \in Elt /\ elts'[u] = elts[u]
          BY <2>3, <3>6 DEF fdInv
        <4>2. Offset(u)' = Offset(u)
          BY <4>1 DEF Offset
        <4>3. t.where[u] = where[u]
          BY <2>3, <3>6, <4>1, NowFields DEF Aside
        <4>4. QED
          BY <2>1, <3>1, <3>2, <3>3, <3>4, <4>2, <4>3 DEF Offset
      <3>7. QED
        BY <3>2, <3>5, <3>6 DEF Users
    <2>4. QED
      BY <2>2, <2>3
  <1>11. PositionKept'
    <2>1. \A f \in known' : user'[f] # NoUser => where'[user'[f]] + Offset(user[f])' = Position'[f]
      BY <1>10
    <2>2. QED
      BY <2>1 DEF PositionKept
  <1>12. fdInv'
    BY <1>5, <1>6, <1>7, <1>9, <1>11 DEF fdInv
  <1>13. Position' = Updated(Position, c, Place(t, c))
    <2>1. \A f \in File : Position'[f] = Place(t, f)
      BY <1>2, NowFieldsNext DEF Place
    <2>2. \A f \in File \ {c} : Position'[f] = Position[f]
      BY <1>4, <2>1, NowFields
    <2>3. QED
      BY <2>1, <2>2 DEF Position, Updated
  <1>14. data' = Updated(data, c, t.data[c])
    <2>1. data' = t.data /\ \A f \in File \ {c} : t.data[f] = data[f]
      BY <1>2, NowFields, NowFieldsNext DEF Aside
    <2>2. QED
      BY <1>1, <2>1 DEF Stores, Updated
  <1>15. QED
    BY <1>12, <1>13, <1>14

(* A call that opens and closes no BFD.                                    *)
LEMMA TransferKeeps ==
    ASSUME fdInv, NEW b \in Bfd, NEW c, c = Container(b), NEW t, Becomes(t), Good(t, {}),
           Apart(Now, t, b), known' = known, elts' = elts, FileSane(t, known, c),
           NEW x \in Users(c), user' = Updated(user, c, x),
           x # NoUser => t.where[x] + Offset(x) = Place(t, c)
    PROVE  /\ fdInv'
           /\ Position' = Updated(Position, c, Place(t, c))
           /\ data' = Updated(data, c, t.data[c])
  <1>1. c \in File /\ Aside(Now, t, c)
    BY Containers, ApartAside
  <1>2. \A e \in DOMAIN elts' : EltSane(e)'
    BY DEF fdInv, EltSane
  <1>3. Offset(x)' = Offset(x) /\ known' \subseteq File /\ DOMAIN elts' \subseteq Elt
    BY DEF Offset, fdInv
  <1>4. x \in {c, NoUser} \cup {e \in DOMAIN elts' : e.my_archive = c}
    BY DEF Users
  <1>5. QED
    BY <1>1, <1>2, <1>3, <1>4, CallKeeps

(* Nothing moved in a file that is where it was and holds what it held.    *)
LEMMA Unmoved ==
    ASSUME fdInv, NEW c \in File,
           Position' = Updated(Position, c, Position[c]),
           data' = Updated(data, c, data[c])
    PROVE  Position' = Position /\ data' = data
  <1>1. data \in Stores
    BY NowFields DEF fdInv, Good, State
  <1>2. QED
    BY <1>1 DEF Position, Stores, Updated

(* The BFDs that make calls.                                               *)
LEMMA Calling ==
    ASSUME fdInv, NEW b \in Callers
    PROVE  /\ b \in Bfd /\ Container(b) \in known /\ Container(b) \in File
           /\ b \in (known \ Archive) \cup DOMAIN elts
           /\ b \in Users(Container(b))
           /\ b \in File => /\ Container(b) = b /\ b \in known \ Archive /\ b \notin Elt
                            /\ Offset(b) = 0
           /\ b \in Elt => /\ b \in DOMAIN elts /\ b \notin File /\ Container(b) = b.my_archive
                           /\ Container(b) \in Archive /\ Container(b) \notin Writers
                           /\ elts[b].parsed_size \in Nat
                           /\ Offset(b) = elts[b].origin
           /\ Offset(b) \in 0..MaxPos
  <1>1. b \in (known \ Archive) \cup DOMAIN elts
    BY DEF Callers, Lost
  <1>2. CASE b \in known \ Archive
    BY <1>2, Sorts, Containers, LimitAssumption DEF fdInv, Users, Offset
  <1>3. CASE b \in DOMAIN elts
    <2>1. b \in Elt /\ EltSane(b)
      BY <1>3 DEF fdInv
    <2>2. Container(b) = b.my_archive /\ Container(b) \in Archive
      BY <2>1, Containers
    <2>3. Offset(b) = elts[b].origin
      BY <2>1 DEF Offset
    <2>4. elts[b].origin \in 0..MaxPos
      BY <2>1, LimitAssumption DEF EltSane
    <2>5. Container(b) \notin Writers /\ Container(b) \in File
      BY <2>2, FileAssumption
    <2>6. QED
      BY <1>3, <2>1, <2>2, <2>3, <2>4, <2>5, Sorts DEF EltSane, Users
  <1>4. QED
    BY <1>1, <1>2, <1>3

Abstractly == [Files!filesNext]_(Files!filesVars)

(* A call that has failed is none.                                         *)
LEMMA NothingCalled ==
    ASSUME Fails, Position' = Position, data' = data, known' = known
    PROVE  Abstractly
  BY DEF Fails, Returns, Abstractly, Files!filesNext, Files!Nothing, Files!NoCall

(* No position in reach wraps around.                                      *)
LEMMA Reachable ==
    /\ Reach \in Nat /\ Reach < Modulus /\ MaxPos \in Nat /\ MaxSeek \in Nat /\ MaxRead \in Nat
    /\ \A x \in 0..Reach : x \in Nat /\ (x - 0) % Modulus = x
  <1>1. Reach \in Nat /\ Reach < Modulus /\ MaxPos \in Nat /\ MaxSeek \in Nat /\ MaxRead \in Nat
    BY LimitAssumption DEF Reach, ar_hdr
  <1>2. \A x \in 0..Reach : x \in 0..(Modulus - 1) /\ x - 0 = x
    BY <1>1, Modular
  <1>3. QED
    BY <1>1, <1>2, Modular

(* A header read at a position asked for does not lead out of reach, and   *)
(* nothing read is no header.                                              *)
LEMMA HeaderReaches ==
    /\ ar_hdr \in Nat /\ ar_hdr # 0 /\ ~IsHeader(<<>>)
    /\ \A x \in 0..MaxPos : x \in 0..Reach
    /\ \A x \in 0..MaxPos, l \in Nat : l <= ar_hdr => x + l \in 0..Reach
  <1>1. ar_hdr \in Nat /\ ar_hdr # 0 /\ ~IsHeader(<<>>)
    BY DEF ar_hdr, IsHeader
  <1>2. \A x \in 0..MaxPos : x \in 0..Reach
    BY Reachable DEF Reach, ar_hdr
  <1>3. \A x \in 0..MaxPos, l \in Nat : l <= ar_hdr => x + l \in 0..Reach
    BY Reachable DEF Reach, ar_hdr
  <1>4. QED
    BY <1>1, <1>2, <1>3

(* A known file that a transfer leaves open at k.                          *)
LEMMA SaneMoved ==
    ASSUME NEW s, NEW t, NEW c \in known, NEW k \in 0..Reach, FileSane(s, known, c),
           t.data[c] = s.data[c], c \notin Writers \/ t.opened_once[c],
           t.where[c] \in 0..Reach, t.stream[c] = k, c \notin Archive => t.where[c] = k
    PROVE  FileSane(t, known, c)
  BY DEF FileSane

(* bfd_seek keeps the invariant, whether or not the file can be reopened;  *)
(* when it can, it is a seek of the file.                                  *)
LEMMA SeekStep ==
    ASSUME fdInv, NEW b \in Callers, NEW p \in 0..MaxSeek, Seek(b, p)
    PROVE  fdInv' /\ Abstractly
  <1>1. PICK c : c = Container(b)
    OBVIOUS
  <1>2. PICK r \in bfd_seek(Now, b, p) :
          /\ Becomes(r.s)
          /\ user' = [user EXCEPT ![c] = IF r.ok THEN b ELSE IF @ = b THEN NoUser ELSE @]
          /\ IF r.ok THEN Returns([op |-> "seek", file |-> c, to |-> Offset(b) + p], <<>>) ELSE Fails
    BY <1>1 DEF Seek
  <1>3. known' = known /\ elts' = elts
    BY DEF Seek
  <1>4. /\ b \in Bfd /\ c \in known /\ c \in File /\ b \in Users(c)
        /\ b \in File \/ b \in Elt
        /\ b \in File => c = b /\ b \in known \ Archive /\ b \notin Elt /\ Offset(b) = 0
        /\ b \in Elt => b \notin File /\ c \in Archive /\ c \notin Writers
        /\ Offset(b) \in 0..MaxPos
    BY <1>1, Calling DEF Bfd
  <1>5. Offset(b) \in Nat /\ p \in Nat /\ Good(Now, {}) /\ FileSane(Now, known, c)
    BY <1>4, LimitAssumption DEF fdInv
  <1>6. PICK t : t = r.s
    OBVIOUS
  <1>7. /\ Good(t, {}) /\ Apart(Now, t, b) /\ Kept(Now, t, c)
        /\ r.ok => t.where[b] = p
        /\ r.ok => IF b \in File /\ Now.where[b] = p THEN t = Now ELSE t.stream[c] = Offset(b) + p
        /\ ~r.ok => /\ Now.stream[c] = Null /\ t.stream[c] = Null
                    /\ t.where[b] = (Now.where[b] - Offset(b)) % Modulus
    <2>1. b \in Bfd /\ Offset(b) \in Nat /\ p \in Nat /\ Good(Now, {}) /\ t \in {r.s}
      BY <1>4, <1>5, <1>6
    <2>2. QED
      BY <1>1, <1>2, <1>6, <2>1, Seeks
  <1>8. /\ Offset(b) + p \in 0..Reach /\ p \in 0..Reach
        /\ b \in Elt => t.where[c] = Now.where[c]
    BY <1>1, <1>4, <1>7, Reachable DEF Apart, Reach, ar_hdr
  <1>9. Becomes(t)
    BY <1>2, <1>6
  <1>10. t.data[c] = Now.data[c] /\ (Now.opened_once[c] => t.opened_once[c])
    BY <1>4, <1>5, <1>7 DEF Kept, FileSane
  <1>11. CASE r.ok
    <2>1. Place(t, c) = Offset(b) + p
      <3>1. CASE b \in File /\ Now.where[b] = p
        BY <1>4, <1>5, <1>7, <1>11, <3>1 DEF Place, FileSane
      <3>2. CASE ~(b \in File /\ Now.where[b] = p)
        BY <1>5, <1>7, <1>11, <3>2, Sorts DEF Place
      <3>3. QED
        BY <3>1, <3>2
    <2>2. FileSane(t, known, c)
      <3>1. CASE b \in File /\ Now.where[b] = p
        BY <1>5, <1>7, <1>11, <3>1
      <3>2. CASE b \in File /\ Now.where[b] # p
        <4>1. t.stream[c] = p /\ t.where[c] = p /\ p \in 0..Reach
          BY <1>4, <1>5, <1>7, <1>8, <1>11, <3>2
        <4>2. c \notin Writers \/ t.opened_once[c]
          BY <1>4, <1>5, <1>10 DEF FileSane
        <4>3. QED
          BY <1>4, <1>5, <1>10, <4>1, <4>2, SaneMoved
      <3>3. CASE b \in Elt
        <4>1. /\ t.stream[c] = Offset(b) + p /\ Offset(b) + p \in 0..Reach
              /\ t.where[c] = Now.where[c] /\ c \in Archive /\ c \notin Writers
          BY <1>4, <1>7, <1>8, <1>11, <3>3
        <4>2. t.where[c] \in 0..Reach
          BY <1>5, <4>1 DEF FileSane
        <4>3. QED
          BY <1>4, <1>5, <1>10, <4>1, <4>2, SaneMoved
      <3>4. QED
        BY <1>4, <3>1, <3>2, <3>3
    <2>3. user' = Updated(user, c, b)
      BY <1>2, <1>11 DEF Updated
    <2>4. t.where[b] + Offset(b) = Place(t, c)
      BY <1>5, <1>7, <1>11, <2>1, Sums
    <2>5. /\ fdInv' /\ Position' = Updated(Position, c, Place(t, c))
          /\ data' = Updated(data, c, t.data[c])
      BY <1>1, <1>3, <1>4, <1>7, <1>9, <2>2, <2>3, <2>4, TransferKeeps
    <2>6. data' = data
      <3>1. data \in Stores
        BY NowFields DEF fdInv, Good, State
      <3>2. QED
        BY <1>10, <2>5, <3>1, NowFields DEF Stores, Updated
    <2>7. Files!Seek(c)
      <3>1. call' = [op |-> "seek", file |-> c, to |-> Offset(b) + p] /\ bytes' = <<>>
        BY <1>2, <1>11 DEF Returns
      <3>2. call'.op = "seek" /\ call'.file = c /\ call'.to = Place(t, c)
        BY <2>1, <3>1
      <3>3. Position' = [Position EXCEPT ![c] = call'.to]
        BY <2>5, <3>2 DEF Updated
      <3>4. QED
        BY <1>3, <1>4, <2>6, <3>1, <3>2, <3>3 DEF Files!Seek, Files!Calls
    <2>8. QED
      BY <1>4, <2>5, <2>7 DEF Abstractly, Files!filesNext
  <1>12. CASE ~r.ok
    <2>1. PICK x : x = IF user[c] = b THEN NoUser ELSE user[c]
      OBVIOUS
    <2>2. user' = Updated(user, c, x) /\ x \in Users(c)
      BY <1>2, <1>4, <1>12, <2>1 DEF fdInv, Users, Updated
    <2>3. t.where[c] = Now.where[c]
      BY <1>4, <1>5, <1>7, <1>8, <1>12, Reachable DEF FileSane
    <2>4. FileSane(t, known, c)
      BY <1>4, <1>5, <1>7, <1>10, <1>12, <2>3 DEF FileSane
    <2>5. Place(t, c) = Place(Now, c)
      BY <1>7, <1>12, <2>3 DEF Place
    <2>6. x # NoUser => t.where[x] + Offset(x) = Place(t, c)
      <3> SUFFICES ASSUME x # NoUser PROVE t.where[x] + Offset(x) = Place(t, c)
        OBVIOUS
      <3>1. x = user[c] /\ x # b
        BY <2>1
      <3>2. Now.where[x] + Offset(x) = Place(Now, c)
        BY <1>4, <3>1, NowFields DEF fdInv, PositionKept
      <3>3. t.where[x] = Now.where[x]
        BY <1>7, <2>2, <2>3, <3>1 DEF Users, Apart, fdInv
      <3>4. QED
        BY <2>5, <3>2, <3>3
    <2>7. /\ fdInv' /\ Position' = Updated(Position, c, Place(t, c))
          /\ data' = Updated(data, c, t.data[c])
      BY <1>1, <1>3, <1>4, <1>7, <1>9, <2>2, <2>4, <2>6, TransferKeeps
    <2>8. Position' = Position /\ data' = data
      BY <1>4, <1>10, <2>5, <2>7, NowFields, Unmoved
    <2>9. QED
      BY <1>2, <1>3, <1>12, <2>7, <2>8, NothingCalled
  <1>13. QED
    BY <1>11, <1>12

(* What is in a file at first, and that it leads nowhere out of reach.     *)
LEMMA ContentsShort ==
    ASSUME NEW f \in File
    PROVE  /\ Contents[f] \in Seq(CellType) /\ Len(Contents[f]) \in Nat
           /\ \A i \in 1..Len(Contents[f]) : /\ Contents[f][i].size \in Nat
                                             /\ Len(Contents[f]) + Contents[f][i].size < MaxPos
           /\ Len(Contents[f]) # 0 => Len(Contents[f]) < MaxPos
  <1>1. PICK d : d = Contents[f]
    OBVIOUS
  <1>2. d \in Seq(CellType)
    BY <1>1, FileAssumption
  <1>3. Len(d) \in Nat /\ DOMAIN d = 1..Len(d) /\ \A i \in 1..Len(d) : d[i] \in CellType
    BY <1>2
  <1>4. \A x \in CellType : x.size \in Nat
    BY DEF CellType
  <1>5. \A i \in 1..Len(d) : d[i].size \in Nat /\ Len(d) + d[i].size < MaxPos
    BY <1>1, <1>3, <1>4, FileAssumption
  <1>6. Len(d) # 0 => Len(d) < MaxPos
    <2>1. Len(d) # 0 => 1 \in 1..Len(d)
      BY <1>3
    <2>2. QED
      BY <1>3, <1>5, <2>1, LimitAssumption
  <1>7. QED
    BY <1>1, <1>2, <1>3, <1>5, <1>6

(* What is read of a file that is not written does not lead out of reach.  *)
LEMMA ReadReaches ==
    ASSUME NEW f \in File, NEW at, at \in 0..Reach, NEW n, n \in Nat,
           NEW g, g = Files!Slice(Contents[f], at, n)
    PROVE  /\ at + Len(g) \in 0..Reach /\ Len(g) \in Nat
           /\ Len(g) # 0 => at + Len(g) <= Len(Contents[f])
  <1>1. PICK d : d = Contents[f]
    OBVIOUS
  <1>2. d \in Seq(CellType) /\ Len(d) \in Nat /\ (Len(d) # 0 => Len(d) < MaxPos)
    BY <1>1, ContentsShort
  <1>3. at \in Nat /\ Reach \in Nat /\ MaxPos \in Nat /\ MaxPos <= Reach
    BY Reachable DEF Reach, ar_hdr
  <1>4. g = Files!Slice(d, at, n)
    BY <1>1
  <1>5. Len(g) \in 0..n /\ (Len(g) # 0 => at + Len(g) <= Len(d))
    <2>1. PICK a \in Nat, m \in Nat : a = at /\ m = n
      BY <1>3
    <2>2. d \in Seq(CellType) /\ g = Files!Slice(d, a, m)
      BY <1>2, <1>4, <2>1
    <2>3. Len(g) \in 0..m /\ (Len(g) # 0 => a + Len(g) <= Len(d))
      BY <2>2, Sliced
    <2>4. QED
      BY <2>1, <2>3
  <1>6. QED
    BY <1>1, <1>2, <1>3, <1>5

(* bfd_bread keeps the invariant, and is a read of the file at its one     *)
(* position, or has failed.                                                *)
LEMMA ReadStep ==
    ASSUME fdInv, NEW b \in Callers, NEW n \in 1..MaxRead, Read(b, n)
    PROVE  fdInv' /\ Abstractly
  <1>1. PICK c : c = Container(b)
    OBVIOUS
  <1>2. PICK r \in bfd_bread(Now, b, n) :
          /\ Becomes(r.s)
          /\ IF r.ok THEN Returns([op |-> "read", file |-> c, by |-> b,
                                   asked |-> n, n |-> limited(b, where[b], n)], r.got)
             ELSE Fails
    BY <1>1 DEF Read
  <1>3. known' = known /\ elts' = elts /\ user' = user /\ b \notin Writers /\ user[c] = b
    BY <1>1 DEF Read
  <1>4. /\ b \in Bfd /\ c \in known /\ c \in File /\ b \in Users(c)
        /\ b \in File \/ b \in Elt
        /\ b \in File => c = b /\ b \in known \ Archive /\ b \notin Elt /\ Offset(b) = 0
        /\ b \in Elt => b \notin File /\ c \in Archive /\ c \notin Writers /\ elts[b].parsed_size \in Nat
        /\ Offset(b) \in 0..MaxPos
    BY <1>1, Calling DEF Bfd
  <1>5. /\ Offset(b) \in Nat /\ n \in Nat /\ Good(Now, {}) /\ FileSane(Now, known, c)
        /\ c \notin Writers /\ Now \in State
    BY <1>3, <1>4, LimitAssumption DEF fdInv, Good
  <1>6. PICK t, g : t = r.s /\ g = r.got
    OBVIOUS
  <1>7. PICK size : size = limited(b, Now.where[b], n)
    OBVIOUS
  <1>8. /\ Good(t, {}) /\ Apart(Now, t, b) /\ t.data[c] = Now.data[c]
        /\ r.ok => /\ g = Files!Slice(Now.data[c], Place(Now, c), size)
                   /\ Len(g) \in 0..n
                   /\ t.stream[c] = Place(Now, c) + Len(g)
                   /\ t.where[b] = Now.where[b] + Len(g)
        /\ ~r.ok => t.where[b] = Now.where[b] /\ t.stream[c] = Now.stream[c]
    <2>1. /\ b \in Bfd /\ n \in Nat /\ Good(Now, {}) /\ c \notin Writers
          /\ b \in Elt => elts[b].parsed_size \in Nat
      BY <1>4, <1>5
    <2>2. QED
      BY <1>1, <1>2, <1>6, <1>7, <2>1, Reads
  <1>9. Becomes(t)
    BY <1>2, <1>6
  <1>10. b \in Elt => t.where[c] = Now.where[c]
    BY <1>1, <1>8 DEF Apart
  <1>11. Now.where[b] + Offset(b) = Place(Now, c) /\ Now.where[b] \in Nat /\ Place(Now, c) \in 0..Reach
    <2>1. Now.where[b] + Offset(b) = Place(Now, c)
      BY <1>3, <1>4, Sorts, FileAssumption, NowFields DEF fdInv, PositionKept, Bfd
    <2>2. Now.where[b] \in Nat
      BY <1>1, <1>4, <1>5, StateTyped
    <2>3. QED
      BY <1>5, <2>1, <2>2 DEF FileSane, Place
  <1>12. size \in Nat
    BY <1>4, <1>5, <1>7, <1>11 DEF limited
  <1>13. user' = Updated(user, c, b)
    BY <1>3, <1>4 DEF Updated, fdInv
  <1>14. data' = data /\ fdInv' /\ Position' = Updated(Position, c, Place(t, c))
    <2>1. FileSane(t, known, c) /\ t.where[b] + Offset(b) = Place(t, c)
      <3>1. CASE r.ok
        <4>1. Place(Now, c) + Len(g) \in 0..Reach /\ Len(g) \in Nat
          <5>1. g = Files!Slice(Contents[c], Place(Now, c), size)
            BY <1>5, <1>8, <3>1 DEF FileSane
          <5>2. QED
            BY <1>4, <1>11, <1>12, <5>1, ReadReaches
        <4>2. Place(t, c) = Place(Now, c) + Len(g) /\ t.stream[c] # Null
          <5>1. t.stream[c] = Place(Now, c) + Len(g) /\ Place(Now, c) + Len(g) \in Nat
            BY <1>8, <3>1, <4>1, Reachable
          <5>2. QED
            BY <5>1, PlaceOpen
        <4>3. t.where[b] + Offset(b) = Place(t, c)
          <5>1. t.where[b] = Now.where[b] + Len(g)
            BY <1>8, <3>1
          <5>2. (Now.where[b] + Len(g)) + Offset(b) = (Now.where[b] + Offset(b)) + Len(g)
            BY <1>5, <1>11, <4>1, Sums
          <5>3. QED
            BY <1>11, <4>2, <5>1, <5>2
        <4>4. PICK k \in 0..Reach : k = Place(Now, c) + Len(g) /\ t.stream[c] = k
          BY <1>8, <3>1, <4>1
        <4>5. CASE b \in File
          <5>1. Offset(b) = 0 /\ t.where[b] \in Nat /\ c = b
            BY <1>4, <1>8, <1>11, <3>1, <4>1, <4>5
          <5>2. t.where[b] = t.where[b] + Offset(b)
            BY <5>1
          <5>3. t.where[c] = k
            BY <4>2, <4>3, <4>4, <5>1, <5>2
          <5>4. QED
            BY <1>4, <1>5, <1>8, <4>4, <5>3, SaneMoved, <4>3
        <4>6. CASE b \in Elt
          <5>1. t.where[c] \in 0..Reach /\ c \in Archive
            BY <1>4, <1>5, <1>10, <4>6 DEF FileSane
          <5>2. QED
            BY <1>4, <1>5, <1>8, <4>3, <4>4, <5>1, SaneMoved
        <4>7. QED
          BY <1>4, <4>5, <4>6, <4>3
      <3>2. CASE ~r.ok
        <4>1. t.where[c] = Now.where[c]
          BY <1>4, <1>8, <1>10, <3>2
        <4>2. Place(t, c) = Place(Now, c)
          BY <1>8, <3>2, <4>1 DEF Place
        <4>3. QED
          BY <1>4, <1>5, <1>8, <1>11, <3>2, <4>1, <4>2 DEF FileSane
      <3>3. QED
        BY <3>1, <3>2
    <2>2. /\ fdInv' /\ Position' = Updated(Position, c, Place(t, c))
          /\ data' = Updated(data, c, t.data[c])
      BY <1>1, <1>3, <1>4, <1>8, <1>9, <1>13, <2>1, TransferKeeps
    <2>3. data \in Stores
      BY NowFields DEF fdInv, Good, State
    <2>4. QED
      BY <1>8, <2>2, <2>3, NowFields DEF Stores, Updated
  <1>15. CASE r.ok
    <2>1. /\ call' = [op |-> "read", file |-> c, by |-> b, asked |-> n, n |-> limited(b, where[b], n)]
          /\ bytes' = g
      BY <1>2, <1>6, <1>15 DEF Returns
    <2>2. call'.op = "read" /\ call'.file = c /\ call'.n = size
      BY <1>7, <2>1, NowFields
    <2>3. bytes' = Files!Slice(data[c], Position[c], call'.n)
      BY <1>4, <1>8, <1>15, <2>1, <2>2, NowFields
    <2>4. Place(t, c) = Position[c] + Len(bytes')
      <3>1. t.stream[c] = Position[c] + Len(g) /\ Len(g) \in Nat /\ Position[c] \in Nat
        <4>1. Position[c] = Place(Now, c)
          BY <1>4, NowFields
        <4>2. Place(Now, c) \in Nat
          BY <1>11, Reachable
        <4>3. Len(g) \in Nat /\ t.stream[c] = Place(Now, c) + Len(g)
          BY <1>5, <1>8, <1>15
        <4>4. QED
          BY <4>1, <4>2, <4>3
      <3>2. Position[c] + Len(g) \in Nat
        BY <3>1
      <3>3. QED
        BY <2>1, <3>1, <3>2, PlaceOpen
    <2>5. Position' = [Position EXCEPT ![c] = Position[c] + Len(bytes')]
      BY <1>14, <2>4 DEF Updated
    <2>6. Files!Read(c)
      BY <1>3, <1>4, <1>14, <2>2, <2>3, <2>5 DEF Files!Read, Files!ReadFrom, Files!Calls
    <2>7. QED
      BY <1>4, <1>14, <2>6 DEF Abstractly, Files!filesNext
  <1>16. CASE ~r.ok
    <2>1. Place(t, c) = Position[c]
      BY <1>4, <1>8, <1>10, <1>16, NowFields DEF Place
    <2>2. Position' = Position
      BY <1>4, <1>14, <2>1 DEF Position, Updated
    <2>3. QED
      BY <1>2, <1>3, <1>14, <1>16, <2>2, NothingCalled
  <1>17. QED
    BY <1>15, <1>16

(* bfd_bwrite keeps the invariant, and is a write of the file at its one   *)
(* position, or has failed.                                                *)
LEMMA WriteStep ==
    ASSUME fdInv, NEW b \in Callers, NEW v \in Byte, Write(b, v)
    PROVE  fdInv' /\ Abstractly
  <1>1. b \in Writers /\ Position[b] < MaxSeek /\ known' = known /\ elts' = elts /\ user' = user
    BY DEF Write
  <1>2. PICK r \in bfd_bwrite(Now, b, v) :
          /\ Becomes(r.s)
          /\ IF r.ok THEN Returns([op |-> "write", file |-> b, byte |-> v], <<>>) ELSE Fails
    BY DEF Write
  <1>3. b \in File /\ b \in Bfd /\ b \in known \ Archive /\ Container(b) = b /\ Offset(b) = 0
    BY <1>1, FileAssumption, Calling
  <1>4. Good(Now, {}) /\ FileSane(Now, known, b) /\ Now.opened_once[b]
    BY <1>1, <1>3 DEF fdInv, FileSane
  <1>5. PICK t : t = r.s
    OBVIOUS
  <1>6. /\ Good(t, {}) /\ Apart(Now, t, b) /\ t.opened_once[b]
        /\ r.ok => /\ t.data[b] = Files!Patched(Now.data[b], Place(Now, b), v)
                   /\ t.stream[b] = Place(Now, b) + 1 /\ t.where[b] = Now.where[b] + 1
        /\ ~r.ok => /\ t.data[b] = Now.data[b] /\ t.where[b] = Now.where[b]
                    /\ t.stream[b] = Now.stream[b]
    BY <1>2, <1>3, <1>4, <1>5, Writes
  <1>7. Becomes(t)
    BY <1>2, <1>5
  <1>8. Place(Now, b) = Now.where[b] /\ Now.where[b] \in Nat /\ Now.where[b] + 1 \in 0..Reach
    BY <1>1, <1>3, <1>4, Reachable, NowFields DEF FileSane, Place, Reach, ar_hdr
  <1>9. FileSane(t, known, b) /\ Place(t, b) = t.where[b] /\ t.where[b] \in Nat
    <2>1. CASE r.ok
      BY <1>1, <1>3, <1>4, <1>6, <1>8, <2>1, Sorts DEF FileSane, Place
    <2>2. CASE ~r.ok
      BY <1>1, <1>3, <1>4, <1>6, <1>8, <2>2 DEF FileSane, Place
    <2>3. QED
      BY <2>1, <2>2
  <1>10. PICK x : x = user[b]
    OBVIOUS
  <1>11. user' = Updated(user, b, x) /\ x \in Users(b) /\ (x # NoUser => x = b)
    <2>1. user' = Updated(user, b, x) /\ x \in Users(b)
      BY <1>1, <1>3, <1>10 DEF fdInv, Updated
    <2>2. \A e \in DOMAIN elts : e.my_archive # b
      BY <1>3, Containers DEF fdInv
    <2>3. QED
      BY <2>1, <2>2 DEF Users
  <1>12. x # NoUser => t.where[x] + Offset(x) = Place(t, b)
    BY <1>3, <1>9, <1>11
  <1>13. /\ fdInv' /\ Position' = Updated(Position, b, Place(t, b))
         /\ data' = Updated(data, b, t.data[b])
    BY <1>1, <1>3, <1>6, <1>7, <1>9, <1>11, <1>12, TransferKeeps
  <1>14. CASE r.ok
    <2>1. call' = [op |-> "write", file |-> b, byte |-> v] /\ bytes' = <<>>
      BY <1>2, <1>14 DEF Returns
    <2>2. call'.op = "write" /\ call'.file = b /\ call'.byte = v
      BY <2>1
    <2>3. Position' = [Position EXCEPT ![b] = @ + 1]
      BY <1>3, <1>6, <1>8, <1>9, <1>13, <1>14, NowFields DEF Updated
    <2>4. data' = [data EXCEPT ![b] = Files!Patched(@, Position[b], call'.byte)]
      BY <1>3, <1>6, <1>13, <1>14, <2>2, NowFields DEF Updated
    <2>5. Files!Write(b)
      BY <1>1, <1>3, <2>1, <2>2, <2>3, <2>4 DEF Files!Write, Files!Calls
    <2>6. QED
      BY <1>3, <1>13, <2>5 DEF Abstractly, Files!filesNext
  <1>15. CASE ~r.ok
    <2>1. Place(t, b) = Position[b] /\ t.data[b] = data[b]
      BY <1>3, <1>6, <1>8, <1>9, <1>15, NowFields
    <2>2. Position' = Position /\ data' = data
      BY <1>3, <1>13, <2>1, Unmoved
    <2>3. QED
      BY <1>1, <1>2, <1>13, <1>15, <2>2, NothingCalled
  <1>16. QED
    BY <1>14, <1>15

(* bfd_tell keeps the invariant and moves nothing.                         *)
LEMMA TellStep ==
    ASSUME fdInv, NEW b \in Callers, Tell(b)
    PROVE  fdInv' /\ Abstractly
  <1>1. PICK c : c = Container(b)
    OBVIOUS
  <1>2. PICK t \in bfd_tell(Now, b) : Becomes(t)
    BY DEF Tell
  <1>3. PICK x : x = IF b \in Elt /\ stream[c] = Null THEN NoUser ELSE b
    OBVIOUS
  <1>4. /\ known' = known /\ elts' = elts /\ Fails /\ user[c] = b
        /\ user' = Updated(user, c, x)
    BY <1>1, <1>3 DEF Tell, Updated
  <1>5. /\ b \in Bfd /\ c \in known /\ c \in File /\ b \in Users(c)
        /\ b \in File \/ b \in Elt
        /\ b \in File => c = b /\ b \in known \ Archive /\ b \notin Elt /\ Offset(b) = 0
        /\ b \in Elt => b \notin File /\ c \in Archive /\ c \notin Writers
        /\ Offset(b) \in 0..MaxPos
    BY <1>1, Calling DEF Bfd
  <1>6. Offset(b) \in Nat /\ Good(Now, {}) /\ FileSane(Now, known, c) /\ Now \in State
    BY <1>5, LimitAssumption DEF fdInv, Good
  <1>7. /\ Good(t, {}) /\ Apart(Now, t, b) /\ Kept(Now, t, c) /\ t.stream[c] = Now.stream[c]
        /\ t.where[b] = IF Now.stream[c] # Null THEN (Now.stream[c] - Offset(b)) % Modulus
                        ELSE (Now.where[b] - Offset(b)) % Modulus
    BY <1>1, <1>2, <1>5, <1>6, Tells
  <1>8. b \in Elt => t.where[c] = Now.where[c]
    BY <1>1, <1>7 DEF Apart
  <1>9. t.data[c] = Now.data[c] /\ (Now.opened_once[c] => t.opened_once[c])
    BY <1>5, <1>6, <1>7 DEF Kept, FileSane
  <1>10. Now.where[b] + Offset(b) = Place(Now, c) /\ Now.where[b] \in Nat
    <2>1. Now.where[b] + Offset(b) = Place(Now, c)
      BY <1>4, <1>5, Sorts, FileAssumption, NowFields DEF fdInv, PositionKept, Bfd
    <2>2. QED
      BY <1>1, <1>5, <1>6, <2>1, StateTyped
  <1>11. x # NoUser => t.where[b] = Now.where[b]
    <2>1. CASE Now.stream[c] # Null
      <3>1. Now.stream[c] \in 0..Reach /\ Now.stream[c] - Offset(b) = Now.where[b]
        BY <1>6, <1>10, <2>1, Reachable DEF Place, FileSane
      <3>2. Now.where[b] \in 0..Reach /\ Now.where[b] - 0 = Now.where[b]
        BY <1>6, <1>10, <3>1, Reachable
      <3>3. QED
        BY <1>7, <2>1, <3>1, <3>2, Reachable
    <2>2. CASE Now.stream[c] = Null
      BY <1>3, <1>5, <1>6, <1>7, <2>2, Reachable, NowFields DEF FileSane
    <2>3. QED
      BY <2>1, <2>2
  <1>12. t.where[c] = Now.where[c] /\ Place(t, c) = Place(Now, c)
    <2>1. b \in File => x # NoUser
      BY <1>3, <1>5, FileAssumption
    <2>2. QED
      BY <1>5, <1>7, <1>8, <1>11, <2>1 DEF Place
  <1>13. FileSane(t, known, c)
    BY <1>5, <1>6, <1>7, <1>9, <1>12 DEF FileSane
  <1>14. x \in Users(c) /\ (x # NoUser => t.where[x] + Offset(x) = Place(t, c))
    BY <1>3, <1>5, <1>10, <1>11, <1>12 DEF Users
  <1>15. /\ fdInv' /\ Position' = Updated(Position, c, Place(t, c))
         /\ data' = Updated(data, c, t.data[c])
    BY <1>1, <1>2, <1>4, <1>5, <1>7, <1>13, <1>14, TransferKeeps
  <1>16. Position' = Position /\ data' = data
    BY <1>5, <1>9, <1>12, <1>15, NowFields, Unmoved
  <1>17. QED
    BY <1>4, <1>15, <1>16, NothingCalled

(* bfd_stat, which may reopen the file, keeps the invariant and moves      *)
(* nothing.                                                                *)
LEMMA StatStep ==
    ASSUME fdInv, NEW b \in Callers, Stat(b)
    PROVE  fdInv' /\ Abstractly
  <1>1. PICK c : c = Container(b)
    OBVIOUS
  <1>2. PICK r \in bfd_cache_lookup(Now, b, {"CACHE_NO_SEEK_ERROR"}) : Becomes(r.s)
    BY DEF Stat
  <1>3. known' = known /\ elts' = elts /\ Fails /\ user' = user
    BY DEF Stat
  <1>4. b \in Bfd /\ c \in known /\ c \in File
    BY <1>1, Calling
  <1>5. Good(Now, {}) /\ FileSane(Now, known, c)
    BY <1>4 DEF fdInv
  <1>6. PICK t : t = r.s
    OBVIOUS
  <1>7. /\ Good(t, {}) /\ Others(Now, t, c) /\ t.where[c] = Now.where[c]
        /\ c \notin Writers \/ Now.opened_once[c] => t.data[c] = Now.data[c]
        /\ Now.opened_once[c] => t.opened_once[c]
        /\ r.ok <=> t.stream[c] # Null
        /\ Now.stream[c] # Null => t.stream[c] = Now.stream[c]
        /\ Now.stream[c] = Null /\ r.ok => t.stream[c] = Now.where[c]
    <2>1. "CACHE_NO_SEEK" \notin {"CACHE_NO_SEEK_ERROR"}
      OBVIOUS
    <2>2. QED
      BY <1>1, <1>2, <1>4, <1>5, <1>6, <2>1, Looks
  <1>8. t.data[c] = Now.data[c] /\ Place(t, c) = Place(Now, c)
    BY <1>4, <1>5, <1>7 DEF FileSane, Place
  <1>9. FileSane(t, known, c)
    BY <1>4, <1>5, <1>7, <1>8 DEF FileSane
  <1>10. Apart(Now, t, b)
    BY <1>1, <1>4, <1>7, Containers DEF Apart, Others
  <1>11. PICK x : x = user[c]
    OBVIOUS
  <1>12. user' = Updated(user, c, x) /\ x \in Users(c)
    BY <1>3, <1>4, <1>11 DEF fdInv, Updated
  <1>13. x # NoUser => t.where[x] + Offset(x) = Place(t, c)
    <2> SUFFICES ASSUME x # NoUser PROVE t.where[x] + Offset(x) = Place(t, c)
      OBVIOUS
    <2>1. Now.where[x] + Offset(x) = Place(Now, c)
      BY <1>4, <1>11, NowFields DEF fdInv, PositionKept
    <2>2. t.where[x] = Now.where[x]
      BY <1>7, <1>12 DEF Others, Users, fdInv
    <2>3. QED
      BY <1>8, <2>1, <2>2
  <1>14. Becomes(t)
    BY <1>2, <1>6
  <1>15. /\ fdInv' /\ Position' = Updated(Position, c, Place(t, c))
         /\ data' = Updated(data, c, t.data[c])
    BY <1>1, <1>3, <1>4, <1>7, <1>9, <1>10, <1>12, <1>13, <1>14, TransferKeeps
  <1>16. Position' = Position /\ data' = data
    BY <1>4, <1>8, <1>15, NowFields, Unmoved
  <1>17. QED
    BY <1>3, <1>15, <1>16, NothingCalled

(* From s to t, the BFD of f is deleted.                                   *)
Gone(s, t, f) ==
    /\ t.data = s.data
    /\ t.stream[f] = Null /\ t.where[f] = 0 /\ ~t.opened_once[f]
    /\ \A g \in File \ {f} : /\ t.stream[g] = s.stream[g] /\ t.where[g] = s.where[g]
                            /\ t.opened_once[g] = s.opened_once[g]
    /\ \A e \in Elt : e.my_archive # f => t.where[e] = s.where[e]

(* Nothing is left of the BFD of a file whose stream is not in the ring.   *)
LEMMA DeletesBfd ==
    ASSUME NEW f \in File, NEW E \in SUBSET {f}, NEW s, Good(s, E), f \notin InRing(s, E),
           NEW t, t = _bfd_delete_bfd(s, f)
    PROVE  Good(t, {}) /\ Gone(s, t, f)
  <1> DEFINE w  == [b \in Bfd |-> IF Container(b) = f THEN 0 ELSE s.where[b]]
             st == [s.stream EXCEPT ![f] = Null]
             ca == [s.cacheable EXCEPT ![f] = FALSE]
             oo == [s.opened_once EXCEPT ![f] = FALSE]
  <1>1. s \in State
    BY DEF Good
  <1>2. /\ s.stream \in Places /\ s.where \in Wheres /\ s.cacheable \in Flags
        /\ s.opened_once \in Flags
    BY <1>1 DEF State
  <1>3. t = [s EXCEPT !.stream = st, !.cacheable = ca, !.opened_once = oo, !.where = w]
    BY <1>1 DEF _bfd_delete_bfd, State
  <1>4. /\ st \in Places /\ st[f] = Null /\ \A g \in File \ {f} : st[g] = s.stream[g]
    BY <1>2 DEF Places
  <1>5. /\ ca \in Flags /\ ca[f] = FALSE /\ \A g \in File \ {f} : ca[g] = s.cacheable[g]
        /\ oo \in Flags /\ oo[f] = FALSE /\ \A g \in File \ {f} : oo[g] = s.opened_once[g]
    BY <1>2 DEF Flags
  <1>6. w \in Wheres /\ \A b \in Bfd : w[b] = IF Container(b) = f THEN 0 ELSE s.where[b]
    BY <1>2 DEF Wheres
  <1>7. w[f] = 0 /\ (\A g \in File \ {f} : w[g] = s.where[g])
        /\ \A e \in Elt : e.my_archive # f => w[e] = s.where[e]
    BY <1>6, Containers, Sorts
  <1> HIDE DEF w, st, ca, oo
  <1>8. /\ t \in State /\ t.lru = s.lru /\ t.open_files = s.open_files /\ t.data = s.data
        /\ t.stream = st /\ t.cacheable = ca /\ t.opened_once = oo /\ t.where = w
    BY <1>1, <1>3, <1>4, <1>5, <1>6 DEF State
  <1>9. InRing(t, {}) = InRing(s, E) /\ f \notin InRing(t, {})
    BY <1>4, <1>8 DEF InRing
  <1>10. \A g \in InRing(t, {}) : t.cacheable[g] = s.cacheable[g]
    BY <1>5, <1>8, <1>9 DEF InRing
  <1>11. Good(t, {})
    BY <1>8, <1>9, <1>10 DEF Good
  <1>12. QED
    BY <1>4, <1>5, <1>7, <1>8, <1>11 DEF Gone

(* bfd_close keeps the invariant, with its members and with a stream that  *)
(* fclose failed on.                                                       *)
LEMMA CloseStep ==
    ASSUME fdInv, NEW f \in File, bfd_close(f)
    PROVE  fdInv' /\ Abstractly
  <1>1. PICK r \in IF stream[f] = Null THEN {Ok(Now)} ELSE bfd_cache_delete(Now, f) :
          Becomes(_bfd_delete_bfd(r.s, f))
    BY DEF bfd_close
  <1>2. /\ f \in known /\ known' = known \ {f}
        /\ elts' = Restrict(elts, {e \in DOMAIN elts : e.my_archive # f})
        /\ user' = Updated(user, f, f) /\ Returns([op |-> "close", file |-> f], <<>>)
    BY DEF bfd_close, Updated
  <1>3. Good(Now, {}) /\ FileSane(Now, known, f) /\ Now \in State
    BY DEF fdInv, Good
  <1>4. PICK u : u = r.s
    OBVIOUS
  <1>5. /\ Good(u, {}) /\ u.stream[f] = Null /\ u.data = Now.data /\ u.where = Now.where
        /\ u.opened_once = Now.opened_once
        /\ \A g \in File \ {f} : u.stream[g] = Now.stream[g]
    <2>1. CASE stream[f] = Null
      BY <1>1, <1>3, <1>4, <2>1, NowFields DEF Ok
    <2>2. CASE stream[f] # Null
      <3>1. f \in InRing(Now, {}) /\ r \in bfd_cache_delete(Now, f)
        BY <1>1, <2>2, NowFields DEF InRing
      <3>2. /\ Good(u, {}) /\ u.stream = [Now.stream EXCEPT ![f] = Null]
            /\ u.where = Now.where /\ u.opened_once = Now.opened_once /\ u.data = Now.data
        BY <1>3, <1>4, <3>1, Deleted
      <3>3. Now.stream \in Places
        BY <1>3 DEF State
      <3>4. QED
        BY <3>2, <3>3 DEF Places
    <2>3. QED
      BY <2>1, <2>2
  <1>6. PICK t : t = _bfd_delete_bfd(u, f)
    OBVIOUS
  <1>7. Becomes(t) /\ f \notin InRing(u, {}) /\ {} \in SUBSET {f}
    BY <1>1, <1>4, <1>5, <1>6 DEF InRing
  <1>8. /\ Good(t, {}) /\ t.data = u.data
        /\ t.stream[f] = Null /\ t.where[f] = 0 /\ ~t.opened_once[f]
        /\ \A g \in File \ {f} : /\ t.stream[g] = u.stream[g] /\ t.where[g] = u.where[g]
                                /\ t.opened_once[g] = u.opened_once[g]
        /\ \A e \in Elt : e.my_archive # f => t.where[e] = u.where[e]
    <2>1. PICK E : E = {}
      OBVIOUS
    <2>2. E \in SUBSET {f} /\ Good(u, E) /\ f \notin InRing(u, E)
      BY <1>5, <1>7, <2>1
    <2>3. Good(t, {}) /\ Gone(u, t, f)
      BY <1>6, <2>2, DeletesBfd
    <2>4. QED
      BY <2>3 DEF Gone
  <1>9. Aside(Now, t, f)
    BY <1>5, <1>8 DEF Aside, Same
  <1>10. FileSane(t, known', f) /\ Place(t, f) = 0
    BY <1>2, <1>3, <1>5, <1>8, Reachable DEF FileSane, Place
  <1>11. /\ DOMAIN elts' = {e \in DOMAIN elts : e.my_archive # f}
         /\ \A e \in DOMAIN elts' : elts'[e] = elts[e]
    BY <1>2 DEF Restrict
  <1>12. DOMAIN elts' \subseteq Elt /\ known' \subseteq File /\ known' \ {f} = known \ {f}
    BY <1>2, <1>11 DEF fdInv
  <1>13. /\ fdInv' /\ Position' = Updated(Position, f, Place(t, f))
         /\ data' = Updated(data, f, t.data[f])
    BY <1>2, <1>7, <1>8, <1>9, <1>10, <1>11, <1>12, CallKeeps
  <1>14. data' = data
    <2>1. data' = t.data
      BY <1>7 DEF Becomes
    <2>2. QED
      BY <1>5, <1>8, <2>1, NowFields
  <1>15. Files!Close(f)
    <2>1. call' = [op |-> "close", file |-> f] /\ bytes' = <<>>
      BY <1>2 DEF Returns
    <2>2. Files!Calls("close", f)
      BY <2>1 DEF Files!Calls
    <2>3. Position' = [Position EXCEPT ![f] = 0]
      BY <1>10, <1>13 DEF Updated
    <2>4. QED
      BY <1>2, <1>14, <2>1, <2>2, <2>3 DEF Files!Close
  <1>16. QED
    BY <1>13, <1>15 DEF Abstractly, Files!filesNext

(* bfd_cache_close keeps the invariant: the file is where its BFD says.    *)
LEMMA CacheCloseStep ==
    ASSUME fdInv, NEW f \in File, bfd_cache_close(f)
    PROVE  fdInv' /\ Abstractly
  <1>1. PICK r \in bfd_cache_delete(Now, f) : Becomes(r.s)
    BY DEF bfd_cache_close
  <1>2. /\ f \in known \ Archive /\ Now.stream[f] # Null /\ Fails
        /\ known' = known /\ elts' = elts /\ user' = user
    BY NowFields DEF bfd_cache_close
  <1>3. Good(Now, {}) /\ FileSane(Now, known, f) /\ f \in InRing(Now, {})
    BY <1>2 DEF fdInv, InRing
  <1>4. PICK t : t = r.s
    OBVIOUS
  <1>5. /\ Good(t, {}) /\ t.stream = [Now.stream EXCEPT ![f] = Null]
        /\ t.where = Now.where /\ t.opened_once = Now.opened_once /\ t.data = Now.data
    BY <1>1, <1>3, <1>4, Deleted
  <1>6. t.stream[f] = Null /\ \A g \in File \ {f} : t.stream[g] = Now.stream[g]
    <2>1. Now.stream \in Places
      BY <1>3 DEF Good, State
    <2>2. QED
      BY <1>5, <2>1 DEF Places
  <1>7. Container(f) = f /\ f \in Bfd /\ Apart(Now, t, f)
    BY <1>5, <1>6, Containers, Sorts DEF Apart, Same
  <1>8. Place(t, f) = Place(Now, f) /\ FileSane(t, known, f)
    BY <1>2, <1>3, <1>5, <1>6 DEF Place, FileSane
  <1>9. PICK x : x = user[f]
    OBVIOUS
  <1>10. user' = Updated(user, f, x) /\ x \in Users(f)
    BY <1>2, <1>9 DEF fdInv, Updated
  <1>11. x # NoUser => t.where[x] + Offset(x) = Place(t, f)
    BY <1>2, <1>5, <1>8, <1>9, NowFields DEF fdInv, PositionKept
  <1>12. Becomes(t)
    BY <1>1, <1>4
  <1>13. /\ fdInv' /\ Position' = Updated(Position, f, Place(t, f))
         /\ data' = Updated(data, f, t.data[f])
    BY <1>2, <1>5, <1>7, <1>8, <1>10, <1>11, <1>12, TransferKeeps
  <1>14. Position' = Position /\ data' = data
    BY <1>5, <1>8, <1>13, NowFields, Unmoved
  <1>15. QED
    BY <1>2, <1>13, <1>14, NothingCalled

(* bfd_close of a member keeps the invariant; the stream is left alone.    *)
LEMMA CloseElementStep ==
    ASSUME fdInv, NEW e \in DOMAIN elts, bfd_close_element(e)
    PROVE  fdInv' /\ Abstractly
  <1>1. PICK c : c = e.my_archive
    OBVIOUS
  <1>2. PICK x : x = IF user[c] = e THEN NoUser ELSE user[c]
    OBVIOUS
  <1>3. /\ elts' = Restrict(elts, DOMAIN elts \ {e}) /\ user' = Updated(user, c, x)
        /\ Fails /\ known' = known
    BY <1>1, <1>2 DEF bfd_close_element, Updated
  <1>4. e \in Elt /\ e \in Bfd /\ c \in known /\ c \in File /\ e \notin File /\ Now \in State
    BY <1>1, Sorts DEF fdInv, EltSane, Good
  <1>5. PICK t : t = SetWhere(Now, e, 0)
    OBVIOUS
  <1>6. /\ t \in State /\ t.lru = Now.lru /\ t.open_files = Now.open_files
        /\ t.stream = Now.stream /\ t.cacheable = Now.cacheable
        /\ t.opened_once = Now.opened_once /\ t.data = Now.data
        /\ t.where[e] = 0 /\ \A b \in Bfd : b # e => t.where[b] = Now.where[b]
    <2>1. {0} \subseteq Nat
      OBVIOUS
    <2>2. QED
      BY <1>4, <1>5, <2>1, WhereSet
  <1>7. Becomes(t)
    BY <1>4, <1>5, NowFields DEF bfd_close_element, Becomes, SetWhere, State
  <1>8. Good(t, {})
    BY <1>6, GoodAlike DEF fdInv
  <1>9. Aside(Now, t, c)
    BY <1>1, <1>4, <1>6, Sorts DEF Aside, Same
  <1>10. t.where[c] = Now.where[c]
    BY <1>4, <1>6, Sorts
  <1>11. FileSane(t, known', c) /\ Place(t, c) = Place(Now, c)
    <2>1. FileSane(Now, known, c)
      BY <1>4 DEF fdInv
    <2>2. QED
      BY <1>3, <1>6, <1>10, <2>1 DEF FileSane, Place
  <1>12. /\ DOMAIN elts' = DOMAIN elts \ {e}
         /\ \A d \in DOMAIN elts' : elts'[d] = elts[d]
    BY <1>3 DEF Restrict
  <1>13. /\ DOMAIN elts' \subseteq Elt /\ known' \subseteq File /\ known' \ {c} = known \ {c}
    BY <1>3, <1>12 DEF fdInv
  <1>14. \A d \in DOMAIN elts' : EltSane(d)'
    BY <1>3, <1>12 DEF fdInv, EltSane
  <1>15. x \in {c, NoUser} \cup {d \in DOMAIN elts' : d.my_archive = c}
    BY <1>2, <1>4, <1>12 DEF fdInv, Users
  <1>16. x # NoUser => t.where[x] + Offset(x)' = Place(t, c)
    <2> SUFFICES ASSUME x # NoUser PROVE t.where[x] + Offset(x)' = Place(t, c)
      OBVIOUS
    <2>1. x = user[c] /\ x # e /\ x \in Bfd
      BY <1>2, <1>4 DEF fdInv
    <2>2. Now.where[x] + Offset(x) = Place(Now, c)
      BY <1>4, <2>1, NowFields DEF fdInv, PositionKept
    <2>3. Offset(x)' = Offset(x)
      BY <1>4, <1>12, <1>15, Sorts DEF Offset
    <2>4. QED
      BY <1>6, <1>11, <2>1, <2>2, <2>3
  <1>17. \A d \in Elt : d.my_archive # c =>
           (d \in DOMAIN elts' <=> d \in DOMAIN elts) /\ (d \in DOMAIN elts => elts'[d] = elts[d])
    BY <1>1, <1>12
  <1>18. /\ fdInv' /\ Position' = Updated(Position, c, Place(t, c))
         /\ data' = Updated(data, c, t.data[c])
    BY <1>3, <1>4, <1>7, <1>8, <1>9, <1>11, <1>13, <1>14, <1>15, <1>16, <1>17, CallKeeps
  <1>19. Position' = Position /\ data' = data
    BY <1>4, <1>6, <1>11, <1>18, NowFields, Unmoved
  <1>20. QED
    BY <1>3, <1>18, <1>19, NothingCalled

(* The BFD of a file that could not be opened is deleted: nothing is known *)
(* of the file, as before.                                                 *)
LEMMA NotOpened ==
    ASSUME fdInv, NEW f \in File \ known, NEW E \in SUBSET {f}, NEW s, Good(s, E),
           f \notin InRing(s, E), Others(Now, s, f), s.data[f] = Now.data[f],
           Becomes(_bfd_delete_bfd(s, f)), Fails, known' = known, elts' = elts,
           user' = Updated(user, f, f)
    PROVE  fdInv' /\ Abstractly
  <1>1. PICK t : t = _bfd_delete_bfd(s, f)
    OBVIOUS
  <1>2. /\ Good(t, {}) /\ t.data = s.data
        /\ t.stream[f] = Null /\ t.where[f] = 0 /\ ~t.opened_once[f]
        /\ \A g \in File \ {f} : /\ t.stream[g] = s.stream[g] /\ t.where[g] = s.where[g]
                                /\ t.opened_once[g] = s.opened_once[g]
        /\ \A e \in Elt : e.my_archive # f => t.where[e] = s.where[e]
    <2>1. Good(t, {}) /\ Gone(s, t, f)
      BY <1>1, DeletesBfd
    <2>2. QED
      BY <2>1 DEF Gone
  <1>3. Becomes(t) /\ FileSane(Now, known, f)
    BY <1>1 DEF fdInv
  <1>4. Aside(Now, t, f)
    BY <1>2 DEF Aside, Others, Same, Evicted
  <1>5. FileSane(t, known', f) /\ Place(t, f) = Place(Now, f)
    BY <1>2, <1>3, Reachable DEF FileSane, Place
  <1>6. /\ DOMAIN elts' \subseteq Elt /\ known' \subseteq File
        /\ \A e \in DOMAIN elts' : EltSane(e)'
    BY DEF fdInv, EltSane
  <1>7. /\ fdInv' /\ Position' = Updated(Position, f, Place(t, f))
        /\ data' = Updated(data, f, t.data[f])
    <2>1. f \in {f, NoUser} \cup {e \in DOMAIN elts' : e.my_archive = f} /\ f \notin known'
      OBVIOUS
    <2>2. QED
      BY <1>2, <1>3, <1>4, <1>5, <1>6, <2>1, CallKeeps
  <1>8. Position' = Position /\ data' = data
    BY <1>2, <1>5, <1>7, NowFields, Unmoved
  <1>9. QED
    BY <1>7, <1>8, NothingCalled

(* The BFD of a file that was opened is known, and at the start.           *)
LEMMA WasOpened ==
    ASSUME fdInv, NEW f \in File \ known, NEW t, Good(t, {}), Others(Now, t, f),
           t.stream[f] = 0, t.where[f] = 0, t.opened_once[f],
           t.data[f] = IF f \in Writers THEN <<>> ELSE Now.data[f],
           Becomes(t), known' = known \cup {f}, elts' = elts,
           user' = Updated(user, f, f), Returns([op |-> "open", file |-> f], <<>>)
    PROVE  fdInv' /\ Abstractly
  <1>1. Aside(Now, t, f) /\ FileSane(Now, known, f)
    BY DEF Aside, Others, fdInv
  <1>2. FileSane(t, known', f) /\ Place(t, f) = 0
    BY <1>1, Reachable, Sorts DEF FileSane, Place
  <1>3. /\ DOMAIN elts' \subseteq Elt /\ known' \subseteq File /\ known' \ {f} = known \ {f}
        /\ \A e \in DOMAIN elts' : EltSane(e)'
    BY DEF fdInv, EltSane
  <1>4. t.where[f] + Offset(f)' = Place(t, f)
    BY <1>2, Sorts DEF Offset
  <1>5. /\ fdInv' /\ Position' = Updated(Position, f, Place(t, f))
        /\ data' = Updated(data, f, t.data[f])
    <2>1. f \in {f, NoUser} \cup {e \in DOMAIN elts' : e.my_archive = f}
      OBVIOUS
    <2>2. QED
      BY <1>1, <1>2, <1>3, <1>4, <2>1, CallKeeps
  <1>6. data' = IF f \in Writers THEN [data EXCEPT ![f] = <<>>] ELSE data
    <2>1. data \in Stores
      BY NowFields DEF fdInv, Good, State
    <2>2. QED
      BY <1>5, <2>1, NowFields DEF Updated, Stores
  <1>7. Files!Open(f)
    <2>1. call' = [op |-> "open", file |-> f] /\ bytes' = <<>>
      BY DEF Returns
    <2>2. Files!Calls("open", f)
      BY <2>1 DEF Files!Calls
    <2>3. Position' = [Position EXCEPT ![f] = 0]
      BY <1>2, <1>5 DEF Updated
    <2>4. QED
      BY <1>6, <2>1, <2>2, <2>3 DEF Files!Open
  <1>8. QED
    BY <1>5, <1>7 DEF Abstractly, Files!filesNext

(* bfd_openw keeps the invariant, and opens an empty file or nothing.      *)
LEMMA OpenwStep ==
    ASSUME fdInv, NEW f \in File, bfd_openw(f)
    PROVE  fdInv' /\ Abstractly
  <1>1. PICK r \in bfd_open_file(Now, f) : Opened(f, r)
    BY DEF bfd_openw
  <1>2. f \in Writers /\ f \in File \ known
    BY DEF bfd_openw
  <1>3. /\ Good(Now, {}) /\ FileSane(Now, known, f)
        /\ Now.stream[f] = Null /\ Now.where[f] = 0 /\ ~Now.opened_once[f]
    BY <1>2 DEF fdInv, FileSane
  <1>4. PICK t : t = r.s
    OBVIOUS
  <1>5. /\ Good(t, {}) /\ Others(Now, t, f) /\ t.where[f] = Now.where[f]
        /\ r.ok => t.stream[f] = 0 /\ t.opened_once[f] /\ t.data[f] = <<>>
        /\ ~r.ok => t.stream[f] = Null /\ t.data[f] = Now.data[f]
    BY <1>1, <1>2, <1>3, <1>4, OpensFile
  <1>6. user' = Updated(user, f, f) /\ elts' = elts
    BY <1>1 DEF Opened, Updated
  <1>7. CASE r.ok
    <2>1. /\ Becomes(t) /\ known' = known \cup {f}
          /\ Returns([op |-> "open", file |-> f], <<>>)
      BY <1>1, <1>4, <1>7 DEF Opened
    <2>2. QED
      BY <1>2, <1>3, <1>5, <1>6, <1>7, <2>1, WasOpened
  <1>8. CASE ~r.ok
    <2>1. Becomes(_bfd_delete_bfd(t, f)) /\ Fails /\ known' = known
      BY <1>1, <1>4, <1>8 DEF Opened
    <2>2. PICK E : E = {}
      OBVIOUS
    <2>3. E \in SUBSET {f} /\ Good(t, E) /\ f \notin InRing(t, E)
      BY <1>5, <1>8, <2>2 DEF InRing
    <2>4. QED
      BY <1>2, <1>5, <1>6, <1>8, <2>1, <2>3, NotOpened
  <1>9. QED
    BY <1>7, <1>8

(* What bfd_fopen does to a BFD whose stream it has entered.               *)
SetFlags(s, f, c) == [s EXCEPT !.opened_once[f] = TRUE, !.cacheable[f] = c]

(* Whether the file entered last may be closed is for its BFD to say.      *)
LEMMA FlagsSet ==
    ASSUME NEW f \in File, NEW c \in BOOLEAN, NEW s, Good(s, {}),
           s.open_files > max_open_files =>
             \A g \in InRing(s, {}) : g # f => ~s.cacheable[g],
           NEW t, t = SetFlags(s, f, c)
    PROVE  /\ Good(t, {}) /\ t.stream = s.stream /\ t.where = s.where /\ t.data = s.data
           /\ t.opened_once[f] /\ \A g \in File \ {f} : t.opened_once[g] = s.opened_once[g]
  <1> DEFINE ca == [s.cacheable EXCEPT ![f] = c]
             oo == [s.opened_once EXCEPT ![f] = TRUE]
  <1>1. s \in State
    BY DEF Good
  <1>2. s.cacheable \in Flags /\ s.opened_once \in Flags
    BY <1>1 DEF State
  <1>3. t = [s EXCEPT !.opened_once = oo, !.cacheable = ca]
    BY <1>1 DEF SetFlags, State
  <1>4. /\ ca \in Flags /\ \A g \in File \ {f} : ca[g] = s.cacheable[g]
        /\ oo \in Flags /\ oo[f] = TRUE /\ \A g \in File \ {f} : oo[g] = s.opened_once[g]
    BY <1>2 DEF Flags
  <1> HIDE DEF ca, oo
  <1>5. /\ t \in State /\ t.lru = s.lru /\ t.open_files = s.open_files /\ t.data = s.data
        /\ t.stream = s.stream /\ t.cacheable = ca /\ t.opened_once = oo /\ t.where = s.where
    BY <1>1, <1>3, <1>4 DEF State
  <1>6. InRing(t, {}) = InRing(s, {})
    BY <1>5 DEF InRing
  <1>7. t.open_files > max_open_files =>
          \A g \in InRing(t, {}) : g # f => ~t.cacheable[g]
    BY <1>4, <1>5, <1>6 DEF InRing
  <1>8. Good(t, {})
    BY <1>5, <1>6, <1>7 DEF Good
  <1>9. QED
    BY <1>4, <1>5, <1>8

(* bfd_fopen keeps the invariant, and opens a file or nothing, when        *)
(* another file could not be closed for it too.                            *)
LEMMA FopenStep ==
    ASSUME fdInv, NEW f \in File, bfd_fopen(f)
    PROVE  fdInv' /\ Abstractly
  <1>1. PICK r \in {Failed(Now)} \cup bfd_cache_init(fopen(Now, f), f) :
          Opened(f, IF r.ok THEN Ok([r.s EXCEPT !.opened_once[f] = TRUE,
                                                !.cacheable[f] = f \notin Streams])
                    ELSE r)
    BY DEF bfd_fopen
  <1>2. f \notin Writers /\ f \in File \ known
    BY DEF bfd_fopen
  <1>3. /\ Good(Now, {}) /\ FileSane(Now, known, f)
        /\ Now.stream[f] = Null /\ Now.where[f] = 0
    BY <1>2 DEF fdInv, FileSane
  <1>4. user' = Updated(user, f, f) /\ elts' = elts
    BY <1>1 DEF Opened, Updated
  <1>5. PICK u : u = fopen(Now, f)
    OBVIOUS
  <1>6. /\ Good(u, {f}) /\ Others(Now, u, f) /\ u.stream[f] = 0 /\ u.where = Now.where
        /\ u.data[f] = Now.data[f]
    BY <1>2, <1>3, <1>5, Fopens
  <1>7. PICK s : s = r.s
    OBVIOUS
  <1>8. CASE r = Failed(Now)
    <2>1. ~r.ok /\ s = Now
      BY <1>7, <1>8 DEF Failed
    <2>2. Becomes(_bfd_delete_bfd(s, f)) /\ Fails /\ known' = known
      BY <1>1, <1>7, <2>1 DEF Opened
    <2>3. PICK E : E = {}
      OBVIOUS
    <2>4. E \in SUBSET {f} /\ Good(s, E) /\ f \notin InRing(s, E)
      BY <1>3, <2>1, <2>3 DEF InRing
    <2>5. Others(Now, s, f) /\ s.data[f] = Now.data[f]
      BY <2>1 DEF Others, Same
    <2>6. QED
      BY <1>2, <1>4, <2>2, <2>4, <2>5, NotOpened
  <1>9. CASE r \in bfd_cache_init(u, f)
    <2>1. /\ Evictions(u, s, {f}) /\ Good(s, IF r.ok THEN {} ELSE {f})
          /\ r.ok /\ s.open_files > max_open_files =>
                \A g \in InRing(s, {}) : g # f => ~s.cacheable[g]
      <3>1. Good(u, {f}) /\ u.stream[f] # Null
        BY <1>6 DEF Null
      <3>2. /\ Evictions(u, r.s, {f}) /\ Good(r.s, IF r.ok THEN {} ELSE {f})
            /\ r.ok /\ r.s.open_files > max_open_files =>
                 \A g \in InRing(r.s, {}) : g # f => ~r.s.cacheable[g]
        BY <1>9, <3>1, CacheInit
      <3>3. QED
        BY <1>7, <3>2
    <2>2. s.stream[f] = 0 /\ s.where[f] = 0 /\ s.data[f] = Now.data[f]
      BY <1>3, <1>6, <2>1 DEF Evictions, Same
    <2>3. Others(Now, s, f)
      BY <1>6, <2>1, Sorts DEF Others, Evictions, Same, Evicted
    <2>4. CASE ~r.ok
      <3>1. Becomes(_bfd_delete_bfd(s, f)) /\ Fails /\ known' = known
        BY <1>1, <1>7, <2>4 DEF Opened
      <3>2. PICK E : E = {f}
        OBVIOUS
      <3>3. E \in SUBSET {f} /\ Good(s, E) /\ f \notin InRing(s, E)
        BY <2>1, <2>4, <3>2 DEF InRing
      <3>4. QED
        BY <1>2, <1>4, <2>2, <2>3, <3>1, <3>3, NotOpened
    <2>5. CASE r.ok
      <3>1. PICK t : t = SetFlags(s, f, f \notin Streams)
        OBVIOUS
      <3>2. PICK c \in BOOLEAN : c = (f \notin Streams)
        OBVIOUS
      <3>3. /\ Good(t, {}) /\ t.stream = s.stream /\ t.where = s.where /\ t.data = s.data
            /\ t.opened_once[f] /\ \A g \in File \ {f} : t.opened_once[g] = s.opened_once[g]
        <4>1. Good(s, {})
          BY <2>1, <2>5
        <4>2. t = SetFlags(s, f, c)
          BY <3>1, <3>2
        <4>3. QED
          BY <2>1, <2>5, <4>1, <4>2, FlagsSet
      <3>4. /\ Becomes(t) /\ known' = known \cup {f}
            /\ Returns([op |-> "open", file |-> f], <<>>)
        BY <1>1, <1>7, <2>5, <3>1 DEF Opened, Ok, SetFlags
      <3>5. Others(Now, t, f)
        BY <2>3, <3>3 DEF Others, Same, Evicted
      <3>6. QED
        BY <1>2, <1>4, <2>2, <3>3, <3>4, <3>5, WasOpened
    <2>6. QED
      BY <2>4, <2>5
  <1>10. QED
    BY <1>1, <1>5, <1>8, <1>9

(* Where the next header is looked for is in reach.                        *)
LEMMA HeadersReached ==
    ASSUME fdInv, NEW a \in known \cap Archive, NEW f \in FilePositions(a)
    PROVE  f \in 0..MaxPos /\ f \in Nat
  <1>1. a \in File /\ a \notin Writers /\ MaxPos \in Nat
    BY FileAssumption, LimitAssumption
  <1>2. CASE f = SARMAG
    BY <1>2, LimitAssumption DEF SARMAG
  <1>3. CASE \E e \in DOMAIN elts : f = AfterMember(e)
    <2>1. PICK e \in DOMAIN elts : f = AfterMember(e)
      BY <1>3
    <2>2. PICK end : end = elts[e].origin + elts[e].parsed_size
      OBVIOUS
    <2>3. end \in Nat /\ end < MaxPos
      BY <2>2 DEF fdInv, EltSane
    <2>4. f = end + (end % 2)
      BY <2>1, <2>2 DEF AfterMember
    <2>5. end % 2 \in 0..1
      BY <2>3
    <2>6. QED
      BY <1>1, <2>3, <2>4, <2>5
  <1>4. QED
    BY <1>2, <1>3 DEF FilePositions

(* A member whose header was read lies in its archive.                     *)
LEMMA HeaderFits ==
    ASSUME NEW f \in File, NEW at, at \in 0..Reach,
           NEW g, g = Files!Slice(Contents[f], at, ar_hdr), IsHeader(g)
    PROVE  /\ at + Len(g) \in Nat /\ g[1].size \in Nat
           /\ at + Len(g) + g[1].size < MaxPos
  <1>1. PICK d : d = Contents[f]
    OBVIOUS
  <1>2. /\ d \in Seq(CellType) /\ Len(d) \in Nat
        /\ \A i \in 1..Len(d) : d[i].size \in Nat /\ Len(d) + d[i].size < MaxPos
    BY <1>1, ContentsShort
  <1>3. PICK a \in Nat, m \in Nat : a = at /\ m = ar_hdr
    BY Reachable DEF ar_hdr
  <1>4. g = Files!Slice(d, a, m)
    BY <1>1, <1>3
  <1>5. /\ Len(g) # 0 => a + Len(g) <= Len(d)
        /\ 1 \in 1..Len(g) => a + 1 \in 1..Len(d) /\ g[1] = d[a + 1]
    <2>1. d \in Seq(CellType) /\ g = Files!Slice(d, a, m)
      BY <1>2, <1>4
    <2>2. Excerpt(g, d, a) /\ (Len(g) # 0 => a + Len(g) <= Len(d))
      BY <2>1, Sliced
    <2>3. QED
      BY <2>2 DEF Excerpt
  <1>6. Len(g) = 2 /\ 1 \in 1..Len(g)
    BY DEF IsHeader, ar_hdr
  <1>7. a + 1 \in 1..Len(d) /\ g[1] = d[a + 1] /\ a + 2 <= Len(d)
    BY <1>5, <1>6
  <1>8. g[1].size \in Nat /\ Len(d) + g[1].size < MaxPos
    BY <1>2, <1>7
  <1>9. QED
    <2>1. PICK l \in Nat, z \in Nat : l = Len(d) /\ z = g[1].size
      BY <1>2, <1>8
    <2>2. a + 2 <= l /\ l + z < MaxPos /\ MaxPos \in Nat
      BY <1>7, <1>8, <2>1, Reachable
    <2>3. a + 2 \in Nat /\ a + 2 + z < MaxPos
      BY <2>2
    <2>4. QED
      BY <1>3, <1>6, <2>1, <2>3

(* A call about an archive that leaves its contents alone.                 *)
LEMMA ArchiveKeeps ==
    ASSUME fdInv, NEW a \in known \cap Archive, NEW t, Becomes(t), Good(t, {}),
           Aside(Now, t, a), t.data[a] = Now.data[a], known' = known,
           t.where[a] \in 0..Reach, t.stream[a] \in 0..Reach \cup {Null},
           DOMAIN elts' \subseteq Elt,
           \A e \in Elt : e.my_archive # a =>
             (e \in DOMAIN elts' <=> e \in DOMAIN elts) /\ (e \in DOMAIN elts => elts'[e] = elts[e]),
           \A e \in DOMAIN elts' : e.my_archive = a => EltSane(e)',
           NEW x, user' = Updated(user, a, x),
           x \in {a, NoUser} \cup {e \in DOMAIN elts' : e.my_archive = a},
           x # NoUser => t.where[x] + Offset(x)' = Place(t, a)
    PROVE  /\ fdInv' /\ data' = data
           /\ Position' = Updated(Position, a, Place(t, a))
  <1>1. a \in File /\ a \notin Writers
    BY FileAssumption
  <1>2. FileSane(Now, known, a)
    BY <1>1 DEF fdInv
  <1>3. FileSane(t, known', a)
    BY <1>1, <1>2 DEF FileSane
  <1>4. known' \subseteq File
    BY DEF fdInv
  <1>5. /\ fdInv' /\ Position' = Updated(Position, a, Place(t, a))
        /\ data' = Updated(data, a, t.data[a])
    BY <1>1, <1>3, <1>4, CallKeeps
  <1>6. data' = data
    <2>1. data \in Stores
      BY NowFields DEF fdInv, Good, State
    <2>2. QED
      BY <1>5, <2>1, NowFields DEF Updated, Stores
  <1>7. QED
    BY <1>5, <1>6

(* An archive that stays where it is, and whose members stay.              *)
LEMMA ArchiveStays ==
    ASSUME fdInv, NEW a \in known \cap Archive, NEW t, Becomes(t), Good(t, {}),
           Apart(Now, t, a), t.data[a] = Now.data[a], known' = known, elts' = elts,
           user' = user, t.where[a] = Now.where[a], t.stream[a] = Now.stream[a], Fails
    PROVE  fdInv' /\ Abstractly
  <1>1. a \in File /\ a \in Bfd /\ Container(a) = a
    BY FileAssumption, Sorts, Containers
  <1>2. Aside(Now, t, a)
    BY <1>1, ApartAside
  <1>3. FileSane(Now, known, a)
    BY <1>1 DEF fdInv
  <1>4. t.where[a] \in 0..Reach /\ t.stream[a] \in 0..Reach \cup {Null}
    BY <1>3 DEF FileSane
  <1>5. Place(t, a) = Place(Now, a)
    BY DEF Place
  <1>6. PICK x : x = user[a]
    OBVIOUS
  <1>7. user' = Updated(user, a, x) /\ x \in Users(a)
    BY <1>1, <1>6 DEF fdInv, Updated
  <1>8. x # NoUser => t.where[x] + Offset(x)' = Place(t, a)
    <2> SUFFICES ASSUME x # NoUser PROVE t.where[x] + Offset(x)' = Place(t, a)
      OBVIOUS
    <2>1. Now.where[x] + Offset(x) = Place(Now, a)
      BY <1>1, <1>6, NowFields DEF fdInv, PositionKept
    <2>2. t.where[x] = Now.where[x]
      BY <1>1, <1>7, Sorts DEF Apart, Users, fdInv
    <2>3. Offset(x)' = Offset(x)
      BY DEF Offset
    <2>4. QED
      BY <1>5, <2>1, <2>2, <2>3
  <1>9. /\ DOMAIN elts' \subseteq Elt /\ \A e \in DOMAIN elts' : EltSane(e)'
    BY DEF fdInv, EltSane
  <1>10. x \in {a, NoUser} \cup {e \in DOMAIN elts' : e.my_archive = a}
    BY <1>7 DEF Users
  <1>11. /\ fdInv' /\ data' = data /\ Position' = Updated(Position, a, Place(t, a))
    BY <1>2, <1>4, <1>7, <1>8, <1>9, <1>10, ArchiveKeeps
  <1>12. Position' = Position
    <2>1. Place(t, a) = Position[a]
      BY <1>1, <1>5, NowFields
    <2>2. Position' = Updated(Position, a, Position[a])
      BY <1>11, <2>1
    <2>3. QED
      BY <1>1, <2>2 DEF Position, Updated
  <1>13. QED
    BY <1>11, <1>12, NothingCalled

(* A header that was read is what the archive holds where the caller has   *)
(* asked for it, or where the archive is.                                  *)
LEMMA HeaderRead ==
    ASSUME NEW a \in File, NEW f, NEW g, NEW at,
           known' = known, a \in known, data' = data, bytes' = g,
           g = Files!Slice(data[a], at, ar_hdr),
           Position' = Updated(Position, a, at + Len(g)),
           IF at = f THEN \/ call' = [op |-> "seek_read", file |-> a, to |-> f, n |-> ar_hdr]
                          \/ /\ at = Position[a]
                             /\ call' = [op |-> "read", file |-> a, by |-> a, n |-> ar_hdr]
           ELSE /\ at = Position[a]
                /\ call' = [op |-> "read", file |-> a, by |-> a, n |-> ar_hdr]
    PROVE  Abstractly
  <1>1. Position' = [Position EXCEPT ![a] = at + Len(bytes')]
    BY DEF Updated
  <1>2. CASE at = f /\ call' = [op |-> "seek_read", file |-> a, to |-> f, n |-> ar_hdr]
    <2>1. call'.op = "seek_read" /\ call'.file = a /\ call'.to = at /\ call'.n = ar_hdr
      BY <1>2
    <2>2. Files!SeekRead(a)
      BY <1>1, <2>1 DEF Files!SeekRead, Files!Calls, Files!ReadFrom
    <2>3. QED
      BY <2>2 DEF Abstractly, Files!filesNext
  <1>3. CASE at = Position[a] /\ call' = [op |-> "read", file |-> a, by |-> a, n |-> ar_hdr]
    <2>1. call'.op = "read" /\ call'.file = a /\ call'.n = ar_hdr
      BY <1>3
    <2>2. Files!Read(a)
      BY <1>1, <1>3, <2>1 DEF Files!Read, Files!Calls, Files!ReadFrom
    <2>3. QED
      BY <2>2 DEF Abstractly, Files!filesNext
  <1>4. QED
    BY <1>2, <1>3

(* _bfd_get_elt_at_filepos keeps the invariant, and is a read of the       *)
(* archive at the position asked for, or at the one it has when the BFD of *)
(* the archive believes to be there.                                       *)
LEMMA ElementStep ==
    ASSUME fdInv, NEW a \in known \cap Archive, NEW f \in FilePositions(a),
           _bfd_get_elt_at_filepos(a, f)
    PROVE  fdInv' /\ Abstractly
  <1> DEFINE e == [my_archive |-> a, key |-> f]
             trusts == where[a] = f
             asked == IF trusts THEN [op |-> "read", file |-> a, by |-> a, n |-> ar_hdr]
                      ELSE [op |-> "seek_read", file |-> a, to |-> f, n |-> ar_hdr]
  <1>1. PICK r \in bfd_seek(Now, a, f) :
          IF ~r.ok THEN Becomes(r.s) /\ Fails /\ UNCHANGED <<elts, user>>
          ELSE \E q \in bfd_bread(r.s, a, ar_hdr) :
               /\ IF q.ok THEN Returns(asked, q.got) ELSE Fails
               /\ user' = [user EXCEPT ![a] = IF q.ok /\ trusts /\ @ # a THEN NoUser
                                              ELSE IF q.ok THEN a ELSE @]
               /\ IF IsHeader(q.got)
                  THEN \E s \in bfd_tell(q.s, a) :
                         /\ Becomes([s EXCEPT !.where[e] = 0])
                         /\ elts' = [x \in DOMAIN elts \cup {e} |->
                              IF x # e THEN elts[x]
                              ELSE [origin |-> s.where[a], parsed_size |-> q.got[1].size]]
                  ELSE Becomes(q.s) /\ UNCHANGED elts
    BY DEF _bfd_get_elt_at_filepos
  <1>2. known' = known /\ e \notin DOMAIN elts
    BY DEF _bfd_get_elt_at_filepos
  <1>3. /\ a \in File /\ a \in Bfd /\ Container(a) = a /\ a \notin Writers /\ a \notin Elt
        /\ Offset(a) = 0 /\ f \in 0..MaxPos /\ f \in Nat
    BY FileAssumption, Sorts, Containers, HeadersReached DEF Offset
  <1>4. /\ Good(Now, {}) /\ FileSane(Now, known, a) /\ Now.data[a] = Contents[a]
        /\ Now.where[a] \in 0..Reach /\ Now.stream[a] \in 0..Reach \cup {Null}
    BY <1>3 DEF fdInv, FileSane
  <1>5. PICK u : u = r.s
    OBVIOUS
  <1>6. /\ Good(u, {}) /\ Apart(Now, u, a) /\ Kept(Now, u, a)
        /\ r.ok => u.where[a] = f
        /\ r.ok => IF Now.where[a] = f THEN u = Now ELSE u.stream[a] = f
        /\ ~r.ok => /\ Now.stream[a] = Null /\ u.stream[a] = Null
                    /\ u.where[a] = (Now.where[a] - 0) % Modulus
    <2>1. Offset(a) \in Nat /\ f \in Nat /\ Good(Now, {}) /\ a \in Bfd /\ a = Container(a)
      BY <1>3, <1>4
    <2>2. /\ Good(r.s, {}) /\ Apart(Now, r.s, a) /\ Kept(Now, r.s, a)
          /\ r.ok => r.s.where[a] = f
          /\ r.ok => IF a \in File /\ Now.where[a] = f THEN r.s = Now
                     ELSE r.s.stream[a] = Offset(a) + f
          /\ ~r.ok => /\ Now.stream[a] = Null /\ r.s.stream[a] = Null
                      /\ r.s.where[a] = (Now.where[a] - Offset(a)) % Modulus
      BY <1>1, <2>1, Seeks
    <2>3. QED
      BY <1>3, <1>5, <2>2
  <1>7. u.data[a] = Now.data[a]
    BY <1>3, <1>6 DEF Kept
  <1>8. CASE ~r.ok
    <2>1. Becomes(u) /\ Fails /\ elts' = elts /\ user' = user
      BY <1>1, <1>5, <1>8
    <2>2. u.where[a] = Now.where[a] /\ u.stream[a] = Now.stream[a]
      BY <1>4, <1>6, <1>8, Reachable
    <2>3. QED
      BY <1>2, <1>6, <1>7, <2>1, <2>2, ArchiveStays
  <1>9. CASE r.ok
    <2>1. PICK q \in bfd_bread(u, a, ar_hdr) :
               /\ IF q.ok THEN Returns(asked, q.got) ELSE Fails
               /\ user' = [user EXCEPT ![a] = IF q.ok /\ trusts /\ @ # a THEN NoUser
                                              ELSE IF q.ok THEN a ELSE @]
               /\ IF IsHeader(q.got)
                  THEN \E s \in bfd_tell(q.s, a) :
                         /\ Becomes([s EXCEPT !.where[e] = 0])
                         /\ elts' = [x \in DOMAIN elts \cup {e} |->
                              IF x # e THEN elts[x]
                              ELSE [origin |-> s.where[a], parsed_size |-> q.got[1].size]]
                  ELSE Becomes(q.s) /\ UNCHANGED elts
      BY <1>1, <1>5, <1>9
    <2>2. PICK v, g, at : v = q.s /\ g = q.got /\ at = Place(u, a)
      OBVIOUS
    <2>3. /\ Good(v, {}) /\ Apart(u, v, a) /\ v.data[a] = u.data[a]
          /\ q.ok => /\ g = Files!Slice(u.data[a], at, ar_hdr)
                     /\ v.stream[a] = at + Len(g) /\ v.where[a] = u.where[a] + Len(g)
          /\ ~q.ok => /\ g = <<>> /\ v.where[a] = u.where[a] /\ v.stream[a] = u.stream[a]
          /\ u.stream[a] # Null => q.ok
      <3>1. PICK n : n = ar_hdr /\ n # 0 /\ n \in Nat
        BY HeaderReaches
      <3>2. /\ a \in File /\ Good(u, {}) /\ a \notin Writers /\ q \in bfd_bread(u, a, n)
        BY <1>3, <1>6, <2>1, <3>1
      <3>3. /\ Good(q.s, {}) /\ Apart(u, q.s, a) /\ q.s.data[a] = u.data[a]
            /\ q.ok => /\ q.got = Files!Slice(u.data[a], Place(u, a), n)
                       /\ q.s.stream[a] = Place(u, a) + Len(q.got)
                       /\ q.s.where[a] = u.where[a] + Len(q.got)
            /\ ~q.ok => /\ q.got = <<>> /\ q.s.where[a] = u.where[a]
                        /\ q.s.stream[a] = u.stream[a]
            /\ u.stream[a] # Null => q.ok
        BY <3>1, <3>2, FileReads
      <3>4. QED
        BY <2>2, <3>1, <3>3
    <2>4. Apart(Now, v, a)
      BY <1>6, <2>3, ApartChains
    <2>5. CASE ~q.ok
      <3>1. u = Now
        BY <1>3, <1>6, <1>9, <2>3, <2>5, Sorts
      <3>2. ~IsHeader(q.got)
        BY <2>2, <2>3, <2>5, HeaderReaches
      <3>3. Becomes(v) /\ elts' = elts /\ Fails
        BY <2>1, <2>2, <2>5, <3>2
      <3>4. user' = user
        BY <1>3, <2>1, <2>5 DEF fdInv
      <3>5. QED
        BY <1>2, <2>3, <2>4, <2>5, <3>1, <3>3, <3>4, ArchiveStays
    <2>6. CASE q.ok
      <3>1. PICK x : x = IF trusts /\ user[a] # a THEN NoUser ELSE a
        OBVIOUS
      <3>2. Returns(asked, g) /\ user' = Updated(user, a, x)
        BY <2>1, <2>2, <2>6, <3>1 DEF Updated
      <3>3. at \in 0..Reach /\ (~trusts => at = f) /\ (trusts => at = Position[a])
        <4>1. CASE trusts
          BY <1>3, <1>4, <1>6, <1>9, <2>2, <4>1, NowFields DEF Place
        <4>2. CASE ~trusts
          <5>1. u.stream[a] = f
            BY <1>6, <1>9, <4>2, NowFields
          <5>2. at = f
            BY <1>3, <2>2, <5>1, PlaceOpen
          <5>3. f \in 0..Reach
            BY <1>3, HeaderReaches
          <5>4. QED
            BY <4>2, <5>2, <5>3
        <4>3. QED
          BY <4>1, <4>2
      <3>4. x # NoUser => at = f
        <4>1. CASE trusts /\ user[a] = a
          <5>1. where[a] + Offset(a) = Position[a]
            BY <1>3, <4>1, FileAssumption DEF fdInv, PositionKept
          <5>2. f + Offset(a) = f
            BY <1>3
          <5>3. where[a] = f /\ at = Position[a]
            BY <3>3, <4>1
          <5>4. QED
            BY <5>1, <5>2, <5>3
        <4>2. QED
          BY <3>3, <3>1, <4>1
      <3>5. /\ g = Files!Slice(Contents[a], at, ar_hdr)
            /\ v.stream[a] = at + Len(g) /\ v.where[a] = f + Len(g)
        BY <1>4, <1>6, <1>7, <1>9, <2>3, <2>6
      <3>6. /\ at + Len(g) \in 0..Reach /\ f + Len(g) \in 0..Reach
        <4>1. ar_hdr \in Nat /\ f \in 0..Reach
          BY <1>3, HeaderReaches
        <4>2. at + Len(g) \in 0..Reach /\ Len(g) \in Nat
          BY <1>3, <3>3, <3>5, <4>1, ReadReaches
        <4>3. Len(g) <= ar_hdr
          <5>1. PICK k \in Nat, m \in Nat : k = at /\ m = ar_hdr
            BY <3>3, <4>1, Reachable
          <5>2. Contents[a] \in Seq(CellType) /\ g = Files!Slice(Contents[a], k, m)
            BY <1>3, <3>5, <5>1, ContentsShort
          <5>3. Len(g) \in 0..m
            BY <5>2, Sliced
          <5>4. QED
            BY <5>1, <5>3
        <4>4. QED
          BY <1>3, <4>2, <4>3, HeaderReaches
      <3>7. v.data[a] = Now.data[a] /\ x \in {a, NoUser} /\ (x = a => at = f)
        BY <1>3, <1>7, <2>3, <3>4, <3>1, FileAssumption
      <3>8. CASE ~IsHeader(g)
        <4>1. Becomes(v) /\ elts' = elts
          BY <2>1, <2>2, <3>8
        <4>2. Aside(Now, v, a) /\ Place(v, a) = at + Len(g)
          BY <1>3, <2>4, <3>5, <3>6, Reachable, ApartAside, Sorts DEF Place
        <4>3. x # NoUser => v.where[x] + Offset(x)' = Place(v, a)
          BY <1>3, <3>5, <3>6, <3>7, <4>2, Reachable DEF Offset
        <4>4. DOMAIN elts' \subseteq Elt /\ \A d \in DOMAIN elts' : EltSane(d)'
          BY <1>2, <4>1 DEF fdInv, EltSane
        <4>5. v.where[a] \in 0..Reach /\ v.stream[a] \in 0..Reach \cup {Null}
          BY <3>5, <3>6
        <4>6. x \in {a, NoUser} \cup {d \in DOMAIN elts' : d.my_archive = a}
          BY <3>7
        <4>7. /\ fdInv' /\ data' = data /\ Position' = Updated(Position, a, Place(v, a))
          BY <1>2, <2>3, <3>2, <3>7, <4>1, <4>2, <4>3, <4>4, <4>5, <4>6, ArchiveKeeps
        <4>8. Abstractly
          <5>1. /\ a \in File /\ a \in known /\ known' = known /\ data' = data /\ bytes' = g
                /\ Position' = Updated(Position, a, at + Len(g))
            BY <1>2, <1>3, <3>2, <4>2, <4>7 DEF Returns
          <5>2. g = Files!Slice(data[a], at, ar_hdr)
            BY <1>4, <3>5, NowFields
          <5>3. CASE trusts
            BY <3>2, <3>3, <5>1, <5>2, <5>3, HeaderRead DEF Returns
          <5>4. CASE ~trusts
            BY <3>2, <3>3, <5>1, <5>2, <5>4, HeaderRead DEF Returns
          <5>5. QED
            BY <5>3, <5>4
        <4>9. QED
          BY <4>7, <4>8
      <3>9. CASE IsHeader(g)
        <4>1. PICK s \in bfd_tell(v, a) :
                 /\ Becomes([s EXCEPT !.where[e] = 0])
                 /\ elts' = [y \in DOMAIN elts \cup {e} |->
                      IF y # e THEN elts[y]
                      ELSE [origin |-> s.where[a], parsed_size |-> g[1].size]]
          BY <2>1, <2>2, <3>9
        <4>2. /\ Good(s, {}) /\ Apart(v, s, a) /\ Kept(v, s, a) /\ s.stream[a] = at + Len(g)
              /\ s.where[a] = at + Len(g)
          <5>1. PICK c : c = Container(a)
            OBVIOUS
          <5>2. Offset(a) \in Nat /\ a \in Bfd /\ Good(v, {})
            BY <1>3, <2>3
          <5>3. /\ Good(s, {}) /\ Apart(v, s, a) /\ Kept(v, s, c) /\ s.stream[c] = v.stream[c]
                /\ s.where[a] = IF v.stream[c] # Null THEN (v.stream[c] - Offset(a)) % Modulus
                                ELSE (v.where[a] - Offset(a)) % Modulus
            BY <4>1, <5>1, <5>2, Tells
          <5>4. v.stream[a] # Null /\ (v.stream[a] - 0) % Modulus = v.stream[a]
            BY <3>5, <3>6, Reachable, Sorts
          <5>5. QED
            BY <1>3, <3>5, <5>1, <5>3, <5>4
        <4>3. PICK t : t = SetWhere(s, e, 0)
          OBVIOUS
        <4>4. e \in Elt /\ e \in Bfd /\ e # a /\ e.my_archive = a
          BY <1>3, Sorts DEF Elt
        <4>5. /\ t \in State /\ t.lru = s.lru /\ t.open_files = s.open_files
              /\ t.stream = s.stream /\ t.cacheable = s.cacheable
              /\ t.opened_once = s.opened_once /\ t.data = s.data
              /\ t.where[e] = 0 /\ \A b \in Bfd : b # e => t.where[b] = s.where[b]
          <5>1. {0} \subseteq Nat /\ s \in State /\ e \in Bfd
            BY <4>2, <4>4 DEF Good
          <5>2. QED
            BY <4>3, <5>1, WhereSet
        <4>6. Good(t, {}) /\ Becomes(t)
          BY <4>1, <4>2, <4>3, <4>5, GoodAlike DEF SetWhere
        <4>7. t.where[a] = at + Len(g) /\ t.stream[a] = at + Len(g) /\ t.data[a] = Now.data[a]
          BY <1>3, <3>7, <4>2, <4>4, <4>5 DEF Kept
        <4>8. Aside(Now, t, a)
          <5>1. Apart(Now, s, a)
            BY <2>4, <4>2, ApartChains
          <5>2. Aside(Now, s, a)
            BY <1>3, <5>1, ApartAside
          <5>3. QED
            BY <4>4, <4>5, <5>2, Sorts DEF Aside, Same, Evicted
        <4>9. /\ at + Len(g) \in Nat /\ g[1].size \in Nat
              /\ at + Len(g) + g[1].size < MaxPos
          BY <1>3, <3>3, <3>5, <3>9, HeaderFits
        <4>10. PICK k : k = at + Len(g)
          OBVIOUS
        <4>11. /\ DOMAIN elts' = DOMAIN elts \cup {e}
               /\ \A d \in DOMAIN elts : elts'[d] = elts[d]
               /\ elts'[e].origin = k /\ elts'[e].parsed_size = g[1].size
          BY <1>2, <4>1, <4>2, <4>10
        <4>12. \A d \in DOMAIN elts' : EltSane(d)'
          <5>1. EltSane(e)'
            BY <1>2, <4>4, <4>9, <4>10, <4>11 DEF EltSane
          <5>2. ASSUME NEW d \in DOMAIN elts
                PROVE  EltSane(d)'
            BY <1>2, <4>11 DEF fdInv, EltSane
          <5>3. QED
            BY <4>11, <5>1, <5>2
        <4>13. /\ DOMAIN elts' \subseteq Elt
               /\ \A d \in Elt : d.my_archive # a =>
                    /\ d \in DOMAIN elts' <=> d \in DOMAIN elts
                    /\ d \in DOMAIN elts => elts'[d] = elts[d]
          BY <4>4, <4>11 DEF fdInv
        <4>14. Place(t, a) = at + Len(g)
          BY <3>6, <4>7, Reachable, Sorts DEF Place
        <4>15. x # NoUser => t.where[x] + Offset(x)' = Place(t, a)
          BY <1>3, <3>6, <3>7, <4>7, <4>14, Reachable DEF Offset
        <4>16. x \in {a, NoUser} \cup {d \in DOMAIN elts' : d.my_archive = a}
          BY <3>7
        <4>17. t.where[a] \in 0..Reach /\ t.stream[a] \in 0..Reach \cup {Null}
          BY <3>6, <4>7
        <4>18. /\ fdInv' /\ data' = data /\ Position' = Updated(Position, a, Place(t, a))
          BY <1>2, <3>2, <4>6, <4>7, <4>8, <4>12, <4>13, <4>15, <4>16, <4>17, ArchiveKeeps
        <4>19. Abstractly
          <5>1. /\ a \in File /\ a \in known /\ known' = known /\ data' = data /\ bytes' = g
                /\ Position' = Updated(Position, a, at + Len(g))
            BY <1>2, <1>3, <3>2, <4>14, <4>18 DEF Returns
          <5>2. g = Files!Slice(data[a], at, ar_hdr)
            BY <1>4, <3>5, NowFields
          <5>3. CASE trusts
            BY <3>2, <3>3, <5>1, <5>2, <5>3, HeaderRead DEF Returns
          <5>4. CASE ~trusts
            BY <3>2, <3>3, <5>1, <5>2, <5>4, HeaderRead DEF Returns
          <5>5. QED
            BY <5>3, <5>4
        <4>20. QED
          BY <4>18, <4>19
      <3>10. QED
        BY <3>8, <3>9
    <2>7. QED
      BY <2>5, <2>6
  <1>10. QED
    BY <1>8, <1>9

(* A step that changes nothing keeps the invariant.                        *)
LEMMA StutterStep ==
    ASSUME fdInv, UNCHANGED vars
    PROVE  fdInv' /\ Abstractly
  <1>1. /\ lru' = lru /\ open_files' = open_files /\ stream' = stream /\ where' = where
        /\ cacheable' = cacheable /\ opened_once' = opened_once /\ data' = data
        /\ known' = known /\ elts' = elts /\ call' = call /\ bytes' = bytes /\ user' = user
    BY DEF vars, cacheVars
  <1>2. Now' = Now /\ Position' = Position /\ \A b : Offset(b)' = Offset(b)
    BY <1>1 DEF Now, Position, Offset
  <1>3. \A e : EltSane(e)' <=> EltSane(e)
    BY <1>1 DEF EltSane
  <1>4. \A f : Users(f)' = Users(f)
    BY <1>1 DEF Users
  <1>5. PositionKept' <=> PositionKept
    BY <1>1, <1>2 DEF PositionKept, Offset
  <1>6. fdInv'
    BY <1>1, <1>2, <1>3, <1>4, <1>5 DEF fdInv
  <1>7. Abstractly
    BY <1>1, <1>2 DEF Abstractly, Files!filesVars
  <1>8. QED
    BY <1>6, <1>7

(* Every step keeps the invariant, and is a step of FdFiles or leaves it   *)
(* as it is.                                                               *)
LEMMA EveryStep ==
    ASSUME fdInv, [Next]_vars
    PROVE  fdInv' /\ Abstractly
  <1>1. ASSUME NEW f \in File, bfd_fopen(f) \/ bfd_openw(f) \/ bfd_close(f) \/ bfd_cache_close(f)
        PROVE  fdInv' /\ Abstractly
    BY <1>1, FopenStep, OpenwStep, CloseStep, CacheCloseStep
  <1>2. ASSUME NEW e \in DOMAIN elts, bfd_close_element(e)
        PROVE  fdInv' /\ Abstractly
    BY <1>2, CloseElementStep
  <1>3. ASSUME NEW b \in Callers, \E p \in 0..MaxSeek : Seek(b, p)
        PROVE  fdInv' /\ Abstractly
    BY <1>3, SeekStep
  <1>4. ASSUME NEW b \in Callers, \E n \in 1..MaxRead : Read(b, n)
        PROVE  fdInv' /\ Abstractly
    BY <1>4, ReadStep
  <1>5. ASSUME NEW b \in Callers, \E v \in Byte : Write(b, v)
        PROVE  fdInv' /\ Abstractly
    BY <1>5, WriteStep
  <1>6. ASSUME NEW b \in Callers, Tell(b) \/ Stat(b)
        PROVE  fdInv' /\ Abstractly
    BY <1>6, TellStep, StatStep
  <1>7. ASSUME NEW a \in Archive, OpenNext(a)
        PROVE  fdInv' /\ Abstractly
    BY <1>7, ElementStep DEF OpenNext
  <1>8. CASE Next
    BY <1>1, <1>2, <1>3, <1>4, <1>5, <1>6, <1>7, <1>8 DEF Next
  <1>9. CASE UNCHANGED vars
    BY <1>9, StutterStep
  <1>10. QED
    BY <1>8, <1>9

(* At first no file is open.                                               *)
LEMMA AtFirst ==
    ASSUME Init
    PROVE  fdInv /\ Files!filesInit
  <1>1. Now \in State
    <2>1. /\ lru \in Lists /\ open_files \in Nat /\ stream \in Places /\ where \in Wheres
          /\ cacheable \in Flags /\ opened_once \in Flags
      BY DEF Init, Lists, Places, Wheres, Flags
    <2>2. data \in Stores
      <3>1. \A f \in File : Contents[f] \in Seq(Item)
        <4>1. CellType \subseteq Item
          BY DEF Item
        <4>2. \A f \in File : Contents[f] \in Seq(CellType)
          BY FileAssumption
        <4>3. QED
          BY <4>1, <4>2
      <3>2. QED
        BY <3>1, FileAssumption DEF Init, Stores
    <2>3. QED
      BY <2>1, <2>2 DEF Now, State
  <1>2. InRing(Now, {}) = {} /\ Now.lru = <<>> /\ Now.open_files = 0
    BY NowFields DEF Init, InRing
  <1>3. Good(Now, {})
    <2>1. Ring(<<>>, {})
      BY DEF Ring
    <2>2. QED
      BY <1>1, <1>2, <2>1, LimitAssumption DEF Good
  <1>4. ASSUME NEW f \in File
        PROVE  FileSane(Now, known, f)
    BY NowFields, Sorts, Reachable DEF Init, FileSane
  <1>5. DOMAIN elts = {} /\ known = {}
    BY DEF Init
  <1>6. user \in [File -> Bfd \cup {NoUser}] /\ \A f \in File : user[f] \in Users(f)
    BY Sorts DEF Init, Users
  <1>7. fdInv
    BY <1>3, <1>4, <1>5, <1>6 DEF fdInv, PositionKept
  <1>8. Position = [f \in File |-> 0]
    BY Sorts DEF Init, Position
  <1>9. Files!filesInit
    BY <1>8 DEF Init, Files!filesInit
  <1>10. QED
    BY <1>7, <1>9

(* What the runs check follows from the invariant.                         *)
LEMMA InvariantSuffices ==
    ASSUME fdInv
    PROVE  fdTypeOK /\ RingExact /\ LimitKept /\ PositionKept
  <1>1. /\ lru \in Lists /\ open_files \in Nat /\ stream \in Places /\ where \in Wheres
        /\ cacheable \in Flags /\ opened_once \in Flags
    BY NowFields DEF fdInv, Good, State
  <1>2. fdTypeOK
    BY <1>1 DEF fdTypeOK, fdInv, Lists, Places, Wheres, Flags
  <1>3. RingExact
    BY NowFields DEF fdInv, Good, Ring, InRing, RingExact
  <1>4. LimitKept
    BY NowFields DEF fdInv, Good, InRing, LimitKept
  <1>5. QED
    BY <1>2, <1>3, <1>4 DEF fdInv

(* In every state, for all files, archives and limits: the ring of cache.c *)
(* holds exactly the open streams, the limit is kept but for files that    *)
(* must stay open and one more, and the BFD that has used a stream last    *)
(* finds it where it believes it to be.                                    *)
THEOREM CacheCorrect == Spec => [](fdTypeOK /\ RingExact /\ LimitKept /\ PositionKept)
  <1>1. Init => fdInv
    BY AtFirst
  <1>2. fdInv /\ [Next]_vars => fdInv'
    BY EveryStep
  <1>3. fdInv => fdTypeOK /\ RingExact /\ LimitKept /\ PositionKept
    BY InvariantSuffices
  <1>4. QED
    BY <1>1, <1>2, <1>3, PTL DEF Spec

(* In particular: evictions, reopenings and failures in the middle of a    *)
(* call leave no stream outside of the ring and nothing else on it.        *)
THEOREM RingCorrect == Spec => []RingExact
  BY CacheCorrect, PTL

(* In particular: beyond the limit of cache.c only streams that must stay  *)
(* open are open, and one more.                                            *)
THEOREM LimitCorrect == Spec => []LimitKept
  BY CacheCorrect, PTL

(* In particular: a file that was closed behind its user's back is found   *)
(* again where the user left it.                                           *)
THEOREM PositionCorrect == Spec => []PositionKept
  BY CacheCorrect, PTL

(* The cache, with its evictions, reopenings and failures, implements      *)
(* files that stay open until bfd_close and keep one position (FdFiles).   *)
THEOREM CacheRefines == Spec => ImplementsFiles
  <1>1. Init => fdInv /\ Files!filesInit
    BY AtFirst
  <1>2. fdInv /\ [Next]_vars => fdInv' /\ [Files!filesNext]_(Files!filesVars)
    BY EveryStep DEF Abstractly
  <1>3. QED
    BY <1>1, <1>2, PTL DEF Spec, ImplementsFiles, Files!filesSpec

(* How much of a slice that ends at ps a read of n at w may take.          *)
Limit(ps, w, n) == IF w + n <= ps THEN n ELSE IF w >= ps THEN 0 ELSE ps - w

(* That is a number of bytes, and w from o on is an offset.                *)
LEMMA LimitIs ==
    ASSUME NEW o \in Nat, NEW ps \in Nat, NEW w \in Nat, NEW n \in Nat
    PROVE  Limit(ps, w, n) \in Nat /\ o + w \in Nat
  BY DEF Limit

(* Up to n of d items from the offset at on are l items.                   *)
Length(l, d, at, n) ==
    /\ at + n <= d => l = n
    /\ at + n > d /\ at <= d => l = d - at
    /\ at > d => l = 0

(* The numbers of a slice of a slice.                                      *)
LEMMA SlicedTwice ==
    ASSUME NEW d \in Nat, NEW o \in Nat, NEW ps \in Nat, NEW w \in Nat, NEW n \in Nat,
           NEW g \in Nat, NEW h \in Nat, NEW k \in Nat, g # 0,
           Length(h, d, o, ps), Length(g, d, o + w, Limit(ps, w, n)), Length(k, h, w, n)
    PROVE  g = k
  BY DEF Length, Limit

(* Reading a member is reading its archive up to the end of the member.    *)
LEMMA SliceOfSlice ==
    ASSUME NEW T, NEW d \in Seq(T), NEW o \in Nat, NEW ps \in Nat, NEW w \in Nat, NEW n \in Nat,
           NEW g, g = Files!Slice(d, o + w, Limit(ps, w, n)), Len(g) # 0,
           NEW k, k = Files!Slice(Files!Slice(d, o, ps), w, n)
    PROVE  g = k
  <1>1. PICK h : h = Files!Slice(d, o, ps)
    OBVIOUS
  <1>2. PICK m \in Nat, at \in Nat : m = Limit(ps, w, n) /\ at = o + w
    <2>1. Limit(ps, w, n) \in Nat /\ o + w \in Nat
      BY LimitIs
    <2>2. QED
      BY <2>1
  <1>3. g = Files!Slice(d, at, m) /\ k = Files!Slice(h, w, n) /\ Len(d) \in Nat
    BY <1>1, <1>2
  <1>4. h \in Seq(T) /\ Excerpt(h, d, o) /\ Lengths(h, d, o, ps)
    BY <1>1, Sliced
  <1>5. g \in Seq(T) /\ Excerpt(g, d, at) /\ Lengths(g, d, at, m)
    BY <1>3, Sliced
  <1>6. k \in Seq(T) /\ Excerpt(k, h, w) /\ Lengths(k, h, w, n)
    BY <1>3, <1>4, Sliced
  <1>7. Len(g) \in Nat /\ Len(h) \in Nat /\ Len(k) \in Nat
    BY <1>4, <1>5, <1>6
  <1>8. Len(g) = Len(k)
    <2>1. PICK ld \in Nat, lg \in Nat, lh \in Nat, lk \in Nat :
            ld = Len(d) /\ lg = Len(g) /\ lh = Len(h) /\ lk = Len(k)
      BY <1>3, <1>7
    <2>2. Length(lh, ld, o, ps) /\ Length(lk, lh, w, n)
      BY <1>4, <1>6, <2>1 DEF Length, Lengths
    <2>3. Length(lg, ld, o + w, Limit(ps, w, n)) /\ lg # 0
      BY <1>2, <1>5, <2>1 DEF Length, Lengths
    <2>4. QED
      BY <2>1, <2>2, <2>3, SlicedTwice
  <1>9. ASSUME NEW i \in 1..Len(g)
        PROVE  g[i] = k[i]
    <2>1. g[i] = d[at + i]
      BY <1>5 DEF Excerpt
    <2>2. w + i \in 1..Len(h) /\ k[i] = h[w + i]
      BY <1>6, <1>8 DEF Excerpt
    <2>3. h[w + i] = d[o + (w + i)]
      BY <1>4, <2>2 DEF Excerpt
    <2>4. at + i = o + (w + i)
      BY <1>2, <1>7
    <2>5. QED
      BY <2>1, <2>2, <2>3, <2>4
  <1>10. QED
    BY <1>5, <1>6, <1>8, <1>9

(* What a member has read after a step.                                    *)
MemberRead ==
    (call'.op = "read" /\ bytes' # <<>>) => \A e \in DOMAIN elts :
       call'.by = e =>
          bytes' = Files!Slice(Files!Slice(data[e.my_archive], elts[e].origin, elts[e].parsed_size),
                               where[e], call'.asked)

(* bfd_bread of a member returns a part of the member.                     *)
LEMMA ReadExact ==
    ASSUME fdInv, NEW b \in Callers, NEW n \in 1..MaxRead, Read(b, n)
    PROVE  MemberRead
  <1> SUFFICES ASSUME call'.op = "read", bytes' # <<>>, NEW e \in DOMAIN elts, call'.by = e
               PROVE  bytes' = Files!Slice(Files!Slice(data[e.my_archive], elts[e].origin,
                                                       elts[e].parsed_size),
                                           where[e], call'.asked)
    BY DEF MemberRead
  <1>1. PICK c : c = Container(b)
    OBVIOUS
  <1>2. PICK r \in bfd_bread(Now, b, n) :
          /\ Becomes(r.s)
          /\ IF r.ok THEN Returns([op |-> "read", file |-> c, by |-> b,
                                   asked |-> n, n |-> limited(b, where[b], n)], r.got)
             ELSE Fails
    BY <1>1 DEF Read
  <1>3. user[c] = b /\ b \notin Writers
    BY <1>1 DEF Read
  <1>4. r.ok /\ bytes' = r.got /\ e = b /\ call'.asked = n
    BY <1>2 DEF Fails, Returns, Files!NoCall
  <1>5. e \in Elt /\ EltSane(e) /\ c = e.my_archive /\ c \in known /\ c \in File
    BY <1>1, <1>4, Containers DEF fdInv, EltSane
  <1>6. c \notin Writers /\ Offset(e) = elts[e].origin /\ e \in Bfd
    BY <1>1, <1>5, Containers, FileAssumption, Sorts DEF Offset
  <1>7. Good(Now, {}) /\ Now \in State /\ n \in Nat /\ elts[e].parsed_size \in Nat
    BY <1>5, LimitAssumption DEF fdInv, Good, EltSane
  <1>8. r.got = Files!Slice(Now.data[c], Place(Now, c), limited(b, Now.where[b], n))
    <2>1. b \in Bfd /\ Good(Now, {}) /\ n \in Nat /\ c \notin Writers
          /\ (b \in Elt => elts[b].parsed_size \in Nat)
      BY <1>4, <1>6, <1>7
    <2>2. r \in bfd_bread(Now, b, n) /\ c = Container(b) /\ r.ok
      BY <1>1, <1>2, <1>4
    <2>3. QED
      BY <2>1, <2>2, ReadGot
  <1>9. e # NoUser /\ where[e] + Offset(e) = Place(Now, c)
    BY <1>3, <1>4, <1>5, FileAssumption, NowFields DEF fdInv, PositionKept
  <1>10. PICK o \in Nat, ps \in Nat, w \in Nat, m \in Nat :
           o = elts[e].origin /\ ps = elts[e].parsed_size /\ w = where[e] /\ m = n
    <2>1. where[e] \in Nat
      BY <1>1, <1>4, <1>6, <1>7, StateTyped, NowFields
    <2>2. QED
      BY <1>5, <1>7, <2>1 DEF EltSane
  <1>11. limited(b, Now.where[b], n) = Limit(ps, w, m) /\ Place(Now, c) = o + w
    <2>1. Place(Now, c) = o + w
      BY <1>6, <1>9, <1>10, Sums
    <2>2. Now.where[b] = w /\ b \in Elt /\ elts[b].parsed_size = ps /\ n = m
      BY <1>4, <1>5, <1>10, NowFields
    <2>3. QED
      BY <2>1, <2>2 DEF limited, Limit
  <1>12. PICK d : d = Now.data[c]
    OBVIOUS
  <1>13. d \in Seq(Item) /\ d = data[e.my_archive]
    BY <1>1, <1>4, <1>5, <1>6, <1>7, <1>12, StateTyped, NowFields
  <1>14. PICK g, k : g = bytes' /\ k = Files!Slice(Files!Slice(d, o, ps), w, m)
    OBVIOUS
  <1>15. g = Files!Slice(d, o + w, Limit(ps, w, m))
    BY <1>4, <1>8, <1>11, <1>12, <1>14
  <1>16. Len(g) # 0
    <2>1. Limit(ps, w, m) \in Nat /\ o + w \in Nat
      BY LimitIs
    <2>2. PICK at \in Nat, l \in Nat : at = o + w /\ l = Limit(ps, w, m)
      BY <2>1
    <2>3. d \in Seq(Item) /\ g = Files!Slice(d, at, l)
      BY <1>13, <1>15, <2>2
    <2>4. g \in Seq(Item)
      BY <2>3, Sliced
    <2>5. QED
      BY <1>14, <2>4
  <1>17. g = k
    BY <1>13, <1>14, <1>15, <1>16, SliceOfSlice
  <1>18. QED
    BY <1>4, <1>10, <1>13, <1>14, <1>17

(* No other step passes for a read of a member.                            *)
LEMMA EveryRead ==
    ASSUME fdInv, [Next]_vars
    PROVE  MemberRead \/ UNCHANGED vars
  <1>1. ASSUME Fails PROVE MemberRead
    BY <1>1 DEF Fails, Returns, Files!NoCall, MemberRead
  <1>2. ASSUME NEW f \in File, bfd_fopen(f) \/ bfd_openw(f) \/ bfd_close(f) \/ bfd_cache_close(f)
        PROVE  MemberRead
    <2>1. ASSUME NEW r, Opened(f, r) PROVE MemberRead
      BY <1>1, <2>1 DEF Opened, Returns, MemberRead
    <2>2. QED
      BY <1>1, <1>2, <2>1 DEF bfd_fopen, bfd_openw, bfd_close, bfd_cache_close, Returns, MemberRead
  <1>3. ASSUME NEW e \in DOMAIN elts, bfd_close_element(e)
        PROVE  MemberRead
    BY <1>1, <1>3 DEF bfd_close_element
  <1>4. ASSUME NEW b \in Callers, \E p \in 0..MaxSeek : Seek(b, p)
        PROVE  MemberRead
    BY <1>1, <1>4 DEF Seek, Returns, MemberRead
  <1>5. ASSUME NEW b \in Callers, \E n \in 1..MaxRead : Read(b, n)
        PROVE  MemberRead
    BY <1>5, ReadExact
  <1>6. ASSUME NEW b \in Callers, \E v \in Byte : Write(b, v)
        PROVE  MemberRead
    BY <1>1, <1>6 DEF Write, Returns, MemberRead
  <1>7. ASSUME NEW b \in Callers, Tell(b) \/ Stat(b)
        PROVE  MemberRead
    BY <1>1, <1>7 DEF Tell, Stat
  <1>8. ASSUME NEW a \in Archive, OpenNext(a)
        PROVE  MemberRead
    <2>1. a \notin DOMAIN elts
      BY FileAssumption, Sorts DEF fdInv
    <2>2. PICK f \in FilePositions(a) : _bfd_get_elt_at_filepos(a, f)
      BY <1>8 DEF OpenNext
    <2>3. \/ Fails
          \/ call' = [op |-> "read", file |-> a, by |-> a, n |-> ar_hdr]
          \/ call' = [op |-> "seek_read", file |-> a, to |-> f, n |-> ar_hdr]
      BY <2>2 DEF _bfd_get_elt_at_filepos, Returns
    <2>4. CASE call' = [op |-> "read", file |-> a, by |-> a, n |-> ar_hdr]
      <3>1. call'.by = a
        BY <2>4
      <3>2. QED
        BY <2>1, <3>1 DEF MemberRead
    <2>5. CASE call' = [op |-> "seek_read", file |-> a, to |-> f, n |-> ar_hdr]
      BY <2>5 DEF MemberRead
    <2>6. QED
      BY <1>1, <2>3, <2>4, <2>5
  <1>9. QED
    BY <1>2, <1>3, <1>4, <1>5, <1>6, <1>7, <1>8 DEF Next

(* What a member has read is its contents from its position on, and never  *)
(* what follows it in the archive.                                         *)
THEOREM ReadsCorrect == Spec => ReadsExact
  <1>1. Init => fdInv
    BY AtFirst
  <1>2. fdInv /\ [Next]_vars => fdInv' /\ [MemberRead]_vars
    BY EveryStep, EveryRead
  <1>3. QED
    BY <1>1, <1>2, PTL DEF Spec, ReadsExact, MemberRead
=============================================================================
