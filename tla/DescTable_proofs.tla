-------------------------- MODULE DescTable_proofs --------------------------
(***************************************************************************)
(* Proofs about DescTable for any number of threads, fds and descriptions. *)
(*                                                                         *)
(* The inductive invariant TableInv says of every thread what its control  *)
(* state means for the lock, the table, the mutexes and the references it  *)
(* holds (ThreadInv), of every description what kind it has (HeapInv), and *)
(* that the counts are exact.  A step of a thread t changes nothing that   *)
(* the other threads rely on (OthersKeep): t changes the table only under  *)
(* the write lock, an epollfd's nodes only with its mutex, and a vtable    *)
(* only of a description that nobody else refers to.                       *)
(*                                                                         *)
(* Two more build on it.  WaitInv, for the absence of deadlock: at most    *)
(* one close locks the epollfds, each of which is in one slot.  CurrentInv *)
(* about disciplined programs: what a call names stays open, and so what   *)
(* it has looked up is still in the table.                                 *)
(***************************************************************************)
EXTENDS DescTable, FiniteSetTheorems, TLAPS

USE FdsAssumption, DescsAssumption, ThreadsAssumption, BoundAssumption, SentinelAssumption

-----------------------------------------------------------------------------
(* The inductive invariant *)

\* Who holds the lock of the table.
Writing == {"create_wr", "create_desc", "created", "drop_close", "close_wr"}
Reading == {"found", "found2", "walking", "lock_epollfds", "remove_fd", "unref_closed",
            "real_close", "unlock_epollfds"}

LockInv(t) ==
    /\ announced = t <=> pc[t] \in Writing
    /\ t \in readers <=> pc[t] \in Reading
    /\ pc[t] \in {"create_desc", "created", "drop_close"} => readers = {}

\* What the local variables of a call are worth.
LocalInv(t) ==
    /\ loc[t].desc # NULL => pc[t] \in OwnsDesc \cup {"found", "walking"}
    /\ loc[t].desc2 # NULL => pc[t] \in OwnsDesc2 \cup {"found2", "in_use"}
    /\ loc[t].desc = NULL => pc[t] \notin {"created", "use", "in_use", "find2", "found2",
                                           "ctl_lock", "ctl", "unref2", "unref"}
    /\ pc[t] = "found" => loc[t].desc = open_files[loc[t].fd]
    /\ pc[t] = "found2" => loc[t].desc2 = open_files[loc[t].fd2]
    /\ pc[t] = "walking" /\ loc[t].desc # NULL => \E f \in Fds : open_files[f] = loc[t].desc
    /\ pc[t] \in {"create_desc", "created", "drop_close"} => open_files[loc[t].fd] = NULL
    /\ pc[t] \in {"close", "close_wr"} => loc[t].cur = 0

\* The kinds of the descriptions that a call refers to.
KindInv(t) ==
    /\ pc[t] = "created" => vtable[loc[t].desc] = "none"
    /\ pc[t] \in OwnsDesc \ {"created"} /\ loc[t].desc # NULL => vtable[loc[t].desc] # "none"
    /\ pc[t] \in OwnsDesc2 /\ loc[t].desc2 # NULL => vtable[loc[t].desc2] # "none"
    /\ pc[t] \in {"find2", "found2", "ctl_lock", "ctl"} => vtable[loc[t].desc] = "epoll"

\* The mutexes that a thread holds: none, one, or those of the epollfds that its
\* close has come to.
Held(t) == {d \in Descs : mutex[d] = t}
Passed(t) == {d \in Descs : IsEpollfd(d) /\ \E f \in Fds : f < loc[t].cur /\ open_files[f] = d}
HoldsAll == {"remove_fd", "unref_closed", "real_close", "unlock_epollfds"}
HoldsOne == {"in_use", "ctl"}

MutexInv(t) ==
    /\ pc[t] = "lock_epollfds" => Held(t) = Passed(t)
    /\ pc[t] \in HoldsAll => Held(t) = Installed
    /\ pc[t] \in HoldsOne => Held(t) = {loc[t].desc}
    /\ pc[t] \notin HoldsAll \cup HoldsOne \cup {"lock_epollfds"} => Held(t) = {}

\* The fds and descriptions of d's nodes.
HasNode(d, f, e) == \E n \in nodes[d] : n.fd = f /\ n.desc = e

\* A wait polls the description of one of its nodes, and a close has removed its
\* fd before it closes it.
NodeInv(t) ==
    /\ pc[t] = "in_use" /\ loc[t].desc2 # NULL => \E f \in Fds : HasNode(loc[t].desc, f, loc[t].desc2)
    /\ pc[t] \in {"unref_closed", "real_close"} =>
         \A d \in Installed : \A e \in Descs \cup {NULL} : ~HasNode(d, loc[t].fd, e)

ThreadInv(t) == LockInv(t) /\ LocalInv(t) /\ KindInv(t) /\ MutexInv(t) /\ NodeInv(t)

\* A description has a vtable once it can be found, and only epollfds have nodes.
HeapInv ==
    /\ \A d \in Descs : refcount[d] = 0 => vtable[d] = "none"
    /\ \A d \in Descs : nodes[d] # {} => vtable[d] = "epoll"
    /\ \A d \in Descs : \A n \in nodes[d] : n.desc # NULL => vtable[n.desc] = "pollable"
    /\ \A f \in Fds : open_files[f] # NULL => vtable[open_files[f]] # "none"

TableInv == /\ TypeOK
            /\ \A t \in Threads : ThreadInv(t)
            /\ HeapInv
            /\ RefCountExact
            /\ ClosedFdsLeaveEpoll

-----------------------------------------------------------------------------
(* Counting references *)

One(b) == IF b THEN 1 ELSE 0

\* The number of fds, and so any set of (description, fd) pairs, is finite.
LEMMA FdsFinite == IsFiniteSet(Fds) /\ IsFiniteSet(Descs \X Fds)
<1>1. IsFiniteSet(Fds)
  BY FS_Interval, 0 \in Int, NFds - 1 \in Int DEF Fds
<1> QED
  BY <1>1, FS_Product

\* Two sets that differ in one element at most differ in size by that element.
LEMMA SameButOne ==
    ASSUME NEW X, NEW Y, NEW x, IsFiniteSet(X), IsFiniteSet(Y), X \ {x} = Y \ {x}
    PROVE  /\ Cardinality(X) \in Nat /\ Cardinality(Y) \in Nat
           /\ Cardinality(Y) + One(x \in X) = Cardinality(X) + One(x \in Y)
<1>1. Cardinality(X) \in Nat /\ Cardinality(Y) \in Nat
  BY FS_CardinalityType
<1>2. Cardinality(X \ {x}) = IF x \in X THEN Cardinality(X) - 1 ELSE Cardinality(X)
  BY FS_RemoveElement
<1>3. Cardinality(Y \ {x}) = IF x \in Y THEN Cardinality(Y) - 1 ELSE Cardinality(Y)
  BY FS_RemoveElement
<1> QED
  BY <1>1, <1>2, <1>3 DEF One

\* A finite set with an element has a positive size.
LEMMA Positive ==
    ASSUME NEW X, IsFiniteSet(X), NEW x \in X
    PROVE  Cardinality(X) \in Nat /\ Cardinality(X) > 0
<1>1. Cardinality(X) \in Nat
  BY FS_CardinalityType
<1>2. Cardinality(X) # 0
  BY FS_EmptySet
<1> QED
  BY <1>1, <1>2

Owns(t, d) == loc[t].desc = d /\ pc[t] \in OwnsDesc
Owns2(t, d) == loc[t].desc2 = d /\ pc[t] \in OwnsDesc2

\* The sizes that RefCountExact adds up are natural numbers.
LEMMA RefsType ==
    ASSUME NEW d
    PROVE  /\ SlotRefs(d) \in Nat /\ NodeRefs(Descs, Fds, d) \in Nat /\ ThreadRefs(d) \in Nat
           /\ SlotRefs(d)' \in Nat /\ NodeRefs(Descs, Fds, d)' \in Nat /\ ThreadRefs(d)' \in Nat
<1>1. ASSUME NEW S \in SUBSET Fds PROVE Cardinality(S) \in Nat
  BY FdsFinite, FS_Subset, FS_CardinalityType
<1>2. ASSUME NEW S \in SUBSET (Descs \X Fds) PROVE Cardinality(S) \in Nat
  BY FdsFinite, FS_Subset, FS_CardinalityType
<1>3. ASSUME NEW S \in SUBSET Threads PROVE Cardinality(S) \in Nat
  BY FS_Subset, FS_CardinalityType
<1>4. SlotRefs(d) \in Nat /\ SlotRefs(d)' \in Nat
  BY <1>1 DEF SlotRefs
<1>5. NodeRefs(Descs, Fds, d) \in Nat /\ NodeRefs(Descs, Fds, d)' \in Nat
  BY <1>2 DEF NodeRefs
<1>6. ThreadRefs(d) \in Nat /\ ThreadRefs(d)' \in Nat
  BY <1>3 DEF ThreadRefs
<1> QED
  BY <1>4, <1>5, <1>6

\* A step of thread t alone changes the threads' references by those of t.
LEMMA ThreadRefsMove ==
    ASSUME NEW t \in Threads, NEW d,
           \A u \in Threads \ {t} : pc'[u] = pc[u] /\ loc'[u] = loc[u]
    PROVE  ThreadRefs(d)' + One(Owns(t, d)) + One(Owns2(t, d))
             = ThreadRefs(d) + One(Owns(t, d)') + One(Owns2(t, d)')
<1> DEFINE X == {u \in Threads : loc[u].desc = d /\ pc[u] \in OwnsDesc}
           Y == {u \in Threads : loc'[u].desc = d /\ pc'[u] \in OwnsDesc}
           X2 == {u \in Threads : loc[u].desc2 = d /\ pc[u] \in OwnsDesc2}
           Y2 == {u \in Threads : loc'[u].desc2 = d /\ pc'[u] \in OwnsDesc2}
<1>1. IsFiniteSet(X) /\ IsFiniteSet(Y) /\ IsFiniteSet(X2) /\ IsFiniteSet(Y2)
  BY FS_Subset
<1>2. X \ {t} = Y \ {t} /\ X2 \ {t} = Y2 \ {t}
  OBVIOUS
<1>3. /\ (t \in X) = Owns(t, d) /\ (t \in Y) = Owns(t, d)'
      /\ (t \in X2) = Owns2(t, d) /\ (t \in Y2) = Owns2(t, d)'
  BY DEF Owns, Owns2
<1>4. ThreadRefs(d) = Cardinality(X) + Cardinality(X2) /\ ThreadRefs(d)' = Cardinality(Y) + Cardinality(Y2)
  BY DEF ThreadRefs, OwnsDesc, OwnsDesc2
<1> HIDE DEF X, Y, X2, Y2
<1>5. /\ Cardinality(X) \in Nat /\ Cardinality(Y) \in Nat
      /\ Cardinality(Y) + One(t \in X) = Cardinality(X) + One(t \in Y)
  BY <1>1, <1>2, SameButOne
<1>6. /\ Cardinality(X2) \in Nat /\ Cardinality(Y2) \in Nat
      /\ Cardinality(Y2) + One(t \in X2) = Cardinality(X2) + One(t \in Y2)
  BY <1>1, <1>2, SameButOne
<1>7. \A b : One(b) \in Nat
  BY DEF One
<1> QED
  BY <1>3, <1>4, <1>5, <1>6, <1>7

\* A change of one slot changes the table's references by that slot.
LEMMA SlotRefsMove ==
    ASSUME NEW f \in Fds, NEW d, \A g \in Fds \ {f} : open_files'[g] = open_files[g]
    PROVE  SlotRefs(d)' + (IF open_files[f] = d THEN 1 ELSE 0) = SlotRefs(d) + (IF open_files'[f] = d THEN 1 ELSE 0)
<1> DEFINE X == {g \in Fds : open_files[g] = d}
           Y == {g \in Fds : open_files'[g] = d}
<1>1. IsFiniteSet(X) /\ IsFiniteSet(Y)
  BY FdsFinite, FS_Subset
<1>2. X \ {f} = Y \ {f}
  OBVIOUS
<1>3. (f \in X) = (open_files[f] = d) /\ (f \in Y) = (open_files'[f] = d)
  OBVIOUS
<1>4. SlotRefs(d) = Cardinality(X) /\ SlotRefs(d)' = Cardinality(Y)
  BY DEF SlotRefs
<1> HIDE DEF X, Y
<1> QED
  BY <1>1, <1>2, <1>3, <1>4, SameButOne DEF One

\* A count over slots, nodes and threads that finds a reference is positive.
LEMMA CountPositive ==
    ASSUME NEW F \in SUBSET Fds, NEW R \in SUBSET (Descs \X Fds),
           NEW T \in SUBSET Threads, NEW T2 \in SUBSET Threads,
           F # {} \/ R # {} \/ T # {} \/ T2 # {}
    PROVE  Cardinality(F) + Cardinality(R) + (Cardinality(T) + Cardinality(T2)) > 0
<1>1. IsFiniteSet(F) /\ IsFiniteSet(R) /\ IsFiniteSet(T) /\ IsFiniteSet(T2)
  BY FdsFinite, FS_Subset
<1>2. Cardinality(F) \in Nat /\ Cardinality(R) \in Nat /\ Cardinality(T) \in Nat /\ Cardinality(T2) \in Nat
  BY <1>1, FS_CardinalityType
<1>3. Cardinality(F) > 0 \/ Cardinality(R) > 0 \/ Cardinality(T) > 0 \/ Cardinality(T2) > 0
  BY <1>1, Positive
<1> QED
  BY <1>2, <1>3

\* What refers to a description: a slot, a node or a call.
Refers(d) == \/ \E f \in Fds : open_files[f] = d
             \/ \E e \in Descs, f \in Fds : HasNode(e, f, d)
             \/ \E t \in Threads : Owns(t, d) \/ Owns2(t, d)

\* Whatever refers to a description keeps its count above zero, before a step ...
LEMMA Referenced ==
    ASSUME RefCountExact, NEW d \in Descs, Refers(d)
    PROVE  refcount[d] > 0
<1>1. refcount[d] = SlotRefs(d) + NodeRefs(Descs, Fds, d) + ThreadRefs(d)
  BY DEF RefCountExact
<1> DEFINE F == {f \in Fds : open_files[f] = d}
           R == {r \in Descs \X Fds : \E n \in nodes[r[1]] : n.fd = r[2] /\ n.desc = d}
           T == {t \in Threads : loc[t].desc = d /\ pc[t] \in OwnsDesc}
           T2 == {t \in Threads : loc[t].desc2 = d /\ pc[t] \in OwnsDesc2}
<1>2. /\ SlotRefs(d) = Cardinality(F) /\ NodeRefs(Descs, Fds, d) = Cardinality(R)
      /\ ThreadRefs(d) = Cardinality(T) + Cardinality(T2)
  BY DEF SlotRefs, NodeRefs, ThreadRefs, OwnsDesc, OwnsDesc2
<1>3. \A e \in Descs, f \in Fds : HasNode(e, f, d) => <<e, f>> \in R
  BY DEF HasNode
<1>4. F # {} \/ R # {} \/ T # {} \/ T2 # {}
  BY <1>3 DEF Refers, Owns, Owns2, OwnsDesc, OwnsDesc2
<1>5. F \subseteq Fds /\ R \subseteq Descs \X Fds /\ T \subseteq Threads /\ T2 \subseteq Threads
  OBVIOUS
<1> HIDE DEF F, R, T, T2
<1>6. Cardinality(F) + Cardinality(R) + (Cardinality(T) + Cardinality(T2)) > 0
  BY <1>4, <1>5, CountPositive
<1> QED
  BY <1>1, <1>2, <1>6

\* ... and after it.
LEMMA ReferencedNext ==
    ASSUME RefCountExact', NEW d \in Descs, Refers(d)'
    PROVE  refcount'[d] > 0
<1>1. refcount'[d] = SlotRefs(d)' + NodeRefs(Descs, Fds, d)' + ThreadRefs(d)'
  BY DEF RefCountExact
<1> DEFINE F == {f \in Fds : open_files'[f] = d}
           R == {r \in Descs \X Fds : \E n \in nodes'[r[1]] : n.fd = r[2] /\ n.desc = d}
           T == {t \in Threads : loc'[t].desc = d /\ pc'[t] \in OwnsDesc}
           T2 == {t \in Threads : loc'[t].desc2 = d /\ pc'[t] \in OwnsDesc2}
<1>2. /\ SlotRefs(d)' = Cardinality(F) /\ NodeRefs(Descs, Fds, d)' = Cardinality(R)
      /\ ThreadRefs(d)' = Cardinality(T) + Cardinality(T2)
  BY DEF SlotRefs, NodeRefs, ThreadRefs, OwnsDesc, OwnsDesc2
<1>3. \A e \in Descs, f \in Fds : HasNode(e, f, d)' => <<e, f>> \in R
  BY DEF HasNode
<1>4. F # {} \/ R # {} \/ T # {} \/ T2 # {}
  BY <1>3 DEF Refers, Owns, Owns2, OwnsDesc, OwnsDesc2
<1>5. F \subseteq Fds /\ R \subseteq Descs \X Fds /\ T \subseteq Threads /\ T2 \subseteq Threads
  OBVIOUS
<1> HIDE DEF F, R, T, T2
<1>6. Cardinality(F) + Cardinality(R) + (Cardinality(T) + Cardinality(T2)) > 0
  BY <1>4, <1>5, CountPositive
<1> QED
  BY <1>1, <1>2, <1>6

-----------------------------------------------------------------------------
(* file_description_unref and epollfd_ctx_remove_node *)

\* A change of the heap: the counts follow the nodes' references, with diff(e)
\* left for the slots and the calls to account for.
Balanced(diff) ==
    \A e \in Descs : refcount'[e] = refcount[e] + NodeRefs(Descs, Fds, e)' - NodeRefs(Descs, Fds, e) + diff[e]

\* Taking the nodes for fds fs away from the descriptions ds takes their
\* references away.
LEMMA NodeRefsLess ==
    ASSUME NEW ds \in SUBSET Descs, NEW fs \in SUBSET Fds, NEW e,
           \A d \in Descs, f \in Fds : HasNode(d, f, e)' <=> HasNode(d, f, e) /\ ~(d \in ds /\ f \in fs)
    PROVE  /\ NodeRefs(ds, fs, e) \in Nat
           /\ NodeRefs(Descs, Fds, e)' = NodeRefs(Descs, Fds, e) - NodeRefs(ds, fs, e)
<1> DEFINE X == {r \in Descs \X Fds : \E n \in nodes[r[1]] : n.fd = r[2] /\ n.desc = e}
           Y == {r \in Descs \X Fds : \E n \in nodes'[r[1]] : n.fd = r[2] /\ n.desc = e}
           Z == {r \in ds \X fs : \E n \in nodes[r[1]] : n.fd = r[2] /\ n.desc = e}
<1>1. \A r \in Descs \X Fds : /\ r \in X <=> HasNode(r[1], r[2], e)
                              /\ r \in Y <=> HasNode(r[1], r[2], e)'
                              /\ r \in Z <=> HasNode(r[1], r[2], e) /\ r[1] \in ds /\ r[2] \in fs
  BY DEF HasNode
<1>2. \A r \in Descs \X Fds : r[1] \in Descs /\ r[2] \in Fds
  OBVIOUS
<1>3. X \subseteq Descs \X Fds /\ Y \subseteq Descs \X Fds /\ Z \subseteq Descs \X Fds
  OBVIOUS
<1>4. /\ NodeRefs(Descs, Fds, e) = Cardinality(X) /\ NodeRefs(Descs, Fds, e)' = Cardinality(Y)
      /\ NodeRefs(ds, fs, e) = Cardinality(Z)
  BY DEF NodeRefs
<1> HIDE DEF X, Y, Z
<1>5. Y = X \ Z /\ X \cap Z = Z
  BY <1>1, <1>2, <1>3
<1>6. IsFiniteSet(X) /\ IsFiniteSet(Z)
  BY <1>3, FdsFinite, FS_Subset
<1>7. Cardinality(X \ Z) = Cardinality(X) - Cardinality(X \cap Z)
  BY <1>6, FS_Difference
<1>8. Cardinality(Z) \in Nat
  BY <1>6, FS_CardinalityType
<1> QED
  BY <1>4, <1>5, <1>7, <1>8

\* No references where there is no node.
LEMMA NodeRefsNone ==
    ASSUME NEW ds, NEW fs, NEW e, \A d \in ds, f \in fs : ~HasNode(d, f, e)
    PROVE  NodeRefs(ds, fs, e) = 0
<1>1. {r \in ds \X fs : \E n \in nodes[r[1]] : n.fd = r[2] /\ n.desc = e} = {}
  BY DEF HasNode
<1> QED
  BY <1>1, FS_EmptySet DEF NodeRefs

\* An epollfd is not referenced by nodes: they reference pollable descriptions.
LEMMA EpollfdNotReferenced ==
    ASSUME HeapInv, NEW ds \in SUBSET Descs, NEW fs, NEW e \in Descs, vtable[e] # "pollable"
    PROVE  NodeRefs(ds, fs, e) = 0
<1>1. \A d \in ds, f \in fs : ~HasNode(d, f, e)
  BY DEF HasNode, HeapInv
<1> QED
  BY <1>1, NodeRefsNone

\* file_description_unref destroys the description when its count was one, which
\* takes the references of its nodes away; no other epollfd is destroyed.
LEMMA UnrefEffect ==
    ASSUME TypeOK, HeapInv, NEW d \in Descs, refcount[d] > 0, Unref(d)
    PROVE  /\ nodes' = [e \in Descs |-> IF e = d /\ refcount[d] = 1 THEN {} ELSE nodes[e]]
           /\ Balanced([e \in Descs |-> IF e = d THEN -1 ELSE 0])
           /\ refcount'[d] = refcount[d] - 1
<1> USE DEF TypeOK
<1>1. NodeRefs({d}, Fds, d) = 0
  <2>1. CASE nodes[d] = {}
    <3>1. \A a \in {d}, f \in Fds : ~HasNode(a, f, d)
      BY <2>1 DEF HasNode
    <3> QED
      BY <3>1, NodeRefsNone
  <2>2. CASE nodes[d] # {}
    BY <2>2, EpollfdNotReferenced DEF HeapInv
  <2> QED
    BY <2>1, <2>2
<1>2. ASSUME NEW e \in Descs, nodes[e] # {}
      PROVE  refcount'[e] = 0 <=> e = d /\ refcount[d] = 1
  <2>1. vtable[e] = "epoll" /\ refcount[e] # 0
    BY <1>2 DEF HeapInv
  <2>2. NodeRefs({d}, Fds, e) = 0
    BY <2>1, EpollfdNotReferenced
  <2>3. refcount'[e] = refcount[e] - (IF e = d THEN 1 ELSE 0)
    BY <2>2 DEF Unref
  <2> QED
    BY <2>1, <2>3
<1>3. nodes' = [e \in Descs |-> IF refcount'[e] = 0 THEN {} ELSE nodes[e]]
  BY DEF Unref, Settle
<1>4. nodes' = [e \in Descs |-> IF e = d /\ refcount[d] = 1 THEN {} ELSE nodes[e]]
  BY <1>2, <1>3
<1>5. ASSUME NEW e \in Descs
      PROVE  refcount'[e] = refcount[e] + NodeRefs(Descs, Fds, e)' - NodeRefs(Descs, Fds, e)
                              + (IF e = d THEN -1 ELSE 0)
  <2>0. NodeRefs(Descs, Fds, e) \in Nat /\ NodeRefs(Descs, Fds, e)' \in Nat
    BY RefsType
  <2>1. refcount'[e] = refcount[e] - (IF e = d THEN 1 ELSE 0)
                         - (IF refcount[d] = 1 THEN NodeRefs({d}, Fds, e) ELSE 0)
    BY DEF Unref
  <2>2. CASE refcount[d] = 1
    <3>1. \A a \in Descs, f \in Fds : HasNode(a, f, e)' <=> HasNode(a, f, e) /\ ~(a \in {d} /\ f \in Fds)
      BY <1>4, <2>2 DEF HasNode
    <3>2. /\ NodeRefs({d}, Fds, e) \in Nat
          /\ NodeRefs(Descs, Fds, e)' = NodeRefs(Descs, Fds, e) - NodeRefs({d}, Fds, e)
      BY <3>1, NodeRefsLess
    <3> QED
      BY <2>0, <2>1, <2>2, <3>2
  <2>3. CASE refcount[d] # 1
    <3>1. nodes' = nodes
      BY <1>4, <2>3
    <3>2. NodeRefs(Descs, Fds, e)' = NodeRefs(Descs, Fds, e)
      BY <3>1 DEF NodeRefs
    <3> QED
      BY <2>0, <2>1, <2>3, <3>2
  <2> QED
    BY <2>2, <2>3
<1>6. refcount'[d] = refcount[d] - 1
  BY <1>1 DEF Unref
<1> QED
  BY <1>4, <1>5, <1>6 DEF Balanced

\* Removing an fd from epollfds takes just those nodes and their references away.
LEMMA RemoveNodesEffect ==
    ASSUME TypeOK, HeapInv, NEW ds \in SUBSET Descs, NEW f \in Fds, RemoveNodes(ds, f)
    PROVE  /\ nodes' = [d \in Descs |-> IF d \in ds THEN {n \in nodes[d] : n.fd # f} ELSE nodes[d]]
           /\ Balanced([e \in Descs |-> 0])
<1> USE DEF TypeOK
<1> DEFINE ns == [d \in Descs |-> IF d \in ds THEN {n \in nodes[d] : n.fd # f} ELSE nodes[d]]
<1>1. nodes' = [d \in Descs |-> IF refcount'[d] = 0 THEN {} ELSE ns[d]]
  BY DEF RemoveNodes, Settle
<1>2. ASSUME NEW e \in Descs, ns[e] # {} PROVE refcount'[e] # 0
  <2>1. nodes[e] # {}
    BY <1>2
  <2>2. vtable[e] = "epoll" /\ refcount[e] # 0
    BY <2>1 DEF HeapInv
  <2>3. NodeRefs(ds, {f}, e) = 0
    BY <2>2, EpollfdNotReferenced
  <2> QED
    BY <2>2, <2>3 DEF RemoveNodes
<1>3. nodes' = ns
  <2> HIDE DEF ns
  <2>1. \A d \in Descs : (IF refcount'[d] = 0 THEN {} ELSE ns[d]) = ns[d]
    BY <1>2
  <2>2. ns = [d \in Descs |-> ns[d]]
    BY DEF ns
  <2> QED
    BY <1>1, <2>1, <2>2
<1>4. ASSUME NEW e \in Descs
      PROVE  refcount'[e] = refcount[e] + NodeRefs(Descs, Fds, e)' - NodeRefs(Descs, Fds, e) + 0
  <2>0. NodeRefs(Descs, Fds, e) \in Nat /\ NodeRefs(Descs, Fds, e)' \in Nat
    BY RefsType
  <2>1. \A a \in Descs, g \in Fds : HasNode(a, g, e)' <=> HasNode(a, g, e) /\ ~(a \in ds /\ g \in {f})
    BY <1>3 DEF HasNode
  <2>2. /\ NodeRefs(ds, {f}, e) \in Nat
        /\ NodeRefs(Descs, Fds, e)' = NodeRefs(Descs, Fds, e) - NodeRefs(ds, {f}, e)
    BY <2>1, NodeRefsLess
  <2> QED
    BY <2>0, <2>2 DEF RemoveNodes
<1> QED
  BY <1>3, <1>4 DEF Balanced

\* The counts stay exact when the slots and the calls account for the difference.
LEMMA ExactAfter ==
    ASSUME RefCountExact, NEW diff, Balanced(diff),
           \A e \in Descs : /\ diff[e] \in Int
                            /\ SlotRefs(e)' + ThreadRefs(e)' = SlotRefs(e) + ThreadRefs(e) + diff[e]
    PROVE  RefCountExact'
<1> SUFFICES ASSUME NEW e \in Descs
             PROVE  refcount'[e] = SlotRefs(e)' + NodeRefs(Descs, Fds, e)' + ThreadRefs(e)'
  BY DEF RefCountExact
<1>1. refcount[e] = SlotRefs(e) + NodeRefs(Descs, Fds, e) + ThreadRefs(e)
  BY DEF RefCountExact
<1>2. refcount'[e] = refcount[e] + NodeRefs(Descs, Fds, e)' - NodeRefs(Descs, Fds, e) + diff[e]
  BY DEF Balanced
<1> HIDE DEF RefCountExact, Balanced
<1> QED
  BY <1>1, <1>2, RefsType

-----------------------------------------------------------------------------
(* What the steps of a thread leave alone *)

Moves(t) == \A u \in Threads \ {t} : pc'[u] = pc[u] /\ loc'[u] = loc[u]

LockStep(t) == \A u \in Threads \ {t} :
    /\ announced' = u <=> announced = u
    /\ u \in readers' <=> u \in readers
    /\ announced = u => readers' \subseteq readers

TableStep(t) == open_files' = open_files \/ (announced = t /\ readers = {})

MutexStep(t) == \A u \in Threads \ {t}, d \in Descs : mutex'[d] = u <=> mutex[d] = u

NodeStep(t) == \A d \in Descs : mutex[d] \notin {t, NoThread} /\ refcount'[d] > 0 =>
    \A f \in Fds, e \in Descs \cup {NULL} : HasNode(d, f, e)' <=> HasNode(d, f, e)

VtableStep(t) == \A d \in Descs :
    vtable'[d] # vtable[d] => refcount'[d] = 0 \/ (announced = t /\ vtable[d] = "none")

\* Descriptions are only destroyed, nodes only removed and slots only cleared.
HeapShrinks ==
    /\ \A d \in Descs : vtable'[d] = IF refcount'[d] = 0 THEN "none" ELSE vtable[d]
    /\ \A d \in Descs : nodes'[d] \subseteq nodes[d] /\ (refcount'[d] = 0 => nodes'[d] = {})
    /\ \A f \in Fds : open_files'[f] \in {NULL, open_files[f]}

\* A mutex is held by a call that refers to the description, or that closes an fd
\* while the table has the description.
LEMMA HeldReferenced ==
    ASSUME TypeOK, NEW u \in Threads, ThreadInv(u), NEW d \in Descs, mutex[d] = u
    PROVE  \/ Owns(u, d) /\ pc[u] \in HoldsOne
           \/ /\ pc[u] \in HoldsAll \cup {"lock_epollfds"}
              /\ u \in readers
              /\ \E f \in Fds : open_files[f] = d
<1>1. d \in Held(u)
  BY DEF Held
<1>2. MutexInv(u) /\ LockInv(u)
  BY DEF ThreadInv
<1>3. pc[u] \in HoldsAll \cup {"lock_epollfds"} \/ pc[u] \in HoldsOne
  BY <1>1, <1>2 DEF MutexInv
<1>4. CASE pc[u] \in HoldsOne
  BY <1>1, <1>2, <1>4 DEF MutexInv, HoldsOne, Owns, OwnsDesc
<1>5. CASE pc[u] \in HoldsAll \cup {"lock_epollfds"}
  <2>1. u \in readers
    BY <1>2, <1>5 DEF LockInv, Reading, HoldsAll
  <2>2. d \in Installed \/ d \in Passed(u)
    BY <1>1, <1>2, <1>5 DEF MutexInv
  <2> QED
    BY <1>5, <2>1, <2>2 DEF Installed, Passed
<1> QED
  BY <1>3, <1>4, <1>5

\* The other threads keep what they rely on.
LEMMA OthersKeep ==
    ASSUME TableInv, NEW t \in Threads, RefCountExact', Moves(t), LockStep(t), TableStep(t),
           MutexStep(t), NodeStep(t), VtableStep(t), refcount' \in [Descs -> Nat],
           NEW u \in Threads \ {t}
    PROVE  ThreadInv(u)'
<1>0. /\ ThreadInv(u) /\ LockInv(u) /\ LocalInv(u) /\ KindInv(u) /\ MutexInv(u) /\ NodeInv(u)
      /\ ThreadInv(t) /\ HeapInv /\ TypeOK
  BY DEF TableInv, ThreadInv
<1>1. pc'[u] = pc[u] /\ loc'[u] = loc[u]
  BY DEF Moves
<1>2. LockInv(u)'
  BY <1>0, <1>1 DEF LockInv, LockStep, TypeOK, Writing
<1>3. pc[u] \in Reading \cup Writing => open_files' = open_files
  BY <1>0 DEF LockInv, TableStep
<1>4. \A d \in Descs : Refers(d)' => vtable'[d] = vtable[d] \/ (announced = t /\ vtable[d] = "none")
  BY ReferencedNext DEF VtableStep
<1>5. LocalInv(u)'
  BY <1>0, <1>1, <1>3 DEF LocalInv, Reading, Writing
<1>6. loc[u].desc \in Descs \cup {NULL} /\ loc[u].desc2 \in Descs \cup {NULL} /\ loc[u].fd \in Fds
  BY <1>0 DEF TypeOK, Locals
<1>7. KindInv(u)'
  <2>1. \A d \in Descs : Owns(u, d) => Refers(d)'
    BY <1>1 DEF Refers, Owns
  <2>2. \A d \in Descs : Owns2(u, d) => Refers(d)'
    BY <1>1 DEF Refers, Owns2
  <2>3. pc[u] = "created" => announced # t
    BY <1>0 DEF LockInv, Writing
  <2>4. pc[u] = "created" => vtable'[loc[u].desc] = "none"
    BY <1>0, <1>4, <1>6, <2>1, <2>3 DEF KindInv, LocalInv, Owns, OwnsDesc
  <2>5. pc[u] \in OwnsDesc \ {"created"} /\ loc[u].desc # NULL => vtable'[loc[u].desc] = vtable[loc[u].desc]
    BY <1>0, <1>4, <1>6, <2>1 DEF KindInv, Owns
  <2>6. pc[u] \in OwnsDesc2 /\ loc[u].desc2 # NULL => vtable'[loc[u].desc2] = vtable[loc[u].desc2]
    BY <1>0, <1>4, <1>6, <2>2 DEF KindInv, Owns2
  <2>7. pc[u] \in {"find2", "found2", "ctl_lock", "ctl"} => pc[u] \in OwnsDesc \ {"created"} /\ loc[u].desc # NULL
    BY <1>0 DEF OwnsDesc, LocalInv
  <2> QED
    BY <1>0, <1>1, <2>4, <2>5, <2>6, <2>7 DEF KindInv
<1>8. \A d \in Descs : (\E f \in Fds : open_files[f] = d) /\ pc[u] \in Reading => vtable'[d] = vtable[d]
  <2> SUFFICES ASSUME NEW d \in Descs, NEW f \in Fds, open_files[f] = d, pc[u] \in Reading
               PROVE  vtable'[d] = vtable[d]
    OBVIOUS
  <2>1. open_files'[f] = d
    BY <1>3
  <2>2. Refers(d)'
    BY <2>1 DEF Refers
  <2>3. vtable[d] # "none"
    BY <1>0 DEF HeapInv
  <2> QED
    BY <1>4, <2>2, <2>3
<1>9. pc[u] \in Reading => Installed' = Installed /\ Passed(u)' = Passed(u)
  BY <1>1, <1>3, <1>8 DEF Installed, Passed, IsEpollfd
<1>10. Held(u)' = Held(u)
  BY DEF Held, MutexStep
<1>11. MutexInv(u)'
  BY <1>0, <1>1, <1>9, <1>10 DEF MutexInv, HoldsAll, HoldsOne, Reading
<1>12. ASSUME NEW d \in Held(u), NEW f \in Fds, NEW e \in Descs \cup {NULL}
       PROVE  HasNode(d, f, e)' <=> HasNode(d, f, e)
  <2>1. d \in Descs /\ mutex[d] = u /\ u # t
    BY <1>12 DEF Held
  <2>2. \/ Owns(u, d) /\ pc[u] \in HoldsOne
        \/ /\ pc[u] \in HoldsAll \cup {"lock_epollfds"}
           /\ \E g \in Fds : open_files[g] = d
    BY <1>0, <2>1, HeldReferenced
  <2>5. refcount'[d] > 0
    <3>1. Refers(d)'
      <4>1. CASE Owns(u, d)
        BY <1>1, <4>1 DEF Refers, Owns
      <4>2. CASE pc[u] \in HoldsAll \cup {"lock_epollfds"} /\ \E g \in Fds : open_files[g] = d
        BY <1>3, <4>2 DEF Refers, HoldsAll, Reading
      <4> QED
        BY <2>2, <4>1, <4>2
    <3> QED
      BY <2>1, <3>1, ReferencedNext
  <2> QED
    BY <2>1, <2>5 DEF NodeStep
<1>13. NodeInv(u)'
  <2>1. pc[u] = "in_use" => loc[u].desc \in Held(u)
    BY <1>0 DEF MutexInv, HoldsOne
  <2>2. pc[u] \in {"unref_closed", "real_close"} => Installed = Held(u) /\ Installed' = Installed
    BY <1>0, <1>9 DEF MutexInv, HoldsAll, Reading
  <2>3. (pc[u] = "in_use" /\ loc[u].desc2 # NULL => \E f \in Fds : HasNode(loc[u].desc, f, loc[u].desc2))'
    BY <1>0, <1>1, <1>6, <1>12, <2>1 DEF NodeInv
  <2>4. (pc[u] \in {"unref_closed", "real_close"} =>
           \A d \in Installed : \A e \in Descs \cup {NULL} : ~HasNode(d, loc[u].fd, e))'
    BY <1>0, <1>1, <1>6, <1>12, <2>2 DEF NodeInv
  <2> QED
    BY <2>3, <2>4 DEF NodeInv
<1> QED
  BY <1>2, <1>5, <1>7, <1>11, <1>13 DEF ThreadInv

\* Where the heap only shrinks, kinds stay and the instances keep fresh nodes only.
LEMMA ShrinkSafe ==
    ASSUME TableInv, NEW t, TypeOK', RefCountExact', HeapShrinks
    PROVE  HeapInv' /\ ClosedFdsLeaveEpoll' /\ VtableStep(t)
<1>0. TypeOK /\ HeapInv /\ ClosedFdsLeaveEpoll
  BY DEF TableInv
<1>1. \A d \in Descs : Refers(d)' => vtable'[d] = vtable[d]
  <2> SUFFICES ASSUME NEW d \in Descs, Refers(d)' PROVE vtable'[d] = vtable[d]
    OBVIOUS
  <2>1. refcount'[d] > 0
    BY ReferencedNext
  <2> QED
    BY <2>1 DEF HeapShrinks
<1>2. \A f \in Fds : open_files'[f] # NULL =>
        open_files'[f] = open_files[f] /\ open_files[f] \in Descs /\ vtable'[open_files[f]] = vtable[open_files[f]]
  <2> SUFFICES ASSUME NEW f \in Fds, open_files'[f] # NULL
               PROVE  /\ open_files'[f] = open_files[f] /\ open_files[f] \in Descs
                      /\ vtable'[open_files[f]] = vtable[open_files[f]]
    OBVIOUS
  <2>1. open_files'[f] = open_files[f] /\ open_files[f] \in Descs
    BY <1>0 DEF HeapShrinks, TypeOK
  <2>2. Refers(open_files[f])'
    BY <2>1 DEF Refers
  <2> QED
    BY <1>1, <2>1, <2>2
<1>3. ASSUME NEW d \in Descs, NEW n \in nodes'[d], n.desc # NULL
      PROVE  vtable'[n.desc] = "pollable"
  <2>1. n \in nodes[d] /\ n \in Node
    BY <1>0 DEF HeapShrinks, TypeOK
  <2>2. n.desc \in Descs /\ n.fd \in Fds
    BY <1>3, <2>1 DEF Node
  <2>3. HasNode(d, n.fd, n.desc)'
    BY <1>3 DEF HasNode
  <2>4. Refers(n.desc)'
    BY <2>2, <2>3 DEF Refers
  <2> QED
    BY <1>0, <1>1, <1>3, <2>1, <2>2, <2>4 DEF HeapInv
<1>4. \A d \in Descs : nodes'[d] # {} => vtable'[d] = "epoll"
  BY <1>0 DEF HeapInv, HeapShrinks
<1>5. HeapInv'
  BY <1>0, <1>2, <1>3, <1>4 DEF HeapInv, HeapShrinks
<1>6. Installed' \subseteq Installed
  BY <1>2 DEF Installed, IsEpollfd
<1>7. ClosedFdsLeaveEpoll'
  <2>1. \A d \in Installed' : d \in Installed /\ nodes'[d] \subseteq nodes[d]
    BY <1>6 DEF HeapShrinks, Installed
  <2> QED
    BY <1>0, <2>1 DEF ClosedFdsLeaveEpoll
<1>8. VtableStep(t)
  BY DEF HeapShrinks, VtableStep
<1> QED
  BY <1>5, <1>7, <1>8

\* A step that shrinks the heap.
LEMMA ShrinkKeeps ==
    ASSUME TableInv, NEW t \in Threads, TypeOK', RefCountExact', HeapShrinks, Moves(t), LockStep(t),
           TableStep(t), MutexStep(t), NodeStep(t), ThreadInv(t)'
    PROVE  TableInv'
<1>1. HeapInv' /\ ClosedFdsLeaveEpoll' /\ VtableStep(t)
  BY ShrinkSafe
<1>2. \A u \in Threads \ {t} : ThreadInv(u)'
  BY <1>1, OthersKeep DEF TypeOK
<1> QED
  BY <1>1, <1>2 DEF TableInv

\* A step that leaves the heap and the table alone.
LEMMA CalmKeeps ==
    ASSUME TableInv, NEW t \in Threads, TypeOK', Moves(t), LockStep(t), MutexStep(t),
           UNCHANGED <<open_files, refcount, vtable, nodes>>,
           \A e \in Descs : (Owns(t, e)' <=> Owns(t, e)) /\ (Owns2(t, e)' <=> Owns2(t, e)),
           ThreadInv(t)'
    PROVE  TableInv'
<1>0. TypeOK /\ HeapInv /\ RefCountExact
  BY DEF TableInv
<1>1. RefCountExact'
  <2> SUFFICES ASSUME NEW e \in Descs
               PROVE  refcount'[e] = SlotRefs(e)' + NodeRefs(Descs, Fds, e)' + ThreadRefs(e)'
    BY DEF RefCountExact
  <2>1. SlotRefs(e)' = SlotRefs(e) /\ NodeRefs(Descs, Fds, e)' = NodeRefs(Descs, Fds, e)
    BY DEF SlotRefs, NodeRefs
  <2>2. ThreadRefs(e)' + One(Owns(t, e)) + One(Owns2(t, e)) = ThreadRefs(e) + One(Owns(t, e)') + One(Owns2(t, e)')
    BY ThreadRefsMove DEF Moves
  <2>3. One(Owns(t, e)') = One(Owns(t, e)) /\ One(Owns2(t, e)') = One(Owns2(t, e))
    BY DEF One
  <2>4. One(Owns(t, e)) \in Nat /\ One(Owns2(t, e)) \in Nat
    BY DEF One
  <2>5. ThreadRefs(e)' = ThreadRefs(e)
    BY <2>2, <2>3, <2>4, RefsType
  <2> QED
    BY <1>0, <2>1, <2>5 DEF RefCountExact
<1>2. HeapShrinks
  BY <1>0 DEF HeapShrinks, HeapInv
<1>3. TableStep(t) /\ NodeStep(t)
  BY DEF TableStep, NodeStep, HasNode
<1> QED
  BY <1>1, <1>2, <1>3, ShrinkKeeps
-----------------------------------------------------------------------------
(* Steps that change neither the heap nor a mutex *)

\* Thread t moves to control state to with local variables new.
LEMMA MoveTo ==
    ASSUME TypeOK, NEW t \in Threads, NEW to \in Locations, NEW new \in Locals,
           pc' = [pc EXCEPT ![t] = to], loc' = [loc EXCEPT ![t] = new]
    PROVE  /\ Moves(t) /\ pc'[t] = to /\ loc'[t] = new
           /\ pc' \in [Threads -> Locations] /\ loc' \in [Threads -> Locals]
BY DEF TypeOK, Moves

\* The same, field by field of the local variables.
LEMMA LocalsType ==
    ASSUME TypeOK, NEW t \in Threads
    PROVE  /\ loc[t] \in Locals /\ pc[t] \in Locations
           /\ loc[t].fd \in Fds /\ loc[t].fd2 \in Fds /\ loc[t].cur \in 0 .. NFds
           /\ loc[t].desc \in Descs \cup {NULL} /\ loc[t].desc2 \in Descs \cup {NULL}
           /\ loc[t].op \in {"none", "ADD", "MOD", "DEL"}
           /\ loc = [loc EXCEPT ![t] = loc[t]]
           /\ NoLocals \in Locals
BY DEF TypeOK, Locals, NoLocals, Fds

\* Thread t, which holds no mutex, changes its control state and the lock.
LEMMA QuietKeeps ==
    ASSUME TableInv, NEW t \in Threads, TypeOK', Moves(t), LockStep(t),
           UNCHANGED <<open_files, refcount, vtable, nodes, mutex>>,
           \A e \in Descs : (Owns(t, e)' <=> Owns(t, e)) /\ (Owns2(t, e)' <=> Owns2(t, e)),
           pc[t] \notin HoldsAll \cup HoldsOne \cup {"lock_epollfds"},
           pc'[t] \notin HoldsAll \cup HoldsOne \cup {"lock_epollfds"},
           LockInv(t)', LocalInv(t)', KindInv(t)'
    PROVE  TableInv'
<1>1. MutexInv(t)
  BY DEF TableInv, ThreadInv
<1>2. Held(t)' = {}
  BY <1>1 DEF MutexInv, Held
<1>3. MutexInv(t)' /\ NodeInv(t)'
  BY <1>2 DEF MutexInv, NodeInv, HoldsAll, HoldsOne
<1>4. MutexStep(t)
  BY DEF MutexStep
<1>5. ThreadInv(t)'
  BY <1>3 DEF ThreadInv
<1> QED
  BY <1>4, <1>5, CalmKeeps

\* A creation waits for the write lock.
LEMMA CreateAnnounceSafe ==
    ASSUME TableInv, NEW t \in Threads, CreateAnnounce(t)
    PROVE  TableInv'
<1>0. TypeOK /\ HeapInv /\ LockInv(t) /\ LocalInv(t) /\ KindInv(t)
  BY DEF TableInv, ThreadInv
<1> DEFINE new == loc[t]
<1>1. new \in Locals
  BY <1>0, LocalsType DEF Locals, NoLocals, TypeOK, Fds
<1>2. pc[t] = "create" /\ pc' = [pc EXCEPT ![t] = "create_wr"] /\ loc' = [loc EXCEPT ![t] = new]
  BY <1>0, LocalsType DEF CreateAnnounce, Goto, Announce
<1>3. new.desc = loc[t].desc /\ new.desc2 = loc[t].desc2 /\ new.fd = loc[t].fd /\ new.fd2 = loc[t].fd2 /\ new.cur = loc[t].cur
  BY <1>0, LocalsType DEF NoLocals, TypeOK
<1> HIDE DEF new
<1>4. "create_wr" \in Locations
  BY DEF Locations
<1>5. /\ Moves(t) /\ pc'[t] = "create_wr" /\ loc'[t] = new
      /\ pc' \in [Threads -> Locations] /\ loc' \in [Threads -> Locals]
  BY <1>0, <1>1, <1>2, <1>4, MoveTo
<1>6. TypeOK'
  BY <1>0, <1>5 DEF TypeOK, CreateAnnounce, Goto, Announce
<1>7. LockStep(t) /\ LockInv(t)'
  BY <1>0, <1>2, <1>5 DEF LockInv, LockStep, Reading, Writing, TypeOK, CreateAnnounce, Goto, Announce
<1>8. \A e \in Descs : (Owns(t, e)' <=> Owns(t, e)) /\ (Owns2(t, e)' <=> Owns2(t, e))
  BY <1>0, <1>2, <1>3, <1>5 DEF Owns, Owns2, OwnsDesc, OwnsDesc2, LocalInv
<1>9. UNCHANGED <<open_files, refcount, vtable, nodes, mutex>>
  BY <1>0 DEF TypeOK, CreateAnnounce, Goto, Announce
<1>10. LocalInv(t)' /\ KindInv(t)'
  BY <1>0, <1>2, <1>3, <1>5, <1>9 DEF LocalInv, KindInv, OwnsDesc, OwnsDesc2
<1> QED
  BY <1>2, <1>5, <1>6, <1>7, <1>8, <1>9, <1>10, QuietKeeps DEF HoldsAll, HoldsOne

\* A creation without a kqueue.
LEMMA CreateKqueueFailsSafe ==
    ASSUME TableInv, NEW t \in Threads, CreateKqueueFails(t)
    PROVE  TableInv'
<1>0. TypeOK /\ HeapInv /\ LockInv(t) /\ LocalInv(t) /\ KindInv(t)
  BY DEF TableInv, ThreadInv
<1> DEFINE new == NoLocals
<1>1. new \in Locals
  BY <1>0, LocalsType DEF Locals, NoLocals, TypeOK, Fds
<1>2. pc[t] = "create_wr" /\ pc' = [pc EXCEPT ![t] = "idle"] /\ loc' = [loc EXCEPT ![t] = new]
  BY <1>0, LocalsType DEF CreateKqueueFails, Return, Goto, WriteLocked, UnlockWrite
<1>3. new.desc = NULL /\ new.desc2 = NULL /\ new.cur = 0
  BY <1>0, LocalsType DEF NoLocals, TypeOK
<1> HIDE DEF new
<1>4. "idle" \in Locations
  BY DEF Locations
<1>5. /\ Moves(t) /\ pc'[t] = "idle" /\ loc'[t] = new
      /\ pc' \in [Threads -> Locations] /\ loc' \in [Threads -> Locals]
  BY <1>0, <1>1, <1>2, <1>4, MoveTo
<1>6. TypeOK'
  BY <1>0, <1>5 DEF TypeOK, CreateKqueueFails, Return, Goto, WriteLocked, UnlockWrite
<1>7. LockStep(t) /\ LockInv(t)'
  BY <1>0, <1>2, <1>5 DEF LockInv, LockStep, Reading, Writing, TypeOK, CreateKqueueFails, Return, Goto, WriteLocked, UnlockWrite
<1>8. \A e \in Descs : (Owns(t, e)' <=> Owns(t, e)) /\ (Owns2(t, e)' <=> Owns2(t, e))
  BY <1>0, <1>2, <1>3, <1>5 DEF Owns, Owns2, OwnsDesc, OwnsDesc2, LocalInv
<1>9. UNCHANGED <<open_files, refcount, vtable, nodes, mutex>>
  BY <1>0 DEF TypeOK, CreateKqueueFails, Return, Goto, WriteLocked, UnlockWrite
<1>10. LocalInv(t)' /\ KindInv(t)'
  BY <1>0, <1>2, <1>3, <1>5, <1>9 DEF LocalInv, KindInv, OwnsDesc, OwnsDesc2
<1> QED
  BY <1>2, <1>5, <1>6, <1>7, <1>8, <1>9, <1>10, QuietKeeps DEF HoldsAll, HoldsOne

\* A creation without memory.
LEMMA CreateDescFailsSafe ==
    ASSUME TableInv, NEW t \in Threads, CreateDescFails(t)
    PROVE  TableInv'
<1>0. TypeOK /\ HeapInv /\ LockInv(t) /\ LocalInv(t) /\ KindInv(t)
  BY DEF TableInv, ThreadInv
<1> DEFINE new == NoLocals
<1>1. new \in Locals
  BY <1>0, LocalsType DEF Locals, NoLocals, TypeOK, Fds
<1>2. pc[t] = "create_desc" /\ pc' = [pc EXCEPT ![t] = "idle"] /\ loc' = [loc EXCEPT ![t] = new]
  BY <1>0, LocalsType DEF CreateDescFails, Return, Goto, UnlockWrite, KernelClose
<1>3. new.desc = NULL /\ new.desc2 = NULL /\ new.cur = 0
  BY <1>0, LocalsType DEF NoLocals, TypeOK
<1> HIDE DEF new
<1>4. "idle" \in Locations
  BY DEF Locations
<1>5. /\ Moves(t) /\ pc'[t] = "idle" /\ loc'[t] = new
      /\ pc' \in [Threads -> Locations] /\ loc' \in [Threads -> Locals]
  BY <1>0, <1>1, <1>2, <1>4, MoveTo
<1>6. TypeOK'
  BY <1>0, <1>5 DEF TypeOK, CreateDescFails, Return, Goto, UnlockWrite, KernelClose
<1>7. LockStep(t) /\ LockInv(t)'
  BY <1>0, <1>2, <1>5 DEF LockInv, LockStep, Reading, Writing, TypeOK, CreateDescFails, Return, Goto, UnlockWrite, KernelClose
<1>8. \A e \in Descs : (Owns(t, e)' <=> Owns(t, e)) /\ (Owns2(t, e)' <=> Owns2(t, e))
  BY <1>0, <1>2, <1>3, <1>5 DEF Owns, Owns2, OwnsDesc, OwnsDesc2, LocalInv
<1>9. UNCHANGED <<open_files, refcount, vtable, nodes, mutex>>
  BY <1>0 DEF TypeOK, CreateDescFails, Return, Goto, UnlockWrite, KernelClose
<1>10. LocalInv(t)' /\ KindInv(t)'
  BY <1>0, <1>2, <1>3, <1>5, <1>9 DEF LocalInv, KindInv, OwnsDesc, OwnsDesc2
<1> QED
  BY <1>2, <1>5, <1>6, <1>7, <1>8, <1>9, <1>10, QuietKeeps DEF HoldsAll, HoldsOne

\* The end of a creation that failed.
LEMMA DropCloseSafe ==
    ASSUME TableInv, NEW t \in Threads, DropClose(t)
    PROVE  TableInv'
<1>0. TypeOK /\ HeapInv /\ LockInv(t) /\ LocalInv(t) /\ KindInv(t)
  BY DEF TableInv, ThreadInv
<1> DEFINE new == NoLocals
<1>1. new \in Locals
  BY <1>0, LocalsType DEF Locals, NoLocals, TypeOK, Fds
<1>2. pc[t] = "drop_close" /\ pc' = [pc EXCEPT ![t] = "idle"] /\ loc' = [loc EXCEPT ![t] = new]
  BY <1>0, LocalsType DEF DropClose, Return, Goto, UnlockWrite, KernelClose
<1>3. new.desc = NULL /\ new.desc2 = NULL /\ new.cur = 0
  BY <1>0, LocalsType DEF NoLocals, TypeOK
<1> HIDE DEF new
<1>4. "idle" \in Locations
  BY DEF Locations
<1>5. /\ Moves(t) /\ pc'[t] = "idle" /\ loc'[t] = new
      /\ pc' \in [Threads -> Locations] /\ loc' \in [Threads -> Locals]
  BY <1>0, <1>1, <1>2, <1>4, MoveTo
<1>6. TypeOK'
  BY <1>0, <1>5 DEF TypeOK, DropClose, Return, Goto, UnlockWrite, KernelClose
<1>7. LockStep(t) /\ LockInv(t)'
  BY <1>0, <1>2, <1>5 DEF LockInv, LockStep, Reading, Writing, TypeOK, DropClose, Return, Goto, UnlockWrite, KernelClose
<1>8. \A e \in Descs : (Owns(t, e)' <=> Owns(t, e)) /\ (Owns2(t, e)' <=> Owns2(t, e))
  BY <1>0, <1>2, <1>3, <1>5 DEF Owns, Owns2, OwnsDesc, OwnsDesc2, LocalInv
<1>9. UNCHANGED <<open_files, refcount, vtable, nodes, mutex>>
  BY <1>0 DEF TypeOK, DropClose, Return, Goto, UnlockWrite, KernelClose
<1>10. LocalInv(t)' /\ KindInv(t)'
  BY <1>0, <1>2, <1>3, <1>5, <1>9 DEF LocalInv, KindInv, OwnsDesc, OwnsDesc2
<1> QED
  BY <1>2, <1>5, <1>6, <1>7, <1>8, <1>9, <1>10, QuietKeeps DEF HoldsAll, HoldsOne

\* A close waits for the write lock.
LEMMA CloseAnnounceSafe ==
    ASSUME TableInv, NEW t \in Threads, CloseAnnounce(t)
    PROVE  TableInv'
<1>0. TypeOK /\ HeapInv /\ LockInv(t) /\ LocalInv(t) /\ KindInv(t)
  BY DEF TableInv, ThreadInv
<1> DEFINE new == loc[t]
<1>1. new \in Locals
  BY <1>0, LocalsType DEF Locals, NoLocals, TypeOK, Fds
<1>2. pc[t] = "close" /\ pc' = [pc EXCEPT ![t] = "close_wr"] /\ loc' = [loc EXCEPT ![t] = new]
  BY <1>0, LocalsType DEF CloseAnnounce, Goto, Announce
<1>3. new.desc = loc[t].desc /\ new.desc2 = loc[t].desc2 /\ new.fd = loc[t].fd /\ new.fd2 = loc[t].fd2 /\ new.cur = loc[t].cur
  BY <1>0, LocalsType DEF NoLocals, TypeOK
<1> HIDE DEF new
<1>4. "close_wr" \in Locations
  BY DEF Locations
<1>5. /\ Moves(t) /\ pc'[t] = "close_wr" /\ loc'[t] = new
      /\ pc' \in [Threads -> Locations] /\ loc' \in [Threads -> Locals]
  BY <1>0, <1>1, <1>2, <1>4, MoveTo
<1>6. TypeOK'
  BY <1>0, <1>5 DEF TypeOK, CloseAnnounce, Goto, Announce
<1>7. LockStep(t) /\ LockInv(t)'
  BY <1>0, <1>2, <1>5 DEF LockInv, LockStep, Reading, Writing, TypeOK, CloseAnnounce, Goto, Announce
<1>8. \A e \in Descs : (Owns(t, e)' <=> Owns(t, e)) /\ (Owns2(t, e)' <=> Owns2(t, e))
  BY <1>0, <1>2, <1>3, <1>5 DEF Owns, Owns2, OwnsDesc, OwnsDesc2, LocalInv
<1>9. UNCHANGED <<open_files, refcount, vtable, nodes, mutex>>
  BY <1>0 DEF TypeOK, CloseAnnounce, Goto, Announce
<1>10. LocalInv(t)' /\ KindInv(t)'
  BY <1>0, <1>2, <1>3, <1>5, <1>9 DEF LocalInv, KindInv, OwnsDesc, OwnsDesc2
<1> QED
  BY <1>2, <1>5, <1>6, <1>7, <1>8, <1>9, <1>10, QuietKeeps DEF HoldsAll, HoldsOne

\* A call looks its fd up.
LEMMA FindSafe ==
    ASSUME TableInv, NEW t \in Threads, Find(t)
    PROVE  TableInv'
<1>0. TypeOK /\ HeapInv /\ LockInv(t) /\ LocalInv(t) /\ KindInv(t)
  BY DEF TableInv, ThreadInv
<1> DEFINE new == [loc[t] EXCEPT !.desc = open_files[loc[t].fd]]
<1>1. new \in Locals
  BY <1>0, LocalsType DEF Locals, NoLocals, TypeOK, Fds
<1>2. pc[t] = "find" /\ pc' = [pc EXCEPT ![t] = "found"] /\ loc' = [loc EXCEPT ![t] = new]
  BY <1>0, LocalsType DEF Find, Lookup, Goto, LockRead
<1>3. /\ new.desc = open_files[loc[t].fd] /\ new.desc2 = loc[t].desc2
      /\ new.fd = loc[t].fd /\ new.fd2 = loc[t].fd2 /\ new.cur = loc[t].cur
  BY <1>0, LocalsType DEF NoLocals, TypeOK
<1> HIDE DEF new
<1>4. "found" \in Locations
  BY DEF Locations
<1>5. /\ Moves(t) /\ pc'[t] = "found" /\ loc'[t] = new
      /\ pc' \in [Threads -> Locations] /\ loc' \in [Threads -> Locals]
  BY <1>0, <1>1, <1>2, <1>4, MoveTo
<1>6. TypeOK'
  BY <1>0, <1>5 DEF TypeOK, Find, Lookup, Goto, LockRead
<1>7. LockStep(t) /\ LockInv(t)'
  BY <1>0, <1>2, <1>5 DEF LockInv, LockStep, Reading, Writing, TypeOK, Find, Lookup, Goto, LockRead
<1>8. \A e \in Descs : (Owns(t, e)' <=> Owns(t, e)) /\ (Owns2(t, e)' <=> Owns2(t, e))
  BY <1>0, <1>2, <1>3, <1>5 DEF Owns, Owns2, OwnsDesc, OwnsDesc2, LocalInv
<1>9. UNCHANGED <<open_files, refcount, vtable, nodes, mutex>>
  BY <1>0 DEF TypeOK, Find, Lookup, Goto, LockRead
<1>10. LocalInv(t)' /\ KindInv(t)'
  BY <1>0, <1>2, <1>3, <1>5, <1>9 DEF LocalInv, KindInv, OwnsDesc, OwnsDesc2
<1> QED
  BY <1>2, <1>5, <1>6, <1>7, <1>8, <1>9, <1>10, QuietKeeps DEF HoldsAll, HoldsOne

\* epoll_ctl looks the fd to add up.
LEMMA Find2Safe ==
    ASSUME TableInv, NEW t \in Threads, Find2(t)
    PROVE  TableInv'
<1>0. TypeOK /\ HeapInv /\ LockInv(t) /\ LocalInv(t) /\ KindInv(t)
  BY DEF TableInv, ThreadInv
<1> DEFINE new == [loc[t] EXCEPT !.desc2 = open_files[loc[t].fd2]]
<1>1. new \in Locals
  BY <1>0, LocalsType DEF Locals, NoLocals, TypeOK, Fds
<1>2. pc[t] = "find2" /\ pc' = [pc EXCEPT ![t] = "found2"] /\ loc' = [loc EXCEPT ![t] = new]
  BY <1>0, LocalsType DEF Find2, Lookup, Goto, LockRead
<1>3. /\ new.desc2 = open_files[loc[t].fd2] /\ new.desc = loc[t].desc
      /\ new.fd = loc[t].fd /\ new.fd2 = loc[t].fd2 /\ new.cur = loc[t].cur
  BY <1>0, LocalsType DEF NoLocals, TypeOK
<1> HIDE DEF new
<1>4. "found2" \in Locations
  BY DEF Locations
<1>5. /\ Moves(t) /\ pc'[t] = "found2" /\ loc'[t] = new
      /\ pc' \in [Threads -> Locations] /\ loc' \in [Threads -> Locals]
  BY <1>0, <1>1, <1>2, <1>4, MoveTo
<1>6. TypeOK'
  BY <1>0, <1>5 DEF TypeOK, Find2, Lookup, Goto, LockRead
<1>7. LockStep(t) /\ LockInv(t)'
  BY <1>0, <1>2, <1>5 DEF LockInv, LockStep, Reading, Writing, TypeOK, Find2, Lookup, Goto, LockRead
<1>8. \A e \in Descs : (Owns(t, e)' <=> Owns(t, e)) /\ (Owns2(t, e)' <=> Owns2(t, e))
  BY <1>0, <1>2, <1>3, <1>5 DEF Owns, Owns2, OwnsDesc, OwnsDesc2, LocalInv
<1>9. UNCHANGED <<open_files, refcount, vtable, nodes, mutex>>
  BY <1>0 DEF TypeOK, Find2, Lookup, Goto, LockRead
<1>10. LocalInv(t)' /\ KindInv(t)'
  BY <1>0, <1>2, <1>3, <1>5, <1>9 DEF LocalInv, KindInv, OwnsDesc, OwnsDesc2
<1> QED
  BY <1>2, <1>5, <1>6, <1>7, <1>8, <1>9, <1>10, QuietKeeps DEF HoldsAll, HoldsOne

\* The fd has no description.
LEMMA FindNothingSafe ==
    ASSUME TableInv, NEW t \in Threads, FindNothing(t)
    PROVE  TableInv'
<1>0. TypeOK /\ HeapInv /\ LockInv(t) /\ LocalInv(t) /\ KindInv(t)
  BY DEF TableInv, ThreadInv
<1> DEFINE new == NoLocals
<1>1. new \in Locals
  BY <1>0, LocalsType DEF Locals, NoLocals, TypeOK, Fds
<1>2. pc[t] = "found" /\ pc' = [pc EXCEPT ![t] = "idle"] /\ loc' = [loc EXCEPT ![t] = new]
  BY <1>0, LocalsType DEF FindNothing, Return, Goto, UnlockRead
<1>3. new.desc = NULL /\ new.desc2 = NULL /\ new.cur = 0
  BY <1>0, LocalsType DEF NoLocals, TypeOK
<1> HIDE DEF new
<1>4. "idle" \in Locations
  BY DEF Locations
<1>5. /\ Moves(t) /\ pc'[t] = "idle" /\ loc'[t] = new
      /\ pc' \in [Threads -> Locations] /\ loc' \in [Threads -> Locals]
  BY <1>0, <1>1, <1>2, <1>4, MoveTo
<1>6. TypeOK'
  BY <1>0, <1>5 DEF TypeOK, FindNothing, Return, Goto, UnlockRead
<1>7. LockStep(t) /\ LockInv(t)'
  BY <1>0, <1>2, <1>5 DEF LockInv, LockStep, Reading, Writing, TypeOK, FindNothing, Return, Goto, UnlockRead
<1>8. \A e \in Descs : (Owns(t, e)' <=> Owns(t, e)) /\ (Owns2(t, e)' <=> Owns2(t, e))
  BY <1>0, <1>2, <1>3, <1>5 DEF Owns, Owns2, OwnsDesc, OwnsDesc2, LocalInv
<1>9. UNCHANGED <<open_files, refcount, vtable, nodes, mutex>>
  BY <1>0 DEF TypeOK, FindNothing, Return, Goto, UnlockRead
<1>10. LocalInv(t)' /\ KindInv(t)'
  BY <1>0, <1>2, <1>3, <1>5, <1>9 DEF LocalInv, KindInv, OwnsDesc, OwnsDesc2
<1> QED
  BY <1>2, <1>5, <1>6, <1>7, <1>8, <1>9, <1>10, QuietKeeps DEF HoldsAll, HoldsOne

\* The fd to add has no description.
LEMMA Found2NothingSafe ==
    ASSUME TableInv, NEW t \in Threads, Found2(t), loc[t].desc2 = NULL
    PROVE  TableInv'
<1>0. TypeOK /\ HeapInv /\ LockInv(t) /\ LocalInv(t) /\ KindInv(t)
  BY DEF TableInv, ThreadInv
<1> DEFINE new == loc[t]
<1>1. new \in Locals
  BY <1>0, LocalsType DEF Locals, NoLocals, TypeOK, Fds
<1>2. pc[t] = "found2" /\ pc' = [pc EXCEPT ![t] = "ctl_lock"] /\ loc' = [loc EXCEPT ![t] = new]
  BY <1>0, LocalsType DEF Found2, Goto, UnlockRead
<1>3. new.desc = loc[t].desc /\ new.desc2 = loc[t].desc2 /\ new.fd = loc[t].fd /\ new.fd2 = loc[t].fd2 /\ new.cur = loc[t].cur
  BY <1>0, LocalsType DEF NoLocals, TypeOK
<1> HIDE DEF new
<1>4. "ctl_lock" \in Locations
  BY DEF Locations
<1>5. /\ Moves(t) /\ pc'[t] = "ctl_lock" /\ loc'[t] = new
      /\ pc' \in [Threads -> Locations] /\ loc' \in [Threads -> Locals]
  BY <1>0, <1>1, <1>2, <1>4, MoveTo
<1>6. TypeOK'
  BY <1>0, <1>5 DEF TypeOK, Found2, Goto, UnlockRead
<1>7. LockStep(t) /\ LockInv(t)'
  BY <1>0, <1>2, <1>5 DEF LockInv, LockStep, Reading, Writing, TypeOK, Found2, Goto, UnlockRead
<1>8. \A e \in Descs : (Owns(t, e)' <=> Owns(t, e)) /\ (Owns2(t, e)' <=> Owns2(t, e))
  BY <1>0, <1>2, <1>3, <1>5 DEF Owns, Owns2, OwnsDesc, OwnsDesc2, LocalInv
<1>9. UNCHANGED <<open_files, refcount, vtable, nodes, mutex>>
  BY <1>0 DEF TypeOK, Found2, Goto, UnlockRead
<1>10. LocalInv(t)' /\ KindInv(t)'
  BY <1>0, <1>2, <1>3, <1>5, <1>9 DEF LocalInv, KindInv, OwnsDesc, OwnsDesc2
<1> QED
  BY <1>2, <1>5, <1>6, <1>7, <1>8, <1>9, <1>10, QuietKeeps DEF HoldsAll, HoldsOne

\* A walk takes the read lock.
LEMMA WalkLockSafe ==
    ASSUME TableInv, NEW t \in Threads, WalkLock(t)
    PROVE  TableInv'
<1>0. TypeOK /\ HeapInv /\ LockInv(t) /\ LocalInv(t) /\ KindInv(t)
  BY DEF TableInv, ThreadInv
<1> DEFINE new == loc[t]
<1>1. new \in Locals
  BY <1>0, LocalsType DEF Locals, NoLocals, TypeOK, Fds
<1>2. pc[t] = "walk" /\ pc' = [pc EXCEPT ![t] = "walking"] /\ loc' = [loc EXCEPT ![t] = new]
  BY <1>0, LocalsType DEF WalkLock, Goto, LockRead
<1>3. new.desc = loc[t].desc /\ new.desc2 = loc[t].desc2 /\ new.fd = loc[t].fd /\ new.fd2 = loc[t].fd2 /\ new.cur = loc[t].cur
  BY <1>0, LocalsType DEF NoLocals, TypeOK
<1> HIDE DEF new
<1>4. "walking" \in Locations
  BY DEF Locations
<1>5. /\ Moves(t) /\ pc'[t] = "walking" /\ loc'[t] = new
      /\ pc' \in [Threads -> Locations] /\ loc' \in [Threads -> Locals]
  BY <1>0, <1>1, <1>2, <1>4, MoveTo
<1>6. TypeOK'
  BY <1>0, <1>5 DEF TypeOK, WalkLock, Goto, LockRead
<1>7. LockStep(t) /\ LockInv(t)'
  BY <1>0, <1>2, <1>5 DEF LockInv, LockStep, Reading, Writing, TypeOK, WalkLock, Goto, LockRead
<1>8. \A e \in Descs : (Owns(t, e)' <=> Owns(t, e)) /\ (Owns2(t, e)' <=> Owns2(t, e))
  BY <1>0, <1>2, <1>3, <1>5 DEF Owns, Owns2, OwnsDesc, OwnsDesc2, LocalInv
<1>9. UNCHANGED <<open_files, refcount, vtable, nodes, mutex>>
  BY <1>0 DEF TypeOK, WalkLock, Goto, LockRead
<1>10. LocalInv(t)' /\ KindInv(t)'
  BY <1>0, <1>2, <1>3, <1>5, <1>9 DEF LocalInv, KindInv, OwnsDesc, OwnsDesc2
<1> QED
  BY <1>2, <1>5, <1>6, <1>7, <1>8, <1>9, <1>10, QuietKeeps DEF HoldsAll, HoldsOne

\* A walk ends.
LEMMA WalkEndSafe ==
    ASSUME TableInv, NEW t \in Threads, WalkEnd(t)
    PROVE  TableInv'
<1>0. TypeOK /\ HeapInv /\ LockInv(t) /\ LocalInv(t) /\ KindInv(t)
  BY DEF TableInv, ThreadInv
<1> DEFINE new == NoLocals
<1>1. new \in Locals
  BY <1>0, LocalsType DEF Locals, NoLocals, TypeOK, Fds
<1>2. pc[t] = "walking" /\ pc' = [pc EXCEPT ![t] = "idle"] /\ loc' = [loc EXCEPT ![t] = new]
  BY <1>0, LocalsType DEF WalkEnd, Return, Goto, UnlockRead
<1>3. new.desc = NULL /\ new.desc2 = NULL /\ new.cur = 0
  BY <1>0, LocalsType DEF NoLocals, TypeOK
<1> HIDE DEF new
<1>4. "idle" \in Locations
  BY DEF Locations
<1>5. /\ Moves(t) /\ pc'[t] = "idle" /\ loc'[t] = new
      /\ pc' \in [Threads -> Locations] /\ loc' \in [Threads -> Locals]
  BY <1>0, <1>1, <1>2, <1>4, MoveTo
<1>6. TypeOK'
  BY <1>0, <1>5 DEF TypeOK, WalkEnd, Return, Goto, UnlockRead
<1>7. LockStep(t) /\ LockInv(t)'
  BY <1>0, <1>2, <1>5 DEF LockInv, LockStep, Reading, Writing, TypeOK, WalkEnd, Return, Goto, UnlockRead
<1>8. \A e \in Descs : (Owns(t, e)' <=> Owns(t, e)) /\ (Owns2(t, e)' <=> Owns2(t, e))
  BY <1>0, <1>2, <1>3, <1>5 DEF Owns, Owns2, OwnsDesc, OwnsDesc2, LocalInv
<1>9. UNCHANGED <<open_files, refcount, vtable, nodes, mutex>>
  BY <1>0 DEF TypeOK, WalkEnd, Return, Goto, UnlockRead
<1>10. LocalInv(t)' /\ KindInv(t)'
  BY <1>0, <1>2, <1>3, <1>5, <1>9 DEF LocalInv, KindInv, OwnsDesc, OwnsDesc2
<1> QED
  BY <1>2, <1>5, <1>6, <1>7, <1>8, <1>9, <1>10, QuietKeeps DEF HoldsAll, HoldsOne

\* epoll_ctl has no second description to drop.
LEMMA DropRef2NothingSafe ==
    ASSUME TableInv, NEW t \in Threads, DropRef2(t), loc[t].desc2 = NULL
    PROVE  TableInv'
<1>0. TypeOK /\ HeapInv /\ LockInv(t) /\ LocalInv(t) /\ KindInv(t)
  BY DEF TableInv, ThreadInv
<1> DEFINE new == [loc[t] EXCEPT !.desc2 = NULL]
<1>1. new \in Locals
  BY <1>0, LocalsType DEF Locals, NoLocals, TypeOK, Fds
<1>2. pc[t] = "unref2" /\ pc' = [pc EXCEPT ![t] = "unref"] /\ loc' = [loc EXCEPT ![t] = new]
  BY <1>0, LocalsType DEF DropRef2, Goto
<1>3. new.desc2 = NULL /\ new.desc = loc[t].desc /\ new.fd = loc[t].fd /\ new.fd2 = loc[t].fd2 /\ new.cur = loc[t].cur
  BY <1>0, LocalsType DEF NoLocals, TypeOK
<1> HIDE DEF new
<1>4. "unref" \in Locations
  BY DEF Locations
<1>5. /\ Moves(t) /\ pc'[t] = "unref" /\ loc'[t] = new
      /\ pc' \in [Threads -> Locations] /\ loc' \in [Threads -> Locals]
  BY <1>0, <1>1, <1>2, <1>4, MoveTo
<1>6. TypeOK'
  BY <1>0, <1>5 DEF TypeOK, DropRef2, Goto
<1>7. LockStep(t) /\ LockInv(t)'
  BY <1>0, <1>2, <1>5 DEF LockInv, LockStep, Reading, Writing, TypeOK, DropRef2, Goto
<1>8. \A e \in Descs : (Owns(t, e)' <=> Owns(t, e)) /\ (Owns2(t, e)' <=> Owns2(t, e))
  BY <1>0, <1>2, <1>3, <1>5 DEF Owns, Owns2, OwnsDesc, OwnsDesc2, LocalInv
<1>9. UNCHANGED <<open_files, refcount, vtable, nodes, mutex>>
  BY <1>0 DEF TypeOK, DropRef2, Goto
<1>10. LocalInv(t)' /\ KindInv(t)'
  BY <1>0, <1>2, <1>3, <1>5, <1>9 DEF LocalInv, KindInv, OwnsDesc, OwnsDesc2
<1> QED
  BY <1>2, <1>5, <1>6, <1>7, <1>8, <1>9, <1>10, QuietKeeps DEF HoldsAll, HoldsOne

\* A thread makes a call; the calls differ in where they go and in their fds.
LEMMA StartCallSafe ==
    ASSUME TableInv, NEW t \in Threads, NEW call, NEW to \in {"create", "close", "find", "walk"},
           NEW new \in Locals, new.desc = NULL, new.desc2 = NULL, new.cur = 0,
           StartCall(t, call, to, new)
    PROVE  TableInv'
<1>0. TypeOK /\ HeapInv /\ LockInv(t) /\ LocalInv(t) /\ KindInv(t)
  BY DEF TableInv, ThreadInv
<1>1. pc[t] = "idle" /\ pc' = [pc EXCEPT ![t] = to] /\ loc' = [loc EXCEPT ![t] = new]
  BY DEF StartCall, Goto
<1>2. to \in Locations
  BY DEF Locations
<1>3. /\ Moves(t) /\ pc'[t] = to /\ loc'[t] = new
      /\ pc' \in [Threads -> Locations] /\ loc' \in [Threads -> Locals]
  BY <1>0, <1>1, <1>2, MoveTo
<1>4. calls' \in [Threads -> 0 .. MaxCalls]
  BY <1>0 DEF TypeOK, StartCall
<1>5. UNCHANGED <<announced, readers, open_files, refcount, vtable, mutex, nodes, kernel>>
  BY DEF StartCall
<1>6. TypeOK'
  BY <1>0, <1>3, <1>4, <1>5 DEF TypeOK
<1>7. LockStep(t) /\ LockInv(t)'
  BY <1>0, <1>1, <1>3, <1>5 DEF LockInv, LockStep, Reading, Writing
<1>8. \A e \in Descs : (Owns(t, e)' <=> Owns(t, e)) /\ (Owns2(t, e)' <=> Owns2(t, e))
  BY <1>1, <1>3 DEF Owns, Owns2, OwnsDesc, OwnsDesc2
<1>9. LocalInv(t)' /\ KindInv(t)'
  BY <1>3 DEF LocalInv, KindInv, OwnsDesc, OwnsDesc2
<1> QED
  BY <1>1, <1>3, <1>5, <1>6, <1>7, <1>8, <1>9, QuietKeeps DEF HoldsAll, HoldsOne

\* Every call starts with no description and at the beginning of the table.
LEMMA CallSafe ==
    ASSUME TableInv, NEW t \in Threads, Call(t)
    PROVE  TableInv'
<1>1. NoLocals \in Locals /\ NoLocals.desc = NULL /\ NoLocals.desc2 = NULL /\ NoLocals.cur = 0
  BY DEF NoLocals, Locals, Fds
<1>2. \A f \in Fds : LET l == [NoLocals EXCEPT !.fd = f]
                     IN  l \in Locals /\ l.desc = NULL /\ l.desc2 = NULL /\ l.cur = 0
  BY DEF NoLocals, Locals, Fds
<1>4. CASE CallCreate(t)
  BY <1>1, <1>4, StartCallSafe DEF CallCreate
<1>5. CASE CallClose(t)
  <2>1. PICK f \in Fds : StartCall(t, "close", "close", [NoLocals EXCEPT !.fd = f])
    BY <1>5 DEF CallClose
  <2> QED
    BY <1>2, <2>1, StartCallSafe
<1>6. CASE CallUse(t)
  <2>1. PICK f \in Fds : StartCall(t, "use", "find", [NoLocals EXCEPT !.fd = f])
    BY <1>6 DEF CallUse
  <2> QED
    BY <1>2, <2>1, StartCallSafe
<1>7. CASE CallCtl(t)
  <2>1. PICK f \in Fds, f2 \in Fds, op \in {"ADD", "MOD", "DEL"} :
            StartCall(t, "ctl", "find", [NoLocals EXCEPT !.fd = f, !.fd2 = f2, !.op = op])
    BY <1>7 DEF CallCtl
  <2> DEFINE l == [NoLocals EXCEPT !.fd = f, !.fd2 = f2, !.op = op]
  <2>2. NoLocals \in Locals /\ f \in Fds /\ f2 \in Fds /\ op \in {"none", "ADD", "MOD", "DEL"}
    BY DEF NoLocals, Locals, Fds
  <2>3. l \in Locals
    BY <2>2 DEF Locals
  <2>4. l.desc = NULL /\ l.desc2 = NULL /\ l.cur = 0
    BY DEF NoLocals
  <2> HIDE DEF l
  <2> QED
    BY <2>1, <2>3, <2>4, StartCallSafe DEF l
<1>8. CASE CallWalk(t)
  BY <1>1, <1>8, StartCallSafe DEF CallWalk
<1> QED
  BY <1>4, <1>5, <1>6, <1>7, <1>8 DEF Call

\* A walk comes to the next slot: its description stays while the lock is held.
LEMMA WalkNextSafe ==
    ASSUME TableInv, NEW t \in Threads, WalkNext(t)
    PROVE  TableInv'
<1>0. TypeOK /\ HeapInv /\ LockInv(t) /\ LocalInv(t) /\ KindInv(t)
  BY DEF TableInv, ThreadInv
<1> DEFINE new == [loc[t] EXCEPT !.desc = open_files[loc[t].cur], !.cur = loc[t].cur + 1]
<1>1. loc[t].cur \in Fds /\ loc[t].cur + 1 \in 0 .. NFds
  BY <1>0, LocalsType DEF WalkNext, Fds
<1>2. new \in Locals /\ new.desc = open_files[loc[t].cur] /\ new.desc2 = loc[t].desc2
  BY <1>0, <1>1, LocalsType DEF Locals, TypeOK
<1>3. pc[t] = "walking" /\ pc' = [pc EXCEPT ![t] = "walking"] /\ loc' = [loc EXCEPT ![t] = new]
  BY <1>0 DEF WalkNext, TypeOK
<1> HIDE DEF new
<1>4. "walking" \in Locations
  BY DEF Locations
<1>5. /\ Moves(t) /\ pc'[t] = "walking" /\ loc'[t] = new
      /\ pc' \in [Threads -> Locations] /\ loc' \in [Threads -> Locals]
  BY <1>0, <1>2, <1>3, <1>4, MoveTo
<1>6. UNCHANGED <<announced, readers, open_files, refcount, vtable, mutex, nodes, kernel, calls>>
  BY DEF WalkNext
<1>7. TypeOK'
  BY <1>0, <1>5, <1>6 DEF TypeOK
<1>8. LockStep(t) /\ LockInv(t)'
  BY <1>0, <1>3, <1>5, <1>6 DEF LockInv, LockStep, Reading, Writing
<1>9. \A e \in Descs : (Owns(t, e)' <=> Owns(t, e)) /\ (Owns2(t, e)' <=> Owns2(t, e))
  BY <1>3, <1>5 DEF Owns, Owns2, OwnsDesc, OwnsDesc2
<1>10. LocalInv(t)' /\ KindInv(t)'
  BY <1>0, <1>1, <1>2, <1>3, <1>5, <1>6 DEF LocalInv, KindInv, OwnsDesc, OwnsDesc2
<1> QED
  BY <1>3, <1>5, <1>6, <1>7, <1>8, <1>9, <1>10, QuietKeeps DEF HoldsAll, HoldsOne

-----------------------------------------------------------------------------
(* Steps that take or release mutexes *)

\* epoll_ctl locks the epollfd.
LEMMA CtlLockSafe ==
    ASSUME TableInv, NEW t \in Threads, CtlLock(t)
    PROVE  TableInv'
<1>0. TypeOK /\ HeapInv /\ LockInv(t) /\ LocalInv(t) /\ KindInv(t) /\ MutexInv(t)
  BY DEF TableInv, ThreadInv
<1> DEFINE d == loc[t].desc
<1>1. pc[t] = "ctl_lock" /\ pc' = [pc EXCEPT ![t] = "ctl"] /\ loc' = [loc EXCEPT ![t] = loc[t]]
  BY <1>0, LocalsType DEF CtlLock, Goto
<1>2. loc[t] \in Locals /\ "ctl" \in Locations
  BY <1>0, LocalsType DEF Locations
<1>3. /\ Moves(t) /\ pc'[t] = "ctl" /\ loc'[t] = loc[t]
      /\ pc' \in [Threads -> Locations] /\ loc' \in [Threads -> Locals]
  BY <1>0, <1>1, <1>2, MoveTo
<1>4. d \in Descs
  BY <1>0, <1>1, LocalsType DEF LocalInv
<1>5. mutex[d] = NoThread /\ mutex' = [mutex EXCEPT ![d] = t]
  BY DEF CtlLock
<1>6. UNCHANGED <<announced, readers, open_files, refcount, vtable, nodes, kernel, calls>>
  BY DEF CtlLock
<1>7. TypeOK'
  BY <1>0, <1>3, <1>4, <1>5, <1>6 DEF TypeOK
<1>8. LockStep(t) /\ LockInv(t)'
  BY <1>0, <1>1, <1>3, <1>6 DEF LockInv, LockStep, Reading, Writing
<1>9. MutexStep(t)
  BY <1>0, <1>4, <1>5 DEF MutexStep, TypeOK
<1>10. \A e \in Descs : (Owns(t, e)' <=> Owns(t, e)) /\ (Owns2(t, e)' <=> Owns2(t, e))
  BY <1>1, <1>3 DEF Owns, Owns2, OwnsDesc, OwnsDesc2
<1>11. Held(t) = {}
  BY <1>0, <1>1 DEF MutexInv, HoldsAll, HoldsOne
<1>12. Held(t)' = {d}
  BY <1>0, <1>4, <1>5, <1>11 DEF Held, TypeOK
<1>13. MutexInv(t)' /\ NodeInv(t)'
  BY <1>3, <1>12 DEF MutexInv, NodeInv, HoldsAll, HoldsOne
<1>14. LocalInv(t)' /\ KindInv(t)'
  BY <1>0, <1>1, <1>3, <1>6 DEF LocalInv, KindInv, OwnsDesc, OwnsDesc2
<1>15. ThreadInv(t)'
  BY <1>8, <1>13, <1>14 DEF ThreadInv
<1> QED
  BY <1>3, <1>6, <1>7, <1>8, <1>9, <1>10, <1>15, CalmKeeps

\* An operation locks the description and, in epoll_wait, chooses a node to poll.
LEMMA UseLockSafe ==
    ASSUME TableInv, NEW t \in Threads, UseLock(t)
    PROVE  TableInv'
<1>0. TypeOK /\ HeapInv /\ LockInv(t) /\ LocalInv(t) /\ KindInv(t) /\ MutexInv(t)
  BY DEF TableInv, ThreadInv
<1> DEFINE d == loc[t].desc
<1>1. PICK p \in {NULL} \cup {n.desc : n \in nodes[d]} : loc' = [loc EXCEPT ![t].desc2 = p]
  BY DEF UseLock
<1> DEFINE new == [loc[t] EXCEPT !.desc2 = p]
<1>2. pc[t] = "use" /\ pc' = [pc EXCEPT ![t] = "in_use"] /\ loc' = [loc EXCEPT ![t] = new]
  BY <1>1 DEF UseLock, Goto
<1>3. d \in Descs
  BY <1>0, <1>2, LocalsType DEF LocalInv
<1>4. p # NULL => \E f \in Fds : HasNode(d, f, p)
  BY <1>0, <1>1, <1>3 DEF HasNode, TypeOK, Node
<1>5. p \in Descs \cup {NULL}
  BY <1>0, <1>1, <1>3 DEF TypeOK, Node
<1>6. new \in Locals /\ new.desc = d /\ new.desc2 = p
  BY <1>0, <1>5, LocalsType DEF Locals
<1> HIDE DEF new
<1>7. "in_use" \in Locations
  BY DEF Locations
<1>8. /\ Moves(t) /\ pc'[t] = "in_use" /\ loc'[t] = new
      /\ pc' \in [Threads -> Locations] /\ loc' \in [Threads -> Locals]
  BY <1>0, <1>2, <1>6, <1>7, MoveTo
<1>9. mutex[d] = NoThread /\ mutex' = [mutex EXCEPT ![d] = t]
  BY DEF UseLock
<1>10. UNCHANGED <<announced, readers, open_files, refcount, vtable, nodes, kernel, calls>>
  BY DEF UseLock
<1>11. TypeOK'
  BY <1>0, <1>3, <1>8, <1>9, <1>10 DEF TypeOK
<1>12. LockStep(t) /\ LockInv(t)'
  BY <1>0, <1>2, <1>8, <1>10 DEF LockInv, LockStep, Reading, Writing
<1>13. MutexStep(t)
  BY <1>0, <1>3, <1>9 DEF MutexStep, TypeOK
<1>14. \A e \in Descs : (Owns(t, e)' <=> Owns(t, e)) /\ (Owns2(t, e)' <=> Owns2(t, e))
  BY <1>2, <1>6, <1>8 DEF Owns, Owns2, OwnsDesc, OwnsDesc2
<1>15. Held(t) = {}
  BY <1>0, <1>2 DEF MutexInv, HoldsAll, HoldsOne
<1>16. Held(t)' = {d}
  BY <1>0, <1>3, <1>9, <1>15 DEF Held, TypeOK
<1>17. MutexInv(t)'
  BY <1>6, <1>8, <1>16 DEF MutexInv, HoldsAll, HoldsOne
<1>18. NodeInv(t)'
  BY <1>4, <1>6, <1>8, <1>10 DEF NodeInv, HasNode
<1>19. LocalInv(t)' /\ KindInv(t)'
  BY <1>0, <1>2, <1>3, <1>6, <1>8, <1>10 DEF LocalInv, KindInv, OwnsDesc, OwnsDesc2
<1>20. ThreadInv(t)'
  BY <1>12, <1>17, <1>18, <1>19 DEF ThreadInv
<1> QED
  BY <1>8, <1>10, <1>11, <1>12, <1>13, <1>14, <1>20, CalmKeeps

\* A close locks the epollfd of the next slot: then it holds those it has passed.
LEMMA LockEpollfdSafe ==
    ASSUME TableInv, NEW t \in Threads, LockEpollfd(t)
    PROVE  TableInv'
<1>0. TypeOK /\ HeapInv /\ LockInv(t) /\ LocalInv(t) /\ KindInv(t) /\ MutexInv(t)
  BY DEF TableInv, ThreadInv
<1> DEFINE f == loc[t].cur
<1>1. UNCHANGED <<announced, readers, open_files, refcount, vtable, nodes, kernel, calls>>
  BY DEF LockEpollfd
<1>2. pc[t] = "lock_epollfds" /\ Held(t) = Passed(t)
  BY <1>0 DEF LockEpollfd, MutexInv
<1>3. CASE f = NFds
  <2>1. pc' = [pc EXCEPT ![t] = "remove_fd"] /\ loc' = [loc EXCEPT ![t] = loc[t]] /\ mutex' = mutex
    BY <1>0, <1>3, LocalsType DEF LockEpollfd, Goto
  <2>2. loc[t] \in Locals /\ "remove_fd" \in Locations
    BY <1>0, LocalsType DEF Locations
  <2>3. /\ Moves(t) /\ pc'[t] = "remove_fd" /\ loc'[t] = loc[t]
        /\ pc' \in [Threads -> Locations] /\ loc' \in [Threads -> Locals]
    BY <1>0, <2>1, <2>2, MoveTo
  <2>4. TypeOK'
    BY <1>0, <1>1, <2>1, <2>3 DEF TypeOK
  <2>5. LockStep(t) /\ LockInv(t)' /\ MutexStep(t)
    BY <1>0, <1>1, <1>2, <2>1, <2>3 DEF LockInv, LockStep, MutexStep, Reading, Writing
  <2>6. \A e \in Descs : (Owns(t, e)' <=> Owns(t, e)) /\ (Owns2(t, e)' <=> Owns2(t, e))
    BY <1>2, <2>3 DEF Owns, Owns2, OwnsDesc, OwnsDesc2
  <2>7. Passed(t) = Installed
    BY <1>3 DEF Passed, Installed, Fds
  <2>8. Held(t)' = Held(t) /\ Installed' = Installed
    BY <1>1, <2>1 DEF Held, Installed, IsEpollfd
  <2>9. MutexInv(t)' /\ NodeInv(t)'
    BY <1>2, <2>3, <2>7, <2>8 DEF MutexInv, NodeInv, HoldsAll, HoldsOne
  <2>10. LocalInv(t)' /\ KindInv(t)'
    BY <1>0, <1>1, <1>2, <2>3 DEF LocalInv, KindInv, OwnsDesc, OwnsDesc2
  <2>11. ThreadInv(t)'
    BY <2>5, <2>9, <2>10 DEF ThreadInv
  <2> QED
    BY <1>1, <2>3, <2>4, <2>5, <2>6, <2>11, CalmKeeps
<1>4. CASE f # NFds
  <2> DEFINE new == [loc[t] EXCEPT !.cur = f + 1]
  <2>1. f \in Fds /\ f + 1 \in 0 .. NFds
    BY <1>0, <1>4, LocalsType DEF Fds
  <2>2. pc' = [pc EXCEPT ![t] = "lock_epollfds"] /\ loc' = [loc EXCEPT ![t] = new]
    BY <1>0, <1>2, <1>4 DEF LockEpollfd, TypeOK
  <2>3. new \in Locals /\ new.desc = loc[t].desc /\ new.desc2 = loc[t].desc2 /\ new.cur = f + 1
    BY <1>0, <2>1, LocalsType DEF Locals
  <2>4. "lock_epollfds" \in Locations
    BY DEF Locations
  <2> HIDE DEF new
  <2>5. /\ Moves(t) /\ pc'[t] = "lock_epollfds" /\ loc'[t] = new
        /\ pc' \in [Threads -> Locations] /\ loc' \in [Threads -> Locals]
    BY <1>0, <2>2, <2>3, <2>4, MoveTo
  <2>6. \/ IsEpollfd(open_files[f]) /\ mutex[open_files[f]] = NoThread /\ mutex' = [mutex EXCEPT ![open_files[f]] = t]
        \/ ~IsEpollfd(open_files[f]) /\ mutex' = mutex
    BY <1>4 DEF LockEpollfd
  <2>7. open_files[f] \in Descs \cup {NULL} /\ (IsEpollfd(open_files[f]) => open_files[f] \in Descs)
    BY <1>0, <2>1 DEF TypeOK, IsEpollfd
  <2>8. mutex' \in [Descs -> Threads \cup {NoThread}] /\ MutexStep(t)
    BY <1>0, <2>6, <2>7 DEF TypeOK, MutexStep
  <2>9. TypeOK'
    BY <1>0, <1>1, <2>5, <2>8 DEF TypeOK
  <2>10. LockStep(t) /\ LockInv(t)'
    BY <1>0, <1>1, <1>2, <2>5 DEF LockInv, LockStep, Reading, Writing
  <2>11. \A e \in Descs : (Owns(t, e)' <=> Owns(t, e)) /\ (Owns2(t, e)' <=> Owns2(t, e))
    BY <1>2, <2>3, <2>5 DEF Owns, Owns2, OwnsDesc, OwnsDesc2
  <2>12. Passed(t)' = Passed(t) \cup {d \in Descs : IsEpollfd(d) /\ open_files[f] = d}
    <3>1. \A g \in Fds : g < f + 1 <=> g < f \/ g = f
      BY <2>1 DEF Fds
    <3>2. \A d : IsEpollfd(d)' <=> IsEpollfd(d)
      BY <1>1 DEF IsEpollfd
    <3> QED
      BY <1>1, <2>1, <2>3, <2>5, <3>1, <3>2 DEF Passed
  <2>13. Held(t)' = Held(t) \cup {d \in Descs : IsEpollfd(d) /\ open_files[f] = d}
    BY <1>0, <2>6, <2>7 DEF Held, TypeOK
  <2>14. MutexInv(t)' /\ NodeInv(t)'
    BY <1>2, <2>5, <2>12, <2>13 DEF MutexInv, NodeInv, HoldsAll, HoldsOne
  <2>15. LocalInv(t)' /\ KindInv(t)'
    BY <1>0, <1>1, <1>2, <2>3, <2>5 DEF LocalInv, KindInv, OwnsDesc, OwnsDesc2
  <2>16. ThreadInv(t)'
    BY <2>10, <2>14, <2>15 DEF ThreadInv
  <2> QED
    BY <1>1, <2>5, <2>8, <2>9, <2>10, <2>11, <2>16, CalmKeeps
<1> QED
  BY <1>3, <1>4

\* A close unlocks the epollfds of the table: all that it holds.
LEMMA UnlockEpollfdsSafe ==
    ASSUME TableInv, NEW t \in Threads, UnlockEpollfds(t)
    PROVE  TableInv'
<1>0. TypeOK /\ HeapInv /\ LockInv(t) /\ LocalInv(t) /\ KindInv(t) /\ MutexInv(t)
  BY DEF TableInv, ThreadInv
<1>1. pc[t] = "unlock_epollfds" /\ pc' = [pc EXCEPT ![t] = "idle"] /\ loc' = [loc EXCEPT ![t] = NoLocals]
  BY DEF UnlockEpollfds, Return, Goto
<1>2. NoLocals \in Locals /\ NoLocals.desc = NULL /\ NoLocals.desc2 = NULL /\ "idle" \in Locations
  BY DEF NoLocals, Locals, Locations, Fds
<1>3. /\ Moves(t) /\ pc'[t] = "idle" /\ loc'[t] = NoLocals
      /\ pc' \in [Threads -> Locations] /\ loc' \in [Threads -> Locals]
  BY <1>0, <1>1, <1>2, MoveTo
<1>4. UNCHANGED <<open_files, refcount, vtable, nodes, kernel, calls, announced>> /\ readers' = readers \ {t}
  BY DEF UnlockEpollfds, UnlockRead
<1>5. Held(t) = Installed
  BY <1>0, <1>1 DEF MutexInv, HoldsAll
<1>6. mutex' = [d \in Descs |-> IF d \in Held(t) THEN NoThread ELSE mutex[d]]
  BY <1>5 DEF UnlockEpollfds
<1>7. mutex' \in [Descs -> Threads \cup {NoThread}] /\ MutexStep(t) /\ Held(t)' = {}
  BY <1>0, <1>6 DEF TypeOK, MutexStep, Held
<1>8. TypeOK'
  BY <1>0, <1>3, <1>4, <1>7 DEF TypeOK
<1>9. LockStep(t) /\ LockInv(t)'
  BY <1>0, <1>1, <1>3, <1>4 DEF LockInv, LockStep, Reading, Writing, TypeOK
<1>10. \A e \in Descs : (Owns(t, e)' <=> Owns(t, e)) /\ (Owns2(t, e)' <=> Owns2(t, e))
  BY <1>1, <1>2, <1>3 DEF Owns, Owns2, OwnsDesc, OwnsDesc2
<1>11. MutexInv(t)' /\ NodeInv(t)'
  BY <1>3, <1>7 DEF MutexInv, NodeInv, HoldsAll, HoldsOne
<1>12. LocalInv(t)' /\ KindInv(t)'
  BY <1>2, <1>3 DEF LocalInv, KindInv, OwnsDesc, OwnsDesc2
<1>13. ThreadInv(t)'
  BY <1>9, <1>11, <1>12 DEF ThreadInv
<1> QED
  BY <1>3, <1>4, <1>7, <1>8, <1>9, <1>10, <1>13, CalmKeeps

-----------------------------------------------------------------------------
(* Steps that take a reference *)

\* The counts stay exact when thread t takes the reference that it counts.
LEMMA GainKeeps ==
    ASSUME TableInv, NEW t \in Threads, NEW d \in Descs, Moves(t), LockStep(t),
           refcount' = [refcount EXCEPT ![d] = @ + 1],
           UNCHANGED <<open_files, vtable, mutex, nodes, kernel, calls>>,
           announced' \in Threads \cup {NoThread}, readers' \subseteq Threads,
           pc' \in [Threads -> Locations], loc' \in [Threads -> Locals],
           \A e \in Descs : One(Owns(t, e)') + One(Owns2(t, e)')
                              = One(Owns(t, e)) + One(Owns2(t, e)) + One(e = d),
           ThreadInv(t)'
    PROVE  TableInv'
<1>0. TypeOK /\ HeapInv /\ RefCountExact
  BY DEF TableInv
<1>1. TypeOK'
  BY <1>0 DEF TypeOK
<1>2. RefCountExact'
  <2> SUFFICES ASSUME NEW e \in Descs
               PROVE  refcount'[e] = SlotRefs(e)' + NodeRefs(Descs, Fds, e)' + ThreadRefs(e)'
    BY DEF RefCountExact
  <2>1. SlotRefs(e)' = SlotRefs(e) /\ NodeRefs(Descs, Fds, e)' = NodeRefs(Descs, Fds, e)
    BY DEF SlotRefs, NodeRefs
  <2>2. ThreadRefs(e)' + One(Owns(t, e)) + One(Owns2(t, e)) = ThreadRefs(e) + One(Owns(t, e)') + One(Owns2(t, e)')
    BY ThreadRefsMove DEF Moves
  <2>3. \A b : One(b) \in Nat
    BY DEF One
  <2>4. ThreadRefs(e)' = ThreadRefs(e) + One(e = d)
    BY <2>2, <2>3, RefsType
  <2>5. refcount'[e] = refcount[e] + One(e = d)
    BY <1>0 DEF TypeOK, One
  <2>6. refcount[e] = SlotRefs(e) + NodeRefs(Descs, Fds, e) + ThreadRefs(e)
    BY <1>0 DEF RefCountExact
  <2> QED
    BY <2>1, <2>3, <2>4, <2>5, <2>6, RefsType
<1>3. HeapShrinks
  <2>1. \A e \in Descs : refcount'[e] = 0 => refcount[e] = 0
    BY <1>0 DEF TypeOK
  <2> QED
    BY <1>0, <2>1 DEF HeapShrinks, HeapInv
<1>4. TableStep(t) /\ MutexStep(t) /\ NodeStep(t)
  BY DEF TableStep, MutexStep, NodeStep, HasNode
<1> QED
  BY <1>1, <1>2, <1>3, <1>4, ShrinkKeeps

\* file_description_create gives the call its only reference.
LEMMA CreateDescSafe ==
    ASSUME TableInv, NEW t \in Threads, CreateDesc(t)
    PROVE  TableInv'
<1>0. TypeOK /\ HeapInv /\ LockInv(t) /\ LocalInv(t) /\ KindInv(t) /\ MutexInv(t)
  BY DEF TableInv, ThreadInv
<1>1. PICK d \in Descs : refcount[d] = 0 /\ refcount' = [refcount EXCEPT ![d] = 1] /\ loc' = [loc EXCEPT ![t].desc = d]
  BY DEF CreateDesc
<1> DEFINE new == [loc[t] EXCEPT !.desc = d]
<1>2. pc[t] = "create_desc" /\ pc' = [pc EXCEPT ![t] = "created"] /\ loc' = [loc EXCEPT ![t] = new]
  BY <1>1 DEF CreateDesc, Goto
<1>3. new \in Locals /\ new.desc = d /\ new.desc2 = loc[t].desc2 /\ new.fd = loc[t].fd
  BY <1>0, LocalsType DEF Locals
<1>4. "created" \in Locations
  BY DEF Locations
<1> HIDE DEF new
<1>5. /\ Moves(t) /\ pc'[t] = "created" /\ loc'[t] = new
      /\ pc' \in [Threads -> Locations] /\ loc' \in [Threads -> Locals]
  BY <1>0, <1>2, <1>3, <1>4, MoveTo
<1>6. UNCHANGED <<announced, readers, open_files, vtable, mutex, nodes, kernel, calls>>
  BY DEF CreateDesc
<1>7. refcount' = [refcount EXCEPT ![d] = @ + 1]
  BY <1>0, <1>1 DEF TypeOK
<1>8. LockStep(t) /\ LockInv(t)'
  BY <1>0, <1>2, <1>5, <1>6 DEF LockInv, LockStep, Reading, Writing
<1>9. \A e \in Descs : One(Owns(t, e)') + One(Owns2(t, e)') = One(Owns(t, e)) + One(Owns2(t, e)) + One(e = d)
  BY <1>2, <1>3, <1>5 DEF One, Owns, Owns2, OwnsDesc, OwnsDesc2
<1>10. vtable[d] = "none"
  BY <1>0, <1>1 DEF HeapInv
<1>11. LocalInv(t)' /\ KindInv(t)'
  BY <1>0, <1>2, <1>3, <1>5, <1>6, <1>10 DEF LocalInv, KindInv, OwnsDesc, OwnsDesc2
<1>12. MutexInv(t)' /\ NodeInv(t)'
  BY <1>0, <1>2, <1>5, <1>6 DEF MutexInv, NodeInv, Held, HoldsAll, HoldsOne
<1>13. ThreadInv(t)'
  BY <1>8, <1>11, <1>12 DEF ThreadInv
<1>14. announced' \in Threads \cup {NoThread} /\ readers' \subseteq Threads
  BY <1>0, <1>6 DEF TypeOK
<1> QED
  BY <1>5, <1>6, <1>7, <1>8, <1>9, <1>13, <1>14, GainKeeps

\* file_description_ref under the read lock, of the description found in the table.
LEMMA TakeRefSafe ==
    ASSUME TableInv, NEW t \in Threads,
           FoundForUse(t) \/ FoundForCtl(t) \/ (Found2(t) /\ loc[t].desc2 # NULL)
    PROVE  TableInv'
<1>0. TypeOK /\ HeapInv /\ LockInv(t) /\ LocalInv(t) /\ KindInv(t) /\ MutexInv(t)
  BY DEF TableInv, ThreadInv
<1>1. PICK d \in Descs, to \in {"use", "unref", "find2", "ctl_lock"} :
        /\ TakeRef(t, d) /\ pc' = [pc EXCEPT ![t] = to]
        /\ \/ pc[t] = "found" /\ d = loc[t].desc /\ (to \in {"find2", "ctl_lock"} => vtable[d] = "epoll")
           \/ pc[t] = "found2" /\ d = loc[t].desc2 /\ to = "ctl_lock"
  <2>1. loc[t].desc \in Descs \cup {NULL} /\ loc[t].desc2 \in Descs \cup {NULL}
    BY <1>0, LocalsType
  <2>2. CASE FoundForUse(t)
    BY <2>1, <2>2 DEF FoundForUse, Goto
  <2>3. CASE FoundForCtl(t)
    BY <2>1, <2>3 DEF FoundForCtl, Goto
  <2>4. CASE Found2(t) /\ loc[t].desc2 # NULL
    BY <2>1, <2>4 DEF Found2, Goto
  <2> QED
    BY <2>2, <2>3, <2>4
<1>2. loc' = [loc EXCEPT ![t] = loc[t]] /\ loc[t] \in Locals /\ to \in Locations
  BY <1>0, <1>1, LocalsType DEF TakeRef, Locations
<1>3. /\ Moves(t) /\ pc'[t] = to /\ loc'[t] = loc[t]
      /\ pc' \in [Threads -> Locations] /\ loc' \in [Threads -> Locals]
  BY <1>0, <1>1, <1>2, MoveTo
<1>4. /\ UNCHANGED <<announced, open_files, vtable, mutex, nodes, kernel, calls>> /\ readers' = readers \ {t}
      /\ refcount' = [refcount EXCEPT ![d] = @ + 1]
  BY <1>1 DEF TakeRef, UnlockRead
<1>5. LockStep(t) /\ LockInv(t)'
  BY <1>0, <1>1, <1>3, <1>4 DEF LockInv, LockStep, Reading, Writing
<1>6. vtable[d] # "none"
  <2>1. \E f \in Fds : open_files[f] = d
    BY <1>0, <1>1, LocalsType DEF LocalInv
  <2> QED
    BY <1>0, <2>1 DEF HeapInv
<1>7. \A e \in Descs : One(Owns(t, e)') + One(Owns2(t, e)') = One(Owns(t, e)) + One(Owns2(t, e)) + One(e = d)
  <2>1. pc[t] = "found" => loc[t].desc2 = NULL
    BY <1>0 DEF LocalInv, OwnsDesc2
  <2> QED
    BY <1>1, <1>3, <2>1 DEF One, Owns, Owns2, OwnsDesc, OwnsDesc2
<1>8. LocalInv(t)'
  BY <1>0, <1>1, <1>3, <1>4 DEF LocalInv, OwnsDesc, OwnsDesc2
<1>9. KindInv(t)'
  BY <1>0, <1>1, <1>3, <1>4, <1>6 DEF LocalInv, KindInv, OwnsDesc, OwnsDesc2
<1>10. MutexInv(t)' /\ NodeInv(t)'
  BY <1>0, <1>1, <1>3, <1>4 DEF MutexInv, NodeInv, Held, HoldsAll, HoldsOne
<1>11. ThreadInv(t)'
  BY <1>5, <1>8, <1>9, <1>10 DEF ThreadInv
<1>12. announced' \in Threads \cup {NoThread} /\ readers' \subseteq Threads
  BY <1>0, <1>4 DEF TypeOK
<1> QED
  BY <1>3, <1>4, <1>5, <1>7, <1>11, <1>12, GainKeeps

-----------------------------------------------------------------------------
(* Steps that drop a reference *)

\* Dropping a reference that a slot or a call gives up.
LEMMA UnrefFacts ==
    ASSUME TableInv, NEW t \in Threads, NEW d \in Descs, Refers(d), Unref(d),
           \A e \in Descs : SlotRefs(e)' + ThreadRefs(e)' = SlotRefs(e) + ThreadRefs(e) + (IF e = d THEN -1 ELSE 0),
           \A f \in Fds : open_files'[f] \in {NULL, open_files[f]}
    PROVE  /\ RefCountExact' /\ HeapShrinks /\ NodeStep(t)
           /\ refcount' \in [Descs -> Nat]
           /\ vtable' \in [Descs -> Kinds \cup {"none"}]
           /\ nodes' \in [Descs -> SUBSET Node]
           /\ \A e \in Descs : Refers(e)' => vtable'[e] = vtable[e]
<1>0. TypeOK /\ HeapInv /\ RefCountExact
  BY DEF TableInv
<1>1. refcount[d] > 0
  BY <1>0, Referenced
<1> DEFINE diff == [e \in Descs |-> IF e = d THEN -1 ELSE 0]
<1>2. /\ nodes' = [e \in Descs |-> IF e = d /\ refcount[d] = 1 THEN {} ELSE nodes[e]]
      /\ Balanced(diff)
      /\ refcount'[d] = refcount[d] - 1
  BY <1>0, <1>1, UnrefEffect
<1>3. \A e \in Descs : diff[e] \in Int /\ SlotRefs(e)' + ThreadRefs(e)' = SlotRefs(e) + ThreadRefs(e) + diff[e]
  OBVIOUS
<1> HIDE DEF diff
<1>4. RefCountExact'
  BY <1>0, <1>2, <1>3, ExactAfter
<1>5. refcount' \in [Descs -> Nat]
  <2>1. \A e \in Descs : refcount'[e] = SlotRefs(e)' + NodeRefs(Descs, Fds, e)' + ThreadRefs(e)'
    BY <1>4 DEF RefCountExact
  <2>2. \A e \in Descs : refcount'[e] \in Nat
    BY <2>1, RefsType
  <2>3. refcount' = [e \in Descs |-> refcount'[e]]
    BY DEF Unref
  <2> QED
    BY <2>2, <2>3
<1>6. /\ vtable' = [e \in Descs |-> IF refcount'[e] = 0 THEN "none" ELSE vtable[e]]
      /\ nodes' = [e \in Descs |-> IF refcount'[e] = 0 THEN {} ELSE nodes[e]]
  BY DEF Unref, Settle
<1>7. HeapShrinks
  BY <1>6 DEF HeapShrinks
<1>8. NodeStep(t)
  BY <1>6 DEF NodeStep, HasNode
<1>9. vtable' \in [Descs -> Kinds \cup {"none"}] /\ nodes' \in [Descs -> SUBSET Node]
  BY <1>0, <1>6 DEF TypeOK
<1>10. \A e \in Descs : Refers(e)' => vtable'[e] = vtable[e]
  <2> SUFFICES ASSUME NEW e \in Descs, Refers(e)' PROVE vtable'[e] = vtable[e]
    OBVIOUS
  <2>1. refcount'[e] > 0
    BY <1>4, ReferencedNext
  <2> QED
    BY <1>6, <2>1
<1> QED
  BY <1>4, <1>5, <1>7, <1>8, <1>9, <1>10

\* A call drops a reference of its own.
LEMMA CallUnref ==
    ASSUME TableInv, NEW t \in Threads, NEW d \in Descs, Owns(t, d) \/ Owns2(t, d), Unref(d), Moves(t),
           UNCHANGED <<announced, readers, open_files, mutex, kernel, calls>>,
           pc' \in [Threads -> Locations], loc' \in [Threads -> Locals],
           \A e \in Descs : One(Owns(t, e)') + One(Owns2(t, e)') + One(e = d)
                              = One(Owns(t, e)) + One(Owns2(t, e))
    PROVE  /\ \A e \in Descs : Refers(e)' => vtable'[e] = vtable[e]
           /\ \A e \in Descs : nodes'[e] \subseteq nodes[e]
           /\ LockInv(t)' /\ ThreadInv(t)' => TableInv'
<1>0. TypeOK /\ HeapInv /\ RefCountExact /\ ThreadInv(t)
  BY DEF TableInv
<1>1. Refers(d)
  BY DEF Refers
<1>2. ASSUME NEW e \in Descs
      PROVE  SlotRefs(e)' + ThreadRefs(e)' = SlotRefs(e) + ThreadRefs(e) + (IF e = d THEN -1 ELSE 0)
  <2>1. SlotRefs(e)' = SlotRefs(e)
    BY DEF SlotRefs
  <2>2. ThreadRefs(e)' + One(Owns(t, e)) + One(Owns2(t, e)) = ThreadRefs(e) + One(Owns(t, e)') + One(Owns2(t, e)')
    BY ThreadRefsMove DEF Moves
  <2>3. \A b : One(b) \in Nat
    BY DEF One
  <2>4. One(Owns(t, e)') + One(Owns2(t, e)') + One(e = d) = One(Owns(t, e)) + One(Owns2(t, e))
    OBVIOUS
  <2>5. ThreadRefs(e)' + One(e = d) = ThreadRefs(e)
    <3>1. ThreadRefs(e) \in Nat /\ ThreadRefs(e)' \in Nat
      BY RefsType
    <3>2. One(Owns(t, e)') \in Nat /\ One(Owns2(t, e)') \in Nat /\ One(e = d) \in Nat
      BY <2>3
    <3>3. One(Owns(t, e)) \in Nat /\ One(Owns2(t, e)) \in Nat
      BY <2>3
    <3> QED
      BY ONLY <2>2, <2>4, <3>1, <3>2, <3>3
  <2> QED
    BY <2>1, <2>5, RefsType DEF One
<1>3. \A f \in Fds : open_files'[f] \in {NULL, open_files[f]}
  OBVIOUS
<1>4. /\ RefCountExact' /\ HeapShrinks /\ NodeStep(t)
      /\ refcount' \in [Descs -> Nat]
      /\ vtable' \in [Descs -> Kinds \cup {"none"}]
      /\ nodes' \in [Descs -> SUBSET Node]
      /\ \A e \in Descs : Refers(e)' => vtable'[e] = vtable[e]
  BY <1>1, <1>2, <1>3, UnrefFacts
<1>5. TypeOK'
  BY <1>0, <1>4 DEF TypeOK
<1>6. LockStep(t) /\ TableStep(t) /\ MutexStep(t)
  BY DEF LockStep, TableStep, MutexStep
<1>7. ThreadInv(t)' => TableInv'
  BY <1>4, <1>5, <1>6, ShrinkKeeps
<1> QED
  BY <1>4, <1>7 DEF HeapShrinks

\* A creation that failed drops its description.
LEMMA DropDescSafe ==
    ASSUME TableInv, NEW t \in Threads, DropDesc(t)
    PROVE  TableInv'
<1>0. TypeOK /\ HeapInv /\ LockInv(t) /\ LocalInv(t) /\ KindInv(t) /\ MutexInv(t) /\ NodeInv(t)
  BY DEF TableInv, ThreadInv
<1> DEFINE d == loc[t].desc
           new == [loc[t] EXCEPT !.desc = NULL]
<1>1. pc[t] = "created" /\ pc' = [pc EXCEPT ![t] = "drop_close"] /\ loc' = [loc EXCEPT ![t] = new]
  BY <1>0, LocalsType DEF DropDesc, Goto
<1>2. d \in Descs /\ (Owns(t, d))
  BY <1>0, <1>1, LocalsType DEF LocalInv, Owns, Owns2, OwnsDesc, OwnsDesc2
<1>3. new \in Locals /\ new.desc = NULL /\ new.desc2 = loc[t].desc2 /\ new.fd = loc[t].fd /\ "drop_close" \in Locations
  BY <1>0, LocalsType DEF Locals, NoLocals, Locations
<1> HIDE DEF new
<1>4. /\ Moves(t) /\ pc'[t] = "drop_close" /\ loc'[t] = new
      /\ pc' \in [Threads -> Locations] /\ loc' \in [Threads -> Locals]
  BY <1>0, <1>1, <1>3, MoveTo
<1>5. UNCHANGED <<announced, readers, open_files, mutex, kernel, calls>> /\ Unref(d)
  BY DEF DropDesc, Goto
<1>6. \A e \in Descs : One(Owns(t, e)') + One(Owns2(t, e)') + One(e = d) = One(Owns(t, e)) + One(Owns2(t, e))
  BY <1>0, <1>1, <1>2, <1>3, <1>4 DEF One, Owns, Owns2, OwnsDesc, OwnsDesc2, LocalInv
<1>7. /\ \A e \in Descs : Refers(e)' => vtable'[e] = vtable[e]
      /\ \A e \in Descs : nodes'[e] \subseteq nodes[e]
      /\ LockInv(t)' /\ ThreadInv(t)' => TableInv'
  <2> HIDE DEF d
  <2> QED
    BY <1>2, <1>4, <1>5, <1>6, CallUnref
<1>8. LockInv(t)'
  BY <1>0, <1>1, <1>4, <1>5 DEF LockInv, Reading, Writing
<1>9. LocalInv(t)'
  BY <1>0, <1>1, <1>3, <1>4, <1>5 DEF LocalInv, OwnsDesc, OwnsDesc2
<1>10. KindInv(t)'
  BY <1>3, <1>4 DEF KindInv, OwnsDesc, OwnsDesc2
<1>11. MutexInv(t)' /\ NodeInv(t)'
  BY <1>0, <1>1, <1>4, <1>5 DEF MutexInv, NodeInv, Held, HoldsAll, HoldsOne
<1> QED
  BY <1>7, <1>8, <1>9, <1>10, <1>11 DEF ThreadInv

\* A close drops the table's reference, which it took over.
LEMMA UnrefClosedSafe ==
    ASSUME TableInv, NEW t \in Threads, UnrefClosed(t), loc[t].desc # NULL
    PROVE  TableInv'
<1>0. TypeOK /\ HeapInv /\ LockInv(t) /\ LocalInv(t) /\ KindInv(t) /\ MutexInv(t) /\ NodeInv(t)
  BY DEF TableInv, ThreadInv
<1> DEFINE d == loc[t].desc
           new == [loc[t] EXCEPT !.desc = NULL]
<1>1. pc[t] = "unref_closed" /\ pc' = [pc EXCEPT ![t] = "real_close"] /\ loc' = [loc EXCEPT ![t] = new]
  BY <1>0, LocalsType DEF UnrefClosed, Goto
<1>2. d \in Descs /\ (Owns(t, d))
  BY <1>0, <1>1, LocalsType DEF LocalInv, Owns, Owns2, OwnsDesc, OwnsDesc2
<1>3. new \in Locals /\ new.desc = NULL /\ new.desc2 = loc[t].desc2 /\ new.fd = loc[t].fd /\ "real_close" \in Locations
  BY <1>0, LocalsType DEF Locals, NoLocals, Locations
<1> HIDE DEF new
<1>4. /\ Moves(t) /\ pc'[t] = "real_close" /\ loc'[t] = new
      /\ pc' \in [Threads -> Locations] /\ loc' \in [Threads -> Locals]
  BY <1>0, <1>1, <1>3, MoveTo
<1>5. UNCHANGED <<announced, readers, open_files, mutex, kernel, calls>> /\ Unref(d)
  BY DEF UnrefClosed, Goto
<1>6. \A e \in Descs : One(Owns(t, e)') + One(Owns2(t, e)') + One(e = d) = One(Owns(t, e)) + One(Owns2(t, e))
  BY <1>0, <1>1, <1>2, <1>3, <1>4 DEF One, Owns, Owns2, OwnsDesc, OwnsDesc2, LocalInv
<1>7. /\ \A e \in Descs : Refers(e)' => vtable'[e] = vtable[e]
      /\ \A e \in Descs : nodes'[e] \subseteq nodes[e]
      /\ LockInv(t)' /\ ThreadInv(t)' => TableInv'
  <2> HIDE DEF d
  <2> QED
    BY <1>2, <1>4, <1>5, <1>6, CallUnref
<1>8. LockInv(t)'
  BY <1>0, <1>1, <1>4, <1>5 DEF LockInv, Reading, Writing
<1>9. LocalInv(t)'
  BY <1>0, <1>1, <1>3, <1>4, <1>5 DEF LocalInv, OwnsDesc, OwnsDesc2
<1>10. KindInv(t)'
  BY <1>3, <1>4 DEF KindInv, OwnsDesc, OwnsDesc2
<1>11. Installed' = Installed
  <2>1. ASSUME NEW e \in Descs, NEW f \in Fds, open_files[f] = e PROVE vtable'[e] = vtable[e]
    <3>1. Refers(e)'
      BY <1>5, <2>1 DEF Refers
    <3> QED
      BY <1>7, <3>1
  <2> QED
    BY <1>5, <2>1 DEF Installed, IsEpollfd
<1>12. MutexInv(t)'
  BY <1>0, <1>1, <1>4, <1>5, <1>11 DEF MutexInv, Held, HoldsAll, HoldsOne
<1>13. NodeInv(t)'
  <2>1. \A e \in Descs, f \in Fds, p \in Descs \cup {NULL} : HasNode(e, f, p)' => HasNode(e, f, p)
    BY <1>7 DEF HasNode
  <2>2. new.fd \in Fds /\ Installed \subseteq Descs
    BY <1>0, <1>3, LocalsType DEF Installed
  <2> QED
    BY <1>0, <1>1, <1>3, <1>4, <1>11, <2>1, <2>2 DEF NodeInv
<1> QED
  BY <1>7, <1>8, <1>9, <1>10, <1>12, <1>13 DEF ThreadInv

\* A call drops its reference at the end.
LEMMA DropRefSafe ==
    ASSUME TableInv, NEW t \in Threads, DropRef(t)
    PROVE  TableInv'
<1>0. TypeOK /\ HeapInv /\ LockInv(t) /\ LocalInv(t) /\ KindInv(t) /\ MutexInv(t) /\ NodeInv(t)
  BY DEF TableInv, ThreadInv
<1> DEFINE d == loc[t].desc
           new == NoLocals
<1>1. pc[t] = "unref" /\ pc' = [pc EXCEPT ![t] = "idle"] /\ loc' = [loc EXCEPT ![t] = new]
  BY <1>0, LocalsType DEF DropRef, Return, Goto
<1>2. d \in Descs /\ (Owns(t, d))
  BY <1>0, <1>1, LocalsType DEF LocalInv, Owns, Owns2, OwnsDesc, OwnsDesc2
<1>3. new \in Locals /\ new.desc = NULL /\ new.desc2 = NULL /\ "idle" \in Locations
  BY <1>0, LocalsType DEF Locals, NoLocals, Locations
<1> HIDE DEF new
<1>4. /\ Moves(t) /\ pc'[t] = "idle" /\ loc'[t] = new
      /\ pc' \in [Threads -> Locations] /\ loc' \in [Threads -> Locals]
  BY <1>0, <1>1, <1>3, MoveTo
<1>5. UNCHANGED <<announced, readers, open_files, mutex, kernel, calls>> /\ Unref(d)
  BY DEF DropRef, Return, Goto
<1>6. \A e \in Descs : One(Owns(t, e)') + One(Owns2(t, e)') + One(e = d) = One(Owns(t, e)) + One(Owns2(t, e))
  BY <1>0, <1>1, <1>2, <1>3, <1>4 DEF One, Owns, Owns2, OwnsDesc, OwnsDesc2, LocalInv
<1>7. /\ \A e \in Descs : Refers(e)' => vtable'[e] = vtable[e]
      /\ \A e \in Descs : nodes'[e] \subseteq nodes[e]
      /\ LockInv(t)' /\ ThreadInv(t)' => TableInv'
  <2> HIDE DEF d
  <2> QED
    BY <1>2, <1>4, <1>5, <1>6, CallUnref
<1>8. LockInv(t)'
  BY <1>0, <1>1, <1>4, <1>5 DEF LockInv, Reading, Writing
<1>9. LocalInv(t)'
  BY <1>0, <1>1, <1>3, <1>4, <1>5 DEF LocalInv, OwnsDesc, OwnsDesc2
<1>10. KindInv(t)'
  BY <1>3, <1>4 DEF KindInv, OwnsDesc, OwnsDesc2
<1>11. MutexInv(t)' /\ NodeInv(t)'
  BY <1>0, <1>1, <1>4, <1>5 DEF MutexInv, NodeInv, Held, HoldsAll, HoldsOne
<1> QED
  BY <1>7, <1>8, <1>9, <1>10, <1>11 DEF ThreadInv

\* epoll_ctl drops the reference on the description to add.
LEMMA DropRef2Safe ==
    ASSUME TableInv, NEW t \in Threads, DropRef2(t), loc[t].desc2 # NULL
    PROVE  TableInv'
<1>0. TypeOK /\ HeapInv /\ LockInv(t) /\ LocalInv(t) /\ KindInv(t) /\ MutexInv(t) /\ NodeInv(t)
  BY DEF TableInv, ThreadInv
<1> DEFINE d == loc[t].desc2
           new == [loc[t] EXCEPT !.desc2 = NULL]
<1>1. pc[t] = "unref2" /\ pc' = [pc EXCEPT ![t] = "unref"] /\ loc' = [loc EXCEPT ![t] = new]
  BY <1>0, LocalsType DEF DropRef2, Goto
<1>2. d \in Descs /\ (Owns2(t, d))
  BY <1>0, <1>1, LocalsType DEF LocalInv, Owns, Owns2, OwnsDesc, OwnsDesc2
<1>3. new \in Locals /\ new.desc2 = NULL /\ new.desc = loc[t].desc /\ new.fd = loc[t].fd /\ "unref" \in Locations
  BY <1>0, LocalsType DEF Locals, NoLocals, Locations
<1> HIDE DEF new
<1>4. /\ Moves(t) /\ pc'[t] = "unref" /\ loc'[t] = new
      /\ pc' \in [Threads -> Locations] /\ loc' \in [Threads -> Locals]
  BY <1>0, <1>1, <1>3, MoveTo
<1>5. UNCHANGED <<announced, readers, open_files, mutex, kernel, calls>> /\ Unref(d)
  BY DEF DropRef2, Goto
<1>6. \A e \in Descs : One(Owns(t, e)') + One(Owns2(t, e)') + One(e = d) = One(Owns(t, e)) + One(Owns2(t, e))
  BY <1>0, <1>1, <1>2, <1>3, <1>4 DEF One, Owns, Owns2, OwnsDesc, OwnsDesc2, LocalInv
<1>7. /\ \A e \in Descs : Refers(e)' => vtable'[e] = vtable[e]
      /\ \A e \in Descs : nodes'[e] \subseteq nodes[e]
      /\ LockInv(t)' /\ ThreadInv(t)' => TableInv'
  <2> HIDE DEF d
  <2> QED
    BY <1>2, <1>4, <1>5, <1>6, CallUnref
<1>8. LockInv(t)'
  BY <1>0, <1>1, <1>4, <1>5 DEF LockInv, Reading, Writing
<1>9. LocalInv(t)'
  BY <1>0, <1>1, <1>3, <1>4, <1>5 DEF LocalInv, OwnsDesc, OwnsDesc2
<1>10. KindInv(t)'
  <2>1. PICK c \in Descs : loc[t].desc = c /\ loc'[t].desc = c /\ vtable[c] # "none"
    BY <1>0, <1>1, <1>3, <1>4, LocalsType DEF LocalInv, KindInv, OwnsDesc
  <2>2. Owns(t, c)'
    BY <1>4, <2>1 DEF Owns, OwnsDesc
  <2>3. Refers(c)'
    BY <2>2 DEF Refers
  <2>4. vtable'[c] # "none"
    BY <1>7, <2>1, <2>3
  <2> QED
    BY <1>4, <2>1, <2>4 DEF KindInv, OwnsDesc2
<1>11. MutexInv(t)' /\ NodeInv(t)'
  BY <1>0, <1>1, <1>4, <1>5 DEF MutexInv, NodeInv, Held, HoldsAll, HoldsOne
<1> QED
  BY <1>7, <1>8, <1>9, <1>10, <1>11 DEF ThreadInv

-----------------------------------------------------------------------------
(* Steps that clear or fill a slot *)

\* Where the nodes stay, so do their references.
LEMMA NodeRefsSame ==
    ASSUME NEW e, \A d \in Descs, f \in Fds : HasNode(d, f, e)' <=> HasNode(d, f, e)
    PROVE  NodeRefs(Descs, Fds, e)' = NodeRefs(Descs, Fds, e)
<1>1. \A r \in Descs \X Fds : (\E n \in nodes'[r[1]] : n.fd = r[2] /\ n.desc = e)
                                <=> (\E n \in nodes[r[1]] : n.fd = r[2] /\ n.desc = e)
  BY DEF HasNode
<1>2. {r \in Descs \X Fds : \E n \in nodes'[r[1]] : n.fd = r[2] /\ n.desc = e}
        = {r \in Descs \X Fds : \E n \in nodes[r[1]] : n.fd = r[2] /\ n.desc = e}
  BY <1>1
<1> QED
  BY <1>2 DEF NodeRefs

\* A step of thread t that moves references between a slot and itself.
LEMMA ExactMoved ==
    ASSUME RefCountExact, NEW t \in Threads, Moves(t), refcount' = refcount,
           \A e \in Descs, d \in Descs, f \in Fds : HasNode(d, f, e)' <=> HasNode(d, f, e),
           \A e \in Descs : SlotRefs(e)' + One(Owns(t, e)') + One(Owns2(t, e)')
                              = SlotRefs(e) + One(Owns(t, e)) + One(Owns2(t, e))
    PROVE  RefCountExact'
<1> SUFFICES ASSUME NEW e \in Descs
             PROVE  refcount'[e] = SlotRefs(e)' + NodeRefs(Descs, Fds, e)' + ThreadRefs(e)'
  BY DEF RefCountExact
<1>1. NodeRefs(Descs, Fds, e)' = NodeRefs(Descs, Fds, e)
  BY NodeRefsSame
<1>2. ThreadRefs(e)' + One(Owns(t, e)) + One(Owns2(t, e)) = ThreadRefs(e) + One(Owns(t, e)') + One(Owns2(t, e)')
  BY ThreadRefsMove DEF Moves
<1>3. /\ One(Owns(t, e)') \in Nat /\ One(Owns2(t, e)') \in Nat
      /\ One(Owns(t, e)) \in Nat /\ One(Owns2(t, e)) \in Nat
  BY DEF One
<1>4. SlotRefs(e)' + One(Owns(t, e)') + One(Owns2(t, e)') = SlotRefs(e) + One(Owns(t, e)) + One(Owns2(t, e))
  OBVIOUS
<1>5. /\ SlotRefs(e) \in Nat /\ NodeRefs(Descs, Fds, e) \in Nat /\ ThreadRefs(e) \in Nat
      /\ SlotRefs(e)' \in Nat /\ ThreadRefs(e)' \in Nat
  BY RefsType
<1>6. refcount'[e] = SlotRefs(e) + NodeRefs(Descs, Fds, e) + ThreadRefs(e)
  BY DEF RefCountExact
<1> QED
  BY ONLY <1>1, <1>2, <1>3, <1>4, <1>5, <1>6

\* A close takes over the table's reference and goes on as a reader.
LEMMA ClearSlotSafe ==
    ASSUME TableInv, NEW t \in Threads, ClearSlot(t)
    PROVE  TableInv'
<1>0. TypeOK /\ HeapInv /\ RefCountExact /\ LockInv(t) /\ LocalInv(t) /\ KindInv(t) /\ MutexInv(t)
  BY DEF TableInv, ThreadInv
<1>1. PICK f \in Fds : f = loc[t].fd
  BY <1>0, LocalsType
<1>2. PICK d \in Descs \cup {NULL} : d = open_files[f]
  BY <1>0 DEF TypeOK
<1> DEFINE new == [loc[t] EXCEPT !.desc = d]
<1>3. pc[t] = "close_wr" /\ pc' = [pc EXCEPT ![t] = "lock_epollfds"] /\ loc' = [loc EXCEPT ![t] = new]
  BY <1>1, <1>2 DEF ClearSlot, Goto
<1>4. new \in Locals /\ new.desc = d /\ new.desc2 = loc[t].desc2 /\ new.cur = loc[t].cur
  BY <1>0, LocalsType DEF Locals
<1>5. "lock_epollfds" \in Locations
  BY DEF Locations
<1> HIDE DEF new
<1>6. /\ Moves(t) /\ pc'[t] = "lock_epollfds" /\ loc'[t] = new
      /\ pc' \in [Threads -> Locations] /\ loc' \in [Threads -> Locals]
  BY <1>0, <1>3, <1>4, <1>5, MoveTo
<1>7. /\ announced = t /\ readers = {} /\ announced' = NoThread /\ readers' = readers \cup {t}
      /\ open_files' = [open_files EXCEPT ![f] = NULL]
      /\ UNCHANGED <<refcount, vtable, mutex, nodes, kernel, calls>>
  BY <1>1 DEF ClearSlot, WriteLocked
<1>8. TypeOK'
  BY <1>0, <1>6, <1>7 DEF TypeOK
<1>9. loc[t].desc = NULL /\ loc[t].desc2 = NULL /\ loc[t].cur = 0
  BY <1>0, <1>3 DEF LocalInv, OwnsDesc, OwnsDesc2
<1>10. RefCountExact'
  <2>1. ASSUME NEW e \in Descs
        PROVE  SlotRefs(e)' + One(Owns(t, e)') + One(Owns2(t, e)') = SlotRefs(e) + One(Owns(t, e)) + One(Owns2(t, e))
    <3>1. SlotRefs(e)' + (IF open_files[f] = e THEN 1 ELSE 0) = SlotRefs(e) + (IF NULL = e THEN 1 ELSE 0)
      <4>1. open_files'[f] = NULL /\ \A g \in Fds \ {f} : open_files'[g] = open_files[g]
        BY <1>0, <1>7 DEF TypeOK
      <4> QED
        BY <4>1, SlotRefsMove
    <3>2. Owns(t, e)' <=> open_files[f] = e
      BY <1>2, <1>4, <1>6 DEF Owns, OwnsDesc
    <3>3. ~Owns(t, e) /\ ~Owns2(t, e) /\ ~Owns2(t, e)' /\ NULL # e
      BY <1>4, <1>6, <1>9 DEF Owns, Owns2
    <3>4. SlotRefs(e) \in Nat /\ SlotRefs(e)' \in Nat
      BY RefsType
    <3> QED
      BY ONLY <3>1, <3>2, <3>3, <3>4 DEF One
  <2>2. \A e \in Descs, a \in Descs, g \in Fds : HasNode(a, g, e)' <=> HasNode(a, g, e)
    BY <1>7 DEF HasNode
  <2> QED
    BY <1>0, <1>6, <1>7, <2>1, <2>2, ExactMoved
<1>11. HeapShrinks
  BY <1>0, <1>7 DEF HeapShrinks, HeapInv, TypeOK
<1>12. LockStep(t) /\ LockInv(t)'
  BY <1>0, <1>3, <1>6, <1>7 DEF LockInv, LockStep, Reading, Writing
<1>13. TableStep(t) /\ MutexStep(t) /\ NodeStep(t)
  BY <1>7 DEF TableStep, MutexStep, NodeStep, HasNode
<1>14. LocalInv(t)'
  BY <1>4, <1>6, <1>9 DEF LocalInv, OwnsDesc, OwnsDesc2
<1>15. KindInv(t)'
  BY <1>0, <1>2, <1>4, <1>6, <1>7, <1>9 DEF KindInv, HeapInv, OwnsDesc2
<1>16. MutexInv(t)' /\ NodeInv(t)'
  <2>1. Held(t) = {} /\ Held(t)' = Held(t)
    BY <1>0, <1>3, <1>7 DEF MutexInv, Held, HoldsAll, HoldsOne
  <2>2. Passed(t)' = {}
    BY <1>4, <1>6, <1>9 DEF Passed, Fds
  <2> QED
    BY <1>6, <2>1, <2>2 DEF MutexInv, NodeInv, HoldsAll, HoldsOne
<1>17. ThreadInv(t)'
  BY <1>12, <1>14, <1>15, <1>16 DEF ThreadInv
<1> QED
  BY <1>6, <1>8, <1>10, <1>11, <1>12, <1>13, <1>17, ShrinkKeeps

\* A creation drops a description that a close behind the shim left in the slot.
LEMMA CreateKqueueSafe ==
    ASSUME TableInv, NEW t \in Threads, CreateKqueue(t)
    PROVE  TableInv'
<1>0. TypeOK /\ HeapInv /\ RefCountExact /\ LockInv(t) /\ LocalInv(t) /\ KindInv(t) /\ MutexInv(t)
  BY DEF TableInv, ThreadInv
<1>1. PICK kq \in Fds :
        /\ kernel' = [kernel EXCEPT ![kq] = "kqueue"]
        /\ loc' = [loc EXCEPT ![t].fd = kq]
        /\ open_files' = [open_files EXCEPT ![kq] = NULL]
        /\ IF open_files[kq] = NULL THEN UNCHANGED <<refcount, vtable, nodes>> ELSE Unref(open_files[kq])
  BY DEF CreateKqueue
<1> DEFINE new == [loc[t] EXCEPT !.fd = kq]
<1>2. pc[t] = "create_wr" /\ pc' = [pc EXCEPT ![t] = "create_desc"] /\ loc' = [loc EXCEPT ![t] = new]
  BY <1>1 DEF CreateKqueue, Goto
<1>3. new \in Locals /\ new.desc = loc[t].desc /\ new.desc2 = loc[t].desc2 /\ new.fd = kq
  BY <1>0, LocalsType DEF Locals
<1>4. "create_desc" \in Locations
  BY DEF Locations
<1> HIDE DEF new
<1>5. /\ Moves(t) /\ pc'[t] = "create_desc" /\ loc'[t] = new
      /\ pc' \in [Threads -> Locations] /\ loc' \in [Threads -> Locals]
  BY <1>0, <1>2, <1>3, <1>4, MoveTo
<1>6. announced = t /\ readers = {} /\ UNCHANGED <<announced, readers, mutex, calls>>
  BY DEF CreateKqueue, WriteLocked
<1>7. loc[t].desc = NULL /\ loc[t].desc2 = NULL
  BY <1>0, <1>2 DEF LocalInv, OwnsDesc, OwnsDesc2
<1>8. open_files' \in [Fds -> Descs \cup {NULL}] /\ kernel' \in [Fds -> {"closed", "kqueue", "file"}]
  BY <1>0, <1>1 DEF TypeOK
<1>9. \A e \in Descs : ~Owns(t, e) /\ ~Owns2(t, e) /\ ~Owns(t, e)' /\ ~Owns2(t, e)'
  BY <1>3, <1>5, <1>7 DEF Owns, Owns2
<1>10. LockStep(t) /\ LockInv(t)' /\ TableStep(t) /\ MutexStep(t)
  BY <1>0, <1>2, <1>5, <1>6 DEF LockInv, LockStep, TableStep, MutexStep, Reading, Writing
<1>11. LocalInv(t)' /\ KindInv(t)'
  BY <1>0, <1>1, <1>3, <1>5, <1>7 DEF LocalInv, KindInv, OwnsDesc, OwnsDesc2, TypeOK
<1>12. MutexInv(t)' /\ NodeInv(t)'
  BY <1>0, <1>2, <1>5, <1>6 DEF MutexInv, NodeInv, Held, HoldsAll, HoldsOne
<1>13. ThreadInv(t)'
  BY <1>10, <1>11, <1>12 DEF ThreadInv
<1>14. CASE open_files[kq] = NULL
  <2>1. UNCHANGED <<open_files, refcount, vtable, nodes>>
    BY <1>0, <1>1, <1>14 DEF TypeOK
  <2>2. TypeOK'
    BY <1>0, <1>5, <1>6, <1>8, <2>1 DEF TypeOK
  <2> QED
    BY <1>5, <1>9, <1>10, <1>13, <2>1, <2>2, CalmKeeps
<1>15. CASE open_files[kq] # NULL
  <2>1. PICK d \in Descs : d = open_files[kq]
    BY <1>0, <1>15 DEF TypeOK
  <2>2. Unref(d) /\ Refers(d)
    BY <1>1, <1>15, <2>1 DEF Refers
  <2>3. ASSUME NEW e \in Descs
        PROVE  SlotRefs(e)' + ThreadRefs(e)' = SlotRefs(e) + ThreadRefs(e) + (IF e = d THEN -1 ELSE 0)
    <3>1. SlotRefs(e)' + (IF open_files[kq] = e THEN 1 ELSE 0) = SlotRefs(e) + (IF NULL = e THEN 1 ELSE 0)
      <4>1. open_files'[kq] = NULL /\ \A g \in Fds \ {kq} : open_files'[g] = open_files[g]
        BY <1>0, <1>1 DEF TypeOK
      <4> QED
        BY <4>1, SlotRefsMove
    <3>2. ThreadRefs(e)' + One(Owns(t, e)) + One(Owns2(t, e)) = ThreadRefs(e) + One(Owns(t, e)') + One(Owns2(t, e)')
      BY <1>5, ThreadRefsMove DEF Moves
    <3>3. /\ One(Owns(t, e)) = 0 /\ One(Owns2(t, e)) = 0 /\ One(Owns(t, e)') = 0 /\ One(Owns2(t, e)') = 0
          /\ NULL # e /\ (open_files[kq] = e <=> e = d)
      BY <1>9, <2>1 DEF One
    <3>4. SlotRefs(e) \in Nat /\ SlotRefs(e)' \in Nat /\ ThreadRefs(e) \in Nat /\ ThreadRefs(e)' \in Nat
      BY RefsType
    <3> QED
      BY ONLY <3>1, <3>2, <3>3, <3>4
  <2>4. \A f \in Fds : open_files'[f] \in {NULL, open_files[f]}
    BY <1>0, <1>1 DEF TypeOK
  <2>5. /\ RefCountExact' /\ HeapShrinks /\ NodeStep(t)
        /\ refcount' \in [Descs -> Nat]
        /\ vtable' \in [Descs -> Kinds \cup {"none"}]
        /\ nodes' \in [Descs -> SUBSET Node]
    BY <2>2, <2>3, <2>4, UnrefFacts
  <2>6. TypeOK'
    BY <1>0, <1>5, <1>6, <1>8, <2>5 DEF TypeOK
  <2> QED
    BY <1>5, <1>10, <1>13, <2>5, <2>6, ShrinkKeeps
<1> QED
  BY <1>14, <1>15

\* A creation passes its reference to the slot and tells the kind: until then nobody
\* else refers to the description.
LEMMA InstallDescSafe ==
    ASSUME TableInv, NEW t \in Threads, InstallDesc(t)
    PROVE  TableInv'
<1>0. /\ TypeOK /\ HeapInv /\ RefCountExact /\ ClosedFdsLeaveEpoll
      /\ LockInv(t) /\ LocalInv(t) /\ KindInv(t) /\ MutexInv(t)
  BY DEF TableInv, ThreadInv
<1>1. pc[t] = "created" /\ pc' = [pc EXCEPT ![t] = "idle"] /\ loc' = [loc EXCEPT ![t] = NoLocals]
  BY DEF InstallDesc, Return, Goto
<1>2. NoLocals \in Locals /\ NoLocals.desc = NULL /\ NoLocals.desc2 = NULL /\ "idle" \in Locations
  BY DEF NoLocals, Locals, Locations, Fds
<1>3. /\ Moves(t) /\ pc'[t] = "idle" /\ loc'[t] = NoLocals
      /\ pc' \in [Threads -> Locations] /\ loc' \in [Threads -> Locals]
  BY <1>0, <1>1, <1>2, MoveTo
<1>4. PICK d \in Descs, f \in Fds : d = loc[t].desc /\ f = loc[t].fd
  BY <1>0, <1>1, LocalsType DEF LocalInv
<1>5. PICK kind \in Kinds : vtable' = [vtable EXCEPT ![d] = kind]
  BY <1>4 DEF InstallDesc
<1>6. /\ open_files' = [open_files EXCEPT ![f] = d] /\ announced' = NoThread
      /\ UNCHANGED <<readers, refcount, mutex, nodes, kernel, calls>>
  BY <1>4 DEF InstallDesc, UnlockWrite
<1>7. TypeOK'
  BY <1>0, <1>3, <1>5, <1>6 DEF TypeOK
<1>8. announced = t /\ readers = {} /\ open_files[f] = NULL /\ vtable[d] = "none" /\ loc[t].desc2 = NULL
  BY <1>0, <1>1, <1>4 DEF LockInv, LocalInv, KindInv, Writing, OwnsDesc2
<1>9. RefCountExact'
  <2>1. ASSUME NEW e \in Descs
        PROVE  SlotRefs(e)' + One(Owns(t, e)') + One(Owns2(t, e)') = SlotRefs(e) + One(Owns(t, e)) + One(Owns2(t, e))
    <3>1. SlotRefs(e)' + (IF open_files[f] = e THEN 1 ELSE 0) = SlotRefs(e) + (IF d = e THEN 1 ELSE 0)
      <4>1. open_files'[f] = d /\ \A g \in Fds \ {f} : open_files'[g] = open_files[g]
        BY <1>0, <1>6 DEF TypeOK
      <4> QED
        BY <4>1, SlotRefsMove
    <3>2. /\ One(Owns(t, e)) = (IF d = e THEN 1 ELSE 0) /\ One(Owns2(t, e)) = 0
          /\ One(Owns(t, e)') = 0 /\ One(Owns2(t, e)') = 0 /\ open_files[f] # e
      BY <1>1, <1>2, <1>3, <1>4, <1>8 DEF One, Owns, Owns2, OwnsDesc
    <3>3. SlotRefs(e) \in Nat /\ SlotRefs(e)' \in Nat
      BY RefsType
    <3> QED
      BY ONLY <3>1, <3>2, <3>3
  <2>2. \A e \in Descs, a \in Descs, g \in Fds : HasNode(a, g, e)' <=> HasNode(a, g, e)
    BY <1>6 DEF HasNode
  <2> QED
    BY <1>0, <1>3, <1>6, <2>1, <2>2, ExactMoved
<1>10. VtableStep(t)
  BY <1>0, <1>5, <1>8 DEF VtableStep, TypeOK
<1>11. LockStep(t) /\ LockInv(t)' /\ TableStep(t) /\ MutexStep(t) /\ NodeStep(t)
  BY <1>0, <1>1, <1>3, <1>6, <1>8
     DEF LockInv, LockStep, TableStep, MutexStep, NodeStep, HasNode, Reading, Writing
<1>12. \A u \in Threads \ {t} : ThreadInv(u)'
  BY <1>3, <1>7, <1>9, <1>10, <1>11, OthersKeep DEF TypeOK
<1>13. LocalInv(t)' /\ KindInv(t)'
  BY <1>2, <1>3 DEF LocalInv, KindInv, OwnsDesc, OwnsDesc2
<1>14. MutexInv(t)' /\ NodeInv(t)'
  BY <1>0, <1>1, <1>3, <1>6 DEF MutexInv, NodeInv, Held, HoldsAll, HoldsOne
<1>15. nodes[d] = {} /\ \A e \in Descs : \A n \in nodes[e] : n.desc # d
  BY <1>0, <1>8 DEF HeapInv
<1>16. refcount[d] # 0
  <2>1. Owns(t, d)
    BY <1>1, <1>4 DEF Owns, OwnsDesc
  <2>2. Refers(d)
    BY <2>1 DEF Refers
  <2> QED
    BY <1>0, <2>2, Referenced DEF TypeOK
<1>17. \A e \in Descs : vtable'[e] = IF e = d THEN kind ELSE vtable[e]
  BY <1>0, <1>5 DEF TypeOK
<1>18. \A g \in Fds : open_files'[g] = IF g = f THEN d ELSE open_files[g]
  BY <1>0, <1>6 DEF TypeOK
<1>19. HeapInv'
  <2>1. \A e \in Descs : refcount'[e] = 0 => vtable'[e] = "none"
    BY <1>0, <1>6, <1>16, <1>17 DEF HeapInv
  <2>2. \A e \in Descs : nodes'[e] # {} => vtable'[e] = "epoll"
    BY <1>0, <1>6, <1>15, <1>17 DEF HeapInv
  <2>3. \A e \in Descs : \A n \in nodes'[e] : n.desc # NULL => vtable'[n.desc] = "pollable"
    BY <1>0, <1>6, <1>15, <1>17 DEF HeapInv, TypeOK, Node
  <2>4. \A g \in Fds : open_files'[g] # NULL => vtable'[open_files'[g]] # "none"
    BY <1>0, <1>17, <1>18 DEF HeapInv, TypeOK, Kinds
  <2> QED
    BY <2>1, <2>2, <2>3, <2>4 DEF HeapInv
<1>20. ClosedFdsLeaveEpoll'
  <2>1. \A e \in Installed' : e = d \/ e \in Installed
    BY <1>17, <1>18 DEF Installed, IsEpollfd
  <2> QED
    BY <1>0, <1>6, <1>15, <2>1 DEF ClosedFdsLeaveEpoll
<1>21. ThreadInv(t)'
  BY <1>11, <1>13, <1>14 DEF ThreadInv
<1> QED
  BY <1>7, <1>9, <1>12, <1>19, <1>20, <1>21 DEF TableInv

-----------------------------------------------------------------------------
(* Steps that change nodes *)

\* Removing an fd from epollfds whose mutexes thread t holds.
LEMMA RemoveFacts ==
    ASSUME TableInv, NEW t \in Threads, NEW ds \in SUBSET Descs, NEW f \in Fds, RemoveNodes(ds, f),
           ds \subseteq Held(t), Moves(t), open_files' = open_files,
           \A e \in Descs : (Owns(t, e)' <=> Owns(t, e)) /\ (Owns2(t, e)' <=> Owns2(t, e))
    PROVE  /\ RefCountExact' /\ HeapShrinks /\ NodeStep(t)
           /\ refcount' \in [Descs -> Nat]
           /\ vtable' \in [Descs -> Kinds \cup {"none"}]
           /\ \A d \in Descs : nodes'[d] = IF d \in ds THEN {n \in nodes[d] : n.fd # f} ELSE nodes[d]
           /\ nodes' \in [Descs -> SUBSET Node]
           /\ \A e \in Descs : Refers(e)' => vtable'[e] = vtable[e]
<1>0. TypeOK /\ HeapInv /\ RefCountExact
  BY DEF TableInv
<1> DEFINE diff == [e \in Descs |-> 0]
<1>1. /\ nodes' = [d \in Descs |-> IF d \in ds THEN {n \in nodes[d] : n.fd # f} ELSE nodes[d]]
      /\ Balanced(diff)
  BY <1>0, RemoveNodesEffect
<1>2. ASSUME NEW e \in Descs
      PROVE  diff[e] \in Int /\ SlotRefs(e)' + ThreadRefs(e)' = SlotRefs(e) + ThreadRefs(e) + diff[e]
  <2>1. SlotRefs(e)' = SlotRefs(e)
    BY DEF SlotRefs
  <2>2. ThreadRefs(e)' + One(Owns(t, e)) + One(Owns2(t, e)) = ThreadRefs(e) + One(Owns(t, e)') + One(Owns2(t, e)')
    BY ThreadRefsMove DEF Moves
  <2>3. /\ One(Owns(t, e)') = One(Owns(t, e)) /\ One(Owns2(t, e)') = One(Owns2(t, e))
        /\ One(Owns(t, e)) \in Nat /\ One(Owns2(t, e)) \in Nat
    BY DEF One
  <2>4. SlotRefs(e) \in Nat /\ ThreadRefs(e) \in Nat /\ ThreadRefs(e)' \in Nat
    BY RefsType
  <2>5. ThreadRefs(e)' = ThreadRefs(e)
    BY ONLY <2>2, <2>3, <2>4
  <2> QED
    BY <2>1, <2>4, <2>5
<1> HIDE DEF diff
<1>3. RefCountExact'
  BY <1>0, <1>1, <1>2, ExactAfter
<1>4. refcount' \in [Descs -> Nat]
  <2>1. \A e \in Descs : refcount'[e] = SlotRefs(e)' + NodeRefs(Descs, Fds, e)' + ThreadRefs(e)'
    BY <1>3 DEF RefCountExact
  <2>2. \A e \in Descs : refcount'[e] \in Nat
    BY <2>1, RefsType
  <2>3. refcount' = [e \in Descs |-> refcount'[e]]
    BY DEF RemoveNodes
  <2> QED
    BY <2>2, <2>3
<1>5. vtable' = [e \in Descs |-> IF refcount'[e] = 0 THEN "none" ELSE vtable[e]]
  BY DEF RemoveNodes, Settle
<1>6. \A e \in Descs : refcount'[e] = 0 => nodes'[e] = {}
  BY DEF RemoveNodes, Settle
<1>7. HeapShrinks
  BY <1>1, <1>5, <1>6 DEF HeapShrinks
<1>8. NodeStep(t)
  BY <1>1 DEF NodeStep, HasNode, Held
<1>9. vtable' \in [Descs -> Kinds \cup {"none"}] /\ nodes' \in [Descs -> SUBSET Node]
  BY <1>0, <1>1, <1>5 DEF TypeOK
<1>10. \A e \in Descs : Refers(e)' => vtable'[e] = vtable[e]
  <2> SUFFICES ASSUME NEW e \in Descs, Refers(e)' PROVE vtable'[e] = vtable[e]
    OBVIOUS
  <2>1. refcount'[e] > 0
    BY <1>3, ReferencedNext
  <2> QED
    BY <1>5, <2>1
<1> QED
  BY <1>1, <1>3, <1>4, <1>7, <1>8, <1>9, <1>10

\* A close removes its fd from every epollfd of the table.
LEMMA RemoveFdSafe ==
    ASSUME TableInv, NEW t \in Threads, RemoveFd(t)
    PROVE  TableInv'
<1>0. TypeOK /\ HeapInv /\ LockInv(t) /\ LocalInv(t) /\ KindInv(t) /\ MutexInv(t)
  BY DEF TableInv, ThreadInv
<1>1. pc[t] = "remove_fd" /\ pc' = [pc EXCEPT ![t] = "unref_closed"] /\ loc' = [loc EXCEPT ![t] = loc[t]]
  BY <1>0, LocalsType DEF RemoveFd, Goto
<1>2. loc[t] \in Locals /\ "unref_closed" \in Locations
  BY <1>0, LocalsType DEF Locations
<1>3. /\ Moves(t) /\ pc'[t] = "unref_closed" /\ loc'[t] = loc[t]
      /\ pc' \in [Threads -> Locations] /\ loc' \in [Threads -> Locals]
  BY <1>0, <1>1, <1>2, MoveTo
<1>4. UNCHANGED <<announced, readers, open_files, mutex, kernel, calls>>
  BY DEF RemoveFd
<1>5. PICK f \in Fds : f = loc[t].fd
  BY <1>0, LocalsType
<1>6. PICK ds \in SUBSET Descs : ds = Installed
  BY DEF Installed
<1>7. RemoveNodes(ds, f)
  BY <1>5, <1>6 DEF RemoveFd
<1>8. ds = Held(t)
  BY <1>0, <1>1, <1>6 DEF MutexInv, HoldsAll
<1>9. \A e \in Descs : (Owns(t, e)' <=> Owns(t, e)) /\ (Owns2(t, e)' <=> Owns2(t, e))
  BY <1>1, <1>3 DEF Owns, Owns2, OwnsDesc, OwnsDesc2
<1>10. /\ RefCountExact' /\ HeapShrinks /\ NodeStep(t)
       /\ refcount' \in [Descs -> Nat]
       /\ vtable' \in [Descs -> Kinds \cup {"none"}]
       /\ \A d \in Descs : nodes'[d] = IF d \in ds THEN {n \in nodes[d] : n.fd # f} ELSE nodes[d]
       /\ nodes' \in [Descs -> SUBSET Node]
       /\ \A e \in Descs : Refers(e)' => vtable'[e] = vtable[e]
  <2>1. ds \subseteq Held(t) /\ open_files' = open_files
    BY <1>4, <1>8
  <2> QED
    BY <1>3, <1>7, <1>9, <2>1, RemoveFacts
<1>11. TypeOK'
  BY <1>0, <1>3, <1>4, <1>10 DEF TypeOK
<1>12. LockStep(t) /\ LockInv(t)' /\ TableStep(t) /\ MutexStep(t)
  BY <1>0, <1>1, <1>3, <1>4 DEF LockInv, LockStep, TableStep, MutexStep, Reading, Writing
<1>13. LocalInv(t)'
  BY <1>0, <1>1, <1>3, <1>4 DEF LocalInv, OwnsDesc, OwnsDesc2
<1>14. KindInv(t)'
  <2>1. ASSUME NEW e \in Descs, loc[t].desc = e PROVE vtable'[e] = vtable[e]
    <3>1. Owns(t, e)'
      BY <1>3, <2>1 DEF Owns, OwnsDesc
    <3>2. Refers(e)'
      BY <3>1 DEF Refers
    <3> QED
      BY <1>10, <3>2
  <2>2. loc[t].desc \in Descs \cup {NULL}
    BY <1>0, LocalsType
  <2> QED
    BY <1>0, <1>1, <1>3, <2>1, <2>2 DEF KindInv, OwnsDesc, OwnsDesc2
<1>15. Installed' = ds
  <2>1. ASSUME NEW e \in Descs, NEW g \in Fds, open_files[g] = e PROVE vtable'[e] = vtable[e]
    <3>1. Refers(e)'
      BY <1>4, <2>1 DEF Refers
    <3> QED
      BY <1>10, <3>1
  <2> QED
    BY <1>4, <1>6, <2>1 DEF Installed, IsEpollfd
<1>16. MutexInv(t)'
  <2>1. Held(t)' = ds
    BY <1>4, <1>8 DEF Held
  <2> QED
    BY <1>3, <1>15, <2>1 DEF MutexInv, HoldsAll, HoldsOne
<1>17. NodeInv(t)'
  <2>1. \A d \in ds, e \in Descs \cup {NULL} : ~HasNode(d, f, e)'
    BY <1>10 DEF HasNode
  <2> QED
    BY <1>3, <1>5, <1>15, <2>1 DEF NodeInv
<1>18. ThreadInv(t)'
  BY <1>12, <1>13, <1>14, <1>16, <1>17 DEF ThreadInv
<1> QED
  BY <1>3, <1>10, <1>11, <1>12, <1>18, ShrinkKeeps

\* A close without a description goes on to close the fd.
LEMMA UnrefClosedNothingSafe ==
    ASSUME TableInv, NEW t \in Threads, UnrefClosed(t), loc[t].desc = NULL
    PROVE  TableInv'
<1>0. TypeOK /\ HeapInv /\ LockInv(t) /\ LocalInv(t) /\ KindInv(t) /\ MutexInv(t) /\ NodeInv(t)
  BY DEF TableInv, ThreadInv
<1> DEFINE new == [loc[t] EXCEPT !.desc = NULL]
<1>1. pc[t] = "unref_closed" /\ pc' = [pc EXCEPT ![t] = "real_close"] /\ loc' = [loc EXCEPT ![t] = new]
  BY DEF UnrefClosed, Goto
<1>2. new \in Locals /\ new.desc = NULL /\ new.desc2 = loc[t].desc2 /\ new.fd = loc[t].fd /\ "real_close" \in Locations
  BY <1>0, LocalsType DEF Locals, Locations
<1> HIDE DEF new
<1>3. /\ Moves(t) /\ pc'[t] = "real_close" /\ loc'[t] = new
      /\ pc' \in [Threads -> Locations] /\ loc' \in [Threads -> Locals]
  BY <1>0, <1>1, <1>2, MoveTo
<1>4. UNCHANGED <<announced, readers, open_files, refcount, vtable, nodes, mutex, kernel, calls>>
  BY DEF UnrefClosed
<1>5. TypeOK'
  BY <1>0, <1>3, <1>4 DEF TypeOK
<1>6. LockStep(t) /\ LockInv(t)' /\ MutexStep(t)
  BY <1>0, <1>1, <1>3, <1>4 DEF LockInv, LockStep, MutexStep, Reading, Writing
<1>7. \A e \in Descs : (Owns(t, e)' <=> Owns(t, e)) /\ (Owns2(t, e)' <=> Owns2(t, e))
  BY <1>1, <1>2, <1>3 DEF Owns, Owns2, OwnsDesc, OwnsDesc2
<1>8. LocalInv(t)' /\ KindInv(t)'
  BY <1>0, <1>1, <1>2, <1>3, <1>4 DEF LocalInv, KindInv, OwnsDesc, OwnsDesc2
<1>9. MutexInv(t)'
  BY <1>0, <1>1, <1>3, <1>4 DEF MutexInv, Held, Installed, IsEpollfd, HoldsAll, HoldsOne
<1>10. NodeInv(t)'
  BY <1>0, <1>1, <1>2, <1>3, <1>4 DEF NodeInv, HasNode, Installed, IsEpollfd
<1>11. ThreadInv(t)'
  BY <1>6, <1>8, <1>9, <1>10 DEF ThreadInv
<1> QED
  BY <1>3, <1>4, <1>5, <1>6, <1>7, <1>11, CalmKeeps

\* The real close makes older nodes for the fd stale: none is left in the table's
\* instances.
LEMMA RealCloseSafe ==
    ASSUME TableInv, NEW t \in Threads, RealClose(t)
    PROVE  TableInv'
<1>0. /\ TypeOK /\ HeapInv /\ RefCountExact /\ ClosedFdsLeaveEpoll
      /\ LockInv(t) /\ LocalInv(t) /\ KindInv(t) /\ MutexInv(t) /\ NodeInv(t)
  BY DEF TableInv, ThreadInv
<1>1. pc[t] = "real_close" /\ pc' = [pc EXCEPT ![t] = "unlock_epollfds"] /\ loc' = [loc EXCEPT ![t] = loc[t]]
  BY <1>0, LocalsType DEF RealClose, Goto
<1>2. loc[t] \in Locals /\ "unlock_epollfds" \in Locations
  BY <1>0, LocalsType DEF Locations
<1>3. /\ Moves(t) /\ pc'[t] = "unlock_epollfds" /\ loc'[t] = loc[t]
      /\ pc' \in [Threads -> Locations] /\ loc' \in [Threads -> Locals]
  BY <1>0, <1>1, <1>2, MoveTo
<1>4. UNCHANGED <<announced, readers, open_files, refcount, vtable, mutex, calls>>
  BY DEF RealClose
<1>5. PICK f \in Fds : f = loc[t].fd
  BY <1>0, LocalsType
<1>6. /\ nodes' = [d \in Descs |-> {IF n.fd = f THEN [n EXCEPT !.fresh = FALSE] ELSE n : n \in nodes[d]}]
      /\ kernel' = [kernel EXCEPT ![f] = "closed"]
  BY <1>5 DEF RealClose, KernelClose
<1>7. ASSUME NEW d \in Descs
      PROVE  /\ \A m \in nodes'[d] : /\ m \in Node
                                     /\ \E n \in nodes[d] : m.fd = n.fd /\ m.desc = n.desc /\ (n.fd # f => m = n)
             /\ \A n \in nodes[d] : \E m \in nodes'[d] : m.fd = n.fd /\ m.desc = n.desc
  <2>1. \A n \in nodes[d] : n \in Node
    BY <1>0 DEF TypeOK
  <2>2. ASSUME NEW n \in Node
        PROVE  LET m == [n EXCEPT !.fresh = FALSE] IN m \in Node /\ m.fd = n.fd /\ m.desc = n.desc
    BY DEF Node
  <2>3. nodes'[d] = {IF n.fd = f THEN [n EXCEPT !.fresh = FALSE] ELSE n : n \in nodes[d]}
    BY <1>6
  <2>4. ASSUME NEW m \in nodes'[d]
        PROVE  /\ m \in Node
               /\ \E n \in nodes[d] : m.fd = n.fd /\ m.desc = n.desc /\ (n.fd # f => m = n)
    <3>1. PICK n \in nodes[d] : m = IF n.fd = f THEN [n EXCEPT !.fresh = FALSE] ELSE n
      BY <2>3, <2>4
    <3>2. n \in Node
      BY <2>1
    <3>3. CASE n.fd = f
      BY <2>2, <3>1, <3>2, <3>3
    <3>4. CASE n.fd # f
      BY <3>1, <3>2, <3>4
    <3> QED
      BY <3>3, <3>4
  <2>5. ASSUME NEW n \in nodes[d] PROVE \E m \in nodes'[d] : m.fd = n.fd /\ m.desc = n.desc
    <3>1. (IF n.fd = f THEN [n EXCEPT !.fresh = FALSE] ELSE n) \in nodes'[d]
      BY <2>3, <2>5
    <3>2. n \in Node
      BY <2>1
    <3> QED
      BY <2>2, <3>1, <3>2
  <2> QED
    BY <2>4, <2>5
<1>8. nodes' \in [Descs -> SUBSET Node]
  <2>1. \A d \in Descs : nodes'[d] \subseteq Node
    BY <1>7
  <2>2. nodes' = [d \in Descs |-> nodes'[d]]
    BY <1>6
  <2> QED
    BY <2>1, <2>2
<1>9. TypeOK'
  BY <1>0, <1>3, <1>4, <1>6, <1>8 DEF TypeOK
<1>10. \A d \in Descs : \A g, e : HasNode(d, g, e)' <=> HasNode(d, g, e)
  BY <1>7 DEF HasNode
<1>11. RefCountExact'
  <2>1. ASSUME NEW e \in Descs
        PROVE  SlotRefs(e)' + One(Owns(t, e)') + One(Owns2(t, e)') = SlotRefs(e) + One(Owns(t, e)) + One(Owns2(t, e))
    <3>1. SlotRefs(e)' = SlotRefs(e)
      BY <1>4 DEF SlotRefs
    <3>2. (Owns(t, e)' <=> Owns(t, e)) /\ (Owns2(t, e)' <=> Owns2(t, e))
      <4>1. loc[t].desc = NULL
        BY <1>0, <1>1 DEF LocalInv, OwnsDesc
      <4> QED
        BY <1>1, <1>3, <4>1 DEF Owns, Owns2, OwnsDesc2
    <3> QED
      BY ONLY <3>1, <3>2 DEF One
  <2> QED
    BY <1>0, <1>3, <1>4, <1>10, <2>1, ExactMoved
<1>12. /\ LockStep(t) /\ LockInv(t)' /\ TableStep(t) /\ MutexStep(t) /\ VtableStep(t) /\ NodeStep(t)
  BY <1>0, <1>1, <1>3, <1>4, <1>10
     DEF LockInv, LockStep, TableStep, MutexStep, VtableStep, NodeStep, Reading, Writing
<1>13. \A u \in Threads \ {t} : ThreadInv(u)'
  BY <1>3, <1>9, <1>11, <1>12, OthersKeep DEF TypeOK
<1>14. LocalInv(t)' /\ KindInv(t)'
  BY <1>0, <1>1, <1>3, <1>4 DEF LocalInv, KindInv, OwnsDesc, OwnsDesc2
<1>15. MutexInv(t)' /\ NodeInv(t)'
  BY <1>0, <1>1, <1>3, <1>4 DEF MutexInv, NodeInv, Held, Installed, IsEpollfd, HoldsAll, HoldsOne
<1>16. HeapInv'
  <2>1. \A d \in Descs : nodes'[d] # {} => nodes[d] # {}
    BY <1>7
  <2>2. \A d \in Descs : \A m \in nodes'[d] : m.desc # NULL => vtable[m.desc] = "pollable"
    BY <1>0, <1>7 DEF HeapInv
  <2> QED
    BY <1>0, <1>4, <2>1, <2>2 DEF HeapInv
<1>17. ClosedFdsLeaveEpoll'
  <2>1. Installed' = Installed
    BY <1>4 DEF Installed, IsEpollfd
  <2> SUFFICES ASSUME NEW d \in Installed, NEW m \in nodes'[d] PROVE m.fresh
    BY <2>1 DEF ClosedFdsLeaveEpoll
  <2>2. d \in Descs
    BY DEF Installed
  <2>3. PICK n \in nodes[d] : m.fd = n.fd /\ m.desc = n.desc /\ (n.fd # f => m = n)
    BY <1>7, <2>2
  <2>4. n \in Node
    BY <1>0, <2>2 DEF TypeOK
  <2>5. n.desc \in Descs \cup {NULL}
    BY <2>4 DEF Node
  <2>6. n.fd # f
    BY <1>0, <1>1, <1>5, <2>5 DEF NodeInv, HasNode
  <2> QED
    BY <1>0, <2>3, <2>6 DEF ClosedFdsLeaveEpoll
<1>18. ThreadInv(t)'
  BY <1>12, <1>14, <1>15 DEF ThreadInv
<1> QED
  BY <1>9, <1>11, <1>13, <1>16, <1>17, <1>18 DEF TableInv

\* The end of an operation; epoll_wait drops nodes whose fd is closed, which
\* reference nothing.
LEMMA UseDoneSafe ==
    ASSUME TableInv, NEW t \in Threads, UseDone(t)
    PROVE  TableInv'
<1>0. TypeOK /\ HeapInv /\ RefCountExact /\ LockInv(t) /\ LocalInv(t) /\ KindInv(t) /\ MutexInv(t)
  BY DEF TableInv, ThreadInv
<1> DEFINE new == [loc[t] EXCEPT !.desc2 = NULL]
<1>1. pc[t] = "in_use" /\ pc' = [pc EXCEPT ![t] = "unref"] /\ loc' = [loc EXCEPT ![t] = new]
  BY DEF UseDone, Goto
<1>2. new \in Locals /\ new.desc = loc[t].desc /\ new.desc2 = NULL /\ "unref" \in Locations
  BY <1>0, LocalsType DEF Locals, Locations
<1> HIDE DEF new
<1>3. /\ Moves(t) /\ pc'[t] = "unref" /\ loc'[t] = new
      /\ pc' \in [Threads -> Locations] /\ loc' \in [Threads -> Locals]
  BY <1>0, <1>1, <1>2, MoveTo
<1>4. PICK d \in Descs : d = loc[t].desc
  BY <1>0, <1>1, LocalsType DEF LocalInv
<1>5. /\ UNCHANGED <<announced, readers, open_files, refcount, vtable, kernel, calls>>
      /\ mutex' = [mutex EXCEPT ![d] = NoThread]
  BY <1>4 DEF UseDone
<1>6. PICK gone \in SUBSET {n \in nodes[d] : n.desc = NULL} : nodes' = [nodes EXCEPT ![d] = @ \ gone]
  BY <1>4 DEF UseDone
<1>7. Held(t) = {d}
  BY <1>0, <1>1, <1>4 DEF MutexInv, HoldsOne
<1>8. TypeOK'
  BY <1>0, <1>3, <1>5, <1>6 DEF TypeOK
<1>9. \A a \in Descs : \A g, e : e # NULL \/ a # d => (HasNode(a, g, e)' <=> HasNode(a, g, e))
  BY <1>0, <1>6 DEF HasNode, TypeOK
<1>10. RefCountExact'
  <2>1. ASSUME NEW e \in Descs
        PROVE  SlotRefs(e)' + One(Owns(t, e)') + One(Owns2(t, e)') = SlotRefs(e) + One(Owns(t, e)) + One(Owns2(t, e))
    <3>1. SlotRefs(e)' = SlotRefs(e)
      BY <1>5 DEF SlotRefs
    <3>2. (Owns(t, e)' <=> Owns(t, e)) /\ (Owns2(t, e)' <=> Owns2(t, e))
      BY <1>1, <1>2, <1>3 DEF Owns, Owns2, OwnsDesc, OwnsDesc2
    <3> QED
      BY ONLY <3>1, <3>2 DEF One
  <2>2. \A e \in Descs, a \in Descs, g \in Fds : HasNode(a, g, e)' <=> HasNode(a, g, e)
    BY <1>9
  <2> QED
    BY <1>0, <1>3, <1>5, <2>1, <2>2, ExactMoved
<1>11. HeapShrinks
  BY <1>0, <1>5, <1>6 DEF HeapShrinks, HeapInv, TypeOK
<1>12. MutexStep(t) /\ Held(t)' = {}
  <2>1. \A a \in Descs : mutex'[a] = IF a = d THEN NoThread ELSE mutex[a]
    BY <1>0, <1>5 DEF TypeOK
  <2>2. mutex[d] = t
    BY <1>7 DEF Held
  <2> QED
    BY <1>7, <2>1, <2>2 DEF MutexStep, Held
<1>13. NodeStep(t)
  <2>1. mutex[d] = t
    BY <1>7 DEF Held
  <2> QED
    BY <1>9, <2>1 DEF NodeStep
<1>14. LockStep(t) /\ LockInv(t)' /\ TableStep(t)
  BY <1>0, <1>1, <1>3, <1>5 DEF LockInv, LockStep, TableStep, Reading, Writing
<1>15. LocalInv(t)' /\ KindInv(t)'
  BY <1>0, <1>1, <1>2, <1>3, <1>5 DEF LocalInv, KindInv, OwnsDesc, OwnsDesc2
<1>16. MutexInv(t)' /\ NodeInv(t)'
  BY <1>3, <1>12 DEF MutexInv, NodeInv, HoldsAll, HoldsOne
<1>17. ThreadInv(t)'
  BY <1>14, <1>15, <1>16 DEF ThreadInv
<1> QED
  BY <1>3, <1>8, <1>10, <1>11, <1>12, <1>13, <1>14, <1>17, ShrinkKeeps

\* A new node adds its reference.
LEMMA NodeRefsMore ==
    ASSUME NEW d \in Descs, NEW f \in Fds, NEW e,
           ~HasNode(d, f, e), HasNode(d, f, e)',
           \A a \in Descs, g \in Fds : a # d \/ g # f => (HasNode(a, g, e)' <=> HasNode(a, g, e))
    PROVE  NodeRefs(Descs, Fds, e)' = NodeRefs(Descs, Fds, e) + 1
<1> DEFINE X == {r \in Descs \X Fds : \E n \in nodes[r[1]] : n.fd = r[2] /\ n.desc = e}
           Y == {r \in Descs \X Fds : \E n \in nodes'[r[1]] : n.fd = r[2] /\ n.desc = e}
           x == <<d, f>>
<1>1. \A r \in Descs \X Fds : /\ r \in X <=> HasNode(r[1], r[2], e)
                              /\ r \in Y <=> HasNode(r[1], r[2], e)'
                              /\ r[1] \in Descs /\ r[2] \in Fds
                              /\ r # x => r[1] # d \/ r[2] # f
  BY DEF HasNode
<1>2. x \in Descs \X Fds /\ x[1] = d /\ x[2] = f /\ X \subseteq Descs \X Fds /\ Y \subseteq Descs \X Fds
  OBVIOUS
<1>3. NodeRefs(Descs, Fds, e) = Cardinality(X) /\ NodeRefs(Descs, Fds, e)' = Cardinality(Y)
  BY DEF NodeRefs
<1> HIDE DEF X, Y, x
<1>4. x \notin X /\ x \in Y
  BY <1>1, <1>2
<1>5. X \ {x} = Y \ {x}
  BY <1>1, <1>2
<1>6. IsFiniteSet(X) /\ IsFiniteSet(Y)
  BY <1>2, FdsFinite, FS_Subset
<1>7. /\ Cardinality(X) \in Nat /\ Cardinality(Y) \in Nat
      /\ Cardinality(Y) + One(x \in X) = Cardinality(X) + One(x \in Y)
  BY <1>5, <1>6, SameButOne
<1> QED
  BY <1>3, <1>4, <1>7 DEF One

\* What the three outcomes of epoll_ctl have in common: the mutex is released.
LEMMA CtlFrame ==
    ASSUME TableInv, NEW t \in Threads, Ctl(t)
    PROVE  /\ pc[t] = "ctl" /\ pc'[t] = "unref2" /\ loc'[t] = loc[t] /\ Moves(t)
           /\ pc' \in [Threads -> Locations] /\ loc' \in [Threads -> Locals]
           /\ UNCHANGED <<announced, readers, open_files, kernel, calls>>
           /\ mutex' \in [Descs -> Threads \cup {NoThread}]
           /\ loc[t].desc \in Descs /\ Held(t) = {loc[t].desc} /\ Held(t)' = {}
           /\ vtable[loc[t].desc] = "epoll"
           /\ LockStep(t) /\ TableStep(t) /\ MutexStep(t)
           /\ LockInv(t)' /\ LocalInv(t)' /\ MutexInv(t)' /\ NodeInv(t)'
           /\ \A e \in Descs : (Owns(t, e)' <=> Owns(t, e)) /\ (Owns2(t, e)' <=> Owns2(t, e))
<1>0. TypeOK /\ LockInv(t) /\ LocalInv(t) /\ KindInv(t) /\ MutexInv(t)
  BY DEF TableInv, ThreadInv
<1>1. pc[t] = "ctl" /\ pc' = [pc EXCEPT ![t] = "unref2"] /\ loc' = [loc EXCEPT ![t] = loc[t]]
  BY <1>0, LocalsType DEF Ctl, Goto
<1>2. loc[t] \in Locals /\ "unref2" \in Locations
  BY <1>0, LocalsType DEF Locations
<1>3. /\ Moves(t) /\ pc'[t] = "unref2" /\ loc'[t] = loc[t]
      /\ pc' \in [Threads -> Locations] /\ loc' \in [Threads -> Locals]
  BY <1>0, <1>1, <1>2, MoveTo
<1>4. PICK d \in Descs : d = loc[t].desc
  BY <1>0, <1>1, LocalsType DEF LocalInv
<1>5. UNCHANGED <<announced, readers, open_files, kernel, calls>> /\ mutex' = [mutex EXCEPT ![d] = NoThread]
  BY <1>4 DEF Ctl
<1>6. Held(t) = {d} /\ vtable[d] = "epoll"
  BY <1>0, <1>1, <1>4 DEF MutexInv, KindInv, HoldsOne
<1>7. \A a \in Descs : mutex'[a] = IF a = d THEN NoThread ELSE mutex[a]
  BY <1>0, <1>5 DEF TypeOK
<1>8. mutex[d] = t /\ mutex' \in [Descs -> Threads \cup {NoThread}]
  BY <1>0, <1>5, <1>6 DEF Held, TypeOK
<1>9. MutexStep(t) /\ Held(t)' = {}
  BY <1>6, <1>7, <1>8 DEF MutexStep, Held
<1>10. LockStep(t) /\ LockInv(t)' /\ TableStep(t)
  BY <1>0, <1>1, <1>3, <1>5 DEF LockInv, LockStep, TableStep, Reading, Writing
<1>11. LocalInv(t)'
  BY <1>0, <1>1, <1>3, <1>5 DEF LocalInv, OwnsDesc, OwnsDesc2
<1>12. MutexInv(t)' /\ NodeInv(t)'
  BY <1>3, <1>9 DEF MutexInv, NodeInv, HoldsAll, HoldsOne
<1>13. \A e \in Descs : (Owns(t, e)' <=> Owns(t, e)) /\ (Owns2(t, e)' <=> Owns2(t, e))
  BY <1>1, <1>3 DEF Owns, Owns2, OwnsDesc, OwnsDesc2
<1> QED
  BY <1>1, <1>3, <1>4, <1>5, <1>6, <1>8, <1>9, <1>10, <1>11, <1>12, <1>13

\* epoll_ctl that changes no node.
LEMMA CtlNothingSafe ==
    ASSUME TableInv, NEW t \in Threads, Ctl(t), UNCHANGED <<refcount, vtable, nodes>>
    PROVE  TableInv'
<1>0. TypeOK /\ KindInv(t)
  BY DEF TableInv, ThreadInv
<1>1. TypeOK'
  BY <1>0, CtlFrame DEF TypeOK
<1>2. KindInv(t)'
  BY <1>0, CtlFrame DEF KindInv, OwnsDesc, OwnsDesc2
<1>3. ThreadInv(t)'
  BY <1>2, CtlFrame DEF ThreadInv
<1> QED
  BY <1>1, <1>3, CtlFrame, CalmKeeps

\* epoll_ctl that removes a node.
LEMMA CtlRemoveSafe ==
    ASSUME TableInv, NEW t \in Threads, Ctl(t), RemoveNodes({loc[t].desc}, loc[t].fd2)
    PROVE  TableInv'
<1>0. TypeOK /\ KindInv(t) /\ LocalInv(t)
  BY DEF TableInv, ThreadInv
<1>1. PICK d \in Descs, f \in Fds : d = loc[t].desc /\ f = loc[t].fd2
  BY <1>0, CtlFrame, LocalsType
<1> DEFINE ds == {d}
<1> HIDE DEF ds
<1>2. RemoveNodes(ds, f) /\ ds \subseteq Held(t) /\ open_files' = open_files
  BY <1>1, CtlFrame DEF ds
<1>3. Moves(t) /\ \A e \in Descs : (Owns(t, e)' <=> Owns(t, e)) /\ (Owns2(t, e)' <=> Owns2(t, e))
  BY CtlFrame
<1>4. /\ RefCountExact' /\ HeapShrinks /\ NodeStep(t)
      /\ refcount' \in [Descs -> Nat]
      /\ vtable' \in [Descs -> Kinds \cup {"none"}]
      /\ nodes' \in [Descs -> SUBSET Node]
      /\ \A e \in Descs : Refers(e)' => vtable'[e] = vtable[e]
  <2>1. ds \in SUBSET Descs
    BY DEF ds
  <2> QED
    BY <1>2, <1>3, <2>1, RemoveFacts
<1>5. TypeOK'
  BY <1>0, <1>4, CtlFrame DEF TypeOK
<1>6. \A e \in Descs : Owns(t, e) \/ Owns2(t, e) => vtable'[e] = vtable[e]
  <2> SUFFICES ASSUME NEW e \in Descs, Owns(t, e) \/ Owns2(t, e) PROVE vtable'[e] = vtable[e]
    OBVIOUS
  <2>1. Refers(e)'
    BY <1>3 DEF Refers
  <2> QED
    BY <1>4, <2>1
<1>7. KindInv(t)'
  <2>1. pc[t] = "ctl" /\ pc'[t] = "unref2" /\ loc'[t] = loc[t]
    BY CtlFrame
  <2>2. loc[t].desc \in Descs /\ loc[t].desc2 \in Descs \cup {NULL}
    BY <1>0, <1>1, LocalsType
  <2>3. vtable'[loc[t].desc] # "none"
    BY <1>0, <1>6, <2>1, <2>2 DEF KindInv, Owns, OwnsDesc
  <2>4. loc[t].desc2 # NULL => vtable'[loc[t].desc2] # "none"
    BY <1>0, <1>6, <2>1, <2>2 DEF KindInv, Owns2, OwnsDesc2
  <2> QED
    BY <2>1, <2>3, <2>4 DEF KindInv
<1>8. ThreadInv(t)'
  BY <1>7, CtlFrame DEF ThreadInv
<1> QED
  BY <1>4, <1>5, <1>8, CtlFrame, ShrinkKeeps

\* epoll_ctl that adds a node, with its reference.
LEMMA CtlAddSafe ==
    ASSUME TableInv, NEW t \in Threads, Ctl(t), AddNode(t),
           ~\E n \in nodes[loc[t].desc] : n.fd = loc[t].fd2
    PROVE  TableInv'
<1>0. TypeOK /\ HeapInv /\ RefCountExact /\ ClosedFdsLeaveEpoll /\ KindInv(t) /\ LocalInv(t)
  BY DEF TableInv, ThreadInv
<1>1. PICK d \in Descs, f \in Fds : d = loc[t].desc /\ f = loc[t].fd2
  BY <1>0, CtlFrame, LocalsType
<1>2. PICK p \in Descs \cup {NULL} : p = PollableDesc(t)
  BY <1>0, LocalsType DEF PollableDesc
<1>3. p # NULL => vtable[p] = "pollable"
  BY <1>2 DEF PollableDesc
<1> DEFINE new == [fd |-> f, desc |-> p, fresh |-> TRUE]
<1>4. new \in Node /\ new.fd = f /\ new.desc = p /\ new.fresh
  BY DEF Node
<1>5. /\ nodes' = [nodes EXCEPT ![d] = @ \cup {new}]
      /\ refcount' = IF p = NULL THEN refcount ELSE [refcount EXCEPT ![p] = @ + 1]
      /\ vtable' = vtable
  BY <1>1, <1>2 DEF AddNode
<1> HIDE DEF new
<1>6. TypeOK'
  BY <1>0, <1>4, <1>5, CtlFrame DEF TypeOK
<1>7. \A a \in Descs : nodes'[a] = IF a = d THEN nodes[d] \cup {new} ELSE nodes[a]
  BY <1>0, <1>5 DEF TypeOK
<1>8. \A n \in nodes[d] : n.fd # f
  BY <1>1
<1>9. \A a \in Descs : \A g, e : HasNode(a, g, e)' <=> HasNode(a, g, e) \/ (a = d /\ g = f /\ e = p)
  BY <1>4, <1>7 DEF HasNode
<1>10. \A e : ~HasNode(d, f, e)
  BY <1>8 DEF HasNode
<1>11. RefCountExact'
  <2> SUFFICES ASSUME NEW e \in Descs
               PROVE  refcount'[e] = SlotRefs(e)' + NodeRefs(Descs, Fds, e)' + ThreadRefs(e)'
    BY DEF RefCountExact
  <2>1. SlotRefs(e)' = SlotRefs(e)
    <3>1. open_files' = open_files
      BY CtlFrame
    <3> QED
      BY <3>1 DEF SlotRefs
  <2>2. ThreadRefs(e)' = ThreadRefs(e)
    <3>1. ThreadRefs(e)' + One(Owns(t, e)) + One(Owns2(t, e)) = ThreadRefs(e) + One(Owns(t, e)') + One(Owns2(t, e)')
      BY CtlFrame, ThreadRefsMove DEF Moves
    <3>2. (Owns(t, e)' <=> Owns(t, e)) /\ (Owns2(t, e)' <=> Owns2(t, e))
      BY CtlFrame
    <3>3. /\ One(Owns(t, e)') = One(Owns(t, e)) /\ One(Owns2(t, e)') = One(Owns2(t, e))
          /\ One(Owns(t, e)) \in Nat /\ One(Owns2(t, e)) \in Nat
      BY <3>2 DEF One
    <3>4. ThreadRefs(e) \in Nat /\ ThreadRefs(e)' \in Nat
      BY RefsType
    <3> QED
      BY ONLY <3>1, <3>3, <3>4
  <2>3. refcount[e] = SlotRefs(e) + NodeRefs(Descs, Fds, e) + ThreadRefs(e)
    BY <1>0 DEF RefCountExact
  <2>4. SlotRefs(e) \in Nat /\ NodeRefs(Descs, Fds, e) \in Nat /\ ThreadRefs(e) \in Nat
    BY RefsType
  <2>5. CASE e = p
    <3>1. NodeRefs(Descs, Fds, e)' = NodeRefs(Descs, Fds, e) + 1
      <4>1. ~HasNode(d, f, e) /\ HasNode(d, f, e)'
        BY <1>9, <1>10, <2>5
      <4>2. \A a \in Descs, g \in Fds : a # d \/ g # f => (HasNode(a, g, e)' <=> HasNode(a, g, e))
        BY <1>9
      <4> QED
        BY <4>1, <4>2, NodeRefsMore
    <3>2. refcount'[e] = refcount[e] + 1
      BY <1>0, <1>5, <2>5 DEF TypeOK
    <3> QED
      BY ONLY <2>1, <2>2, <2>3, <2>4, <3>1, <3>2
  <2>6. CASE e # p
    <3>1. NodeRefs(Descs, Fds, e)' = NodeRefs(Descs, Fds, e)
      BY <1>9, <2>6, NodeRefsSame
    <3>2. refcount'[e] = refcount[e]
      BY <1>0, <1>5, <2>6 DEF TypeOK
    <3> QED
      BY ONLY <2>1, <2>2, <2>3, <2>4, <3>1, <3>2
  <2> QED
    BY <2>5, <2>6
<1>12. \A e \in Descs : refcount'[e] = 0 => refcount[e] = 0
  BY <1>0, <1>5 DEF TypeOK
<1>13. HeapInv'
  <2>1. \A e \in Descs : refcount'[e] = 0 => vtable'[e] = "none"
    BY <1>0, <1>5, <1>12 DEF HeapInv
  <2>2. \A a \in Descs : nodes'[a] # {} => vtable'[a] = "epoll"
    BY <1>0, <1>1, <1>5, <1>7, CtlFrame DEF HeapInv
  <2>3. \A a \in Descs : \A n \in nodes'[a] : n.desc # NULL => vtable'[n.desc] = "pollable"
    BY <1>0, <1>3, <1>4, <1>5, <1>7 DEF HeapInv
  <2>4. \A g \in Fds : open_files'[g] # NULL => vtable'[open_files'[g]] # "none"
    BY <1>0, <1>5, CtlFrame DEF HeapInv
  <2> QED
    BY <2>1, <2>2, <2>3, <2>4 DEF HeapInv
<1>14. ClosedFdsLeaveEpoll'
  <2>1. Installed' = Installed
    BY <1>5, CtlFrame DEF Installed, IsEpollfd
  <2>2. \A a \in Installed : a \in Descs
    BY DEF Installed
  <2> QED
    BY <1>0, <1>4, <1>7, <2>1, <2>2 DEF ClosedFdsLeaveEpoll
<1>15. NodeStep(t) /\ VtableStep(t)
  <2>1. mutex[d] = t
    BY <1>1, CtlFrame DEF Held
  <2> QED
    BY <1>5, <1>9, <2>1 DEF NodeStep, VtableStep
<1>16. refcount' \in [Descs -> Nat]
  BY <1>6 DEF TypeOK
<1>17. \A u \in Threads \ {t} : ThreadInv(u)'
  BY <1>11, <1>15, <1>16, CtlFrame, OthersKeep
<1>18. KindInv(t)'
  BY <1>0, <1>5, CtlFrame DEF KindInv, OwnsDesc, OwnsDesc2
<1>19. ThreadInv(t)'
  BY <1>18, CtlFrame DEF ThreadInv
<1> QED
  BY <1>6, <1>11, <1>13, <1>14, <1>17, <1>19 DEF TableInv

\* epoll_ctl has one of these three outcomes.
LEMMA CtlSafe ==
    ASSUME TableInv, NEW t \in Threads, Ctl(t)
    PROVE  TableInv'
<1>1. \/ UNCHANGED <<refcount, vtable, nodes>>
      \/ RemoveNodes({loc[t].desc}, loc[t].fd2)
      \/ AddNode(t) /\ ~\E n \in nodes[loc[t].desc] : n.fd = loc[t].fd2
  BY DEF Ctl
<1> QED
  BY <1>1, CtlNothingSafe, CtlRemoveSafe, CtlAddSafe

-----------------------------------------------------------------------------
(* The theorems *)

\* Steps of the rest of the program concern the kernel alone.
LEMMA KernelSafe ==
    ASSUME TableInv, kernel' \in [Fds -> {"closed", "kqueue", "file"}],
           UNCHANGED <<announced, readers, open_files, refcount, vtable, mutex, nodes, pc, loc, calls>>
    PROVE  TableInv'
<1>1. TypeOK' /\ HeapInv' /\ RefCountExact' /\ ClosedFdsLeaveEpoll'
  BY DEF TableInv, TypeOK, HeapInv, RefCountExact, SlotRefs, NodeRefs, ThreadRefs,
         ClosedFdsLeaveEpoll, Installed, IsEpollfd
<1>2. \A t \in Threads : ThreadInv(t)'
  <2> SUFFICES ASSUME NEW t \in Threads PROVE ThreadInv(t)'
    OBVIOUS
  <2>1. LockInv(t) /\ LocalInv(t) /\ KindInv(t) /\ MutexInv(t) /\ NodeInv(t)
    BY DEF TableInv, ThreadInv
  <2>2. LockInv(t)' /\ LocalInv(t)' /\ KindInv(t)'
    BY <2>1 DEF LockInv, LocalInv, KindInv
  <2>3. Held(t)' = Held(t) /\ Passed(t)' = Passed(t) /\ Installed' = Installed
    BY DEF Held, Passed, Installed, IsEpollfd
  <2>4. MutexInv(t)' /\ NodeInv(t)'
    BY <2>1, <2>3 DEF MutexInv, NodeInv, HasNode
  <2> QED
    BY <2>2, <2>4 DEF ThreadInv
<1> QED
  BY <1>1, <1>2 DEF TableInv

\* Two addresses can be chosen for the first two descriptions.
LEMMA InitStart ==
    ASSUME Init
    PROVE  \E ep \in Descs, tfd \in Descs : tfd # ep /\ Start(ep, tfd)
<1>1. \E a \in Descs : \E b \in Descs \ {a} : TRUE
  <2>1. Descs # {}
    BY FS_EmptySet
  <2>2. PICK a \in Descs : TRUE
    BY <2>1
  <2>3. Descs # {a}
    BY FS_Singleton
  <2> QED
    BY <2>2, <2>3
<1> QED
  <2> DEFINE ep == CHOOSE d \in Descs : TRUE
             tfd == CHOOSE d \in Descs \ {ep} : TRUE
  <2>1. ep \in Descs
    BY <1>1
  <2>2. \E d : d \in Descs \ {ep}
    BY <1>1, <2>1
  <2>3. tfd \in Descs \ {ep}
    BY <2>2
  <2>4. Start(ep, tfd)
    BY DEF Init
  <2> QED
    BY <2>1, <2>3, <2>4

\* The table after the first creations and the first epoll_ctl.
LEMMA InitTable == Init => TableInv
<1> SUFFICES ASSUME Init PROVE TableInv
  OBVIOUS
<1>2. PICK ep \in Descs, tfd \in Descs : tfd # ep /\ Start(ep, tfd)
  BY InitStart
<1> DEFINE n0 == [fd |-> 1, desc |-> tfd, fresh |-> TRUE]
<1>3. 0 \in Fds /\ 1 \in Fds /\ n0 \in Node /\ n0.fd = 1 /\ n0.desc = tfd /\ n0.fresh
  BY DEF Fds, Node
<1>4. /\ open_files = [f \in Fds |-> IF f = 0 THEN ep ELSE IF f = 1 THEN tfd ELSE NULL]
      /\ refcount = [d \in Descs |-> IF d = ep THEN 1 ELSE IF d = tfd THEN 2 ELSE 0]
      /\ vtable = [d \in Descs |-> IF d = ep THEN "epoll" ELSE IF d = tfd THEN "pollable" ELSE "none"]
      /\ nodes = [d \in Descs |-> IF d = ep THEN {n0} ELSE {}]
      /\ kernel = [f \in Fds |-> IF f <= 1 THEN "kqueue" ELSE "closed"]
  BY <1>2 DEF Start
<1> HIDE DEF n0
<1>5. /\ announced = NoThread /\ readers = {}
      /\ mutex = [d \in Descs |-> NoThread] /\ pc = [t \in Threads |-> "idle"]
      /\ loc = [t \in Threads |-> NoLocals] /\ calls = [t \in Threads |-> 0]
  BY DEF Init
<1>6. /\ NoLocals \in Locals /\ NoLocals.desc = NULL /\ NoLocals.desc2 = NULL
      /\ "idle" \in Locations /\ 0 \in 0 .. MaxCalls
  BY DEF NoLocals, Locals, Locations, Fds
<1>7. TypeOK
  BY <1>3, <1>4, <1>5, <1>6 DEF TypeOK, Kinds
<1>8. \A t \in Threads : ThreadInv(t)
  <2> SUFFICES ASSUME NEW t \in Threads PROVE ThreadInv(t)
    OBVIOUS
  <2>1. pc[t] = "idle" /\ loc[t] = NoLocals
    BY <1>5
  <2>2. LockInv(t) /\ LocalInv(t) /\ KindInv(t)
    BY <1>5, <1>6, <2>1 DEF LockInv, LocalInv, KindInv, Writing, Reading, OwnsDesc, OwnsDesc2
  <2>3. Held(t) = {}
    BY <1>5 DEF Held
  <2>4. MutexInv(t) /\ NodeInv(t)
    BY <2>1, <2>3 DEF MutexInv, NodeInv, HoldsAll, HoldsOne
  <2> QED
    BY <2>2, <2>4 DEF ThreadInv
<1>9. HeapInv
  BY <1>2, <1>3, <1>4 DEF HeapInv
<1>10. ClosedFdsLeaveEpoll
  BY <1>3, <1>4 DEF ClosedFdsLeaveEpoll, Installed
<1>11. RefCountExact
  <2> SUFFICES ASSUME NEW e \in Descs
               PROVE  refcount[e] = SlotRefs(e) + NodeRefs(Descs, Fds, e) + ThreadRefs(e)
    BY DEF RefCountExact
  <2> DEFINE F == {f \in Fds : open_files[f] = e}
             R == {r \in Descs \X Fds : \E n \in nodes[r[1]] : n.fd = r[2] /\ n.desc = e}
             T == {t \in Threads : loc[t].desc = e /\ pc[t] \in OwnsDesc}
             T2 == {t \in Threads : loc[t].desc2 = e /\ pc[t] \in OwnsDesc2}
  <2>1. T = {} /\ T2 = {}
    BY <1>5, <1>6
  <2>2. F = IF e = ep THEN {0} ELSE IF e = tfd THEN {1} ELSE {}
    BY <1>2, <1>3, <1>4
  <2>3. R = IF e = tfd THEN {<<ep, 1>>} ELSE {}
    <3>1. \A r \in Descs \X Fds : (\E n \in nodes[r[1]] : n.fd = r[2] /\ n.desc = e) <=> r[1] = ep /\ r[2] = 1 /\ e = tfd
      BY <1>2, <1>3, <1>4
    <3>2. \A r \in Descs \X Fds : r[1] = ep /\ r[2] = 1 <=> r = <<ep, 1>>
      OBVIOUS
    <3>3. <<ep, 1>> \in Descs \X Fds
      BY <1>3
    <3> QED
      BY <3>1, <3>2, <3>3
  <2>4. /\ SlotRefs(e) = Cardinality(F) /\ NodeRefs(Descs, Fds, e) = Cardinality(R)
        /\ ThreadRefs(e) = Cardinality(T) + Cardinality(T2)
    BY DEF SlotRefs, NodeRefs, ThreadRefs, OwnsDesc, OwnsDesc2
  <2> HIDE DEF F, R, T, T2
  <2>5. \A x : Cardinality({x}) = 1
    BY FS_Singleton
  <2>6. Cardinality({}) = 0
    BY FS_EmptySet
  <2>7. ThreadRefs(e) = 0
    BY <2>1, <2>4, <2>6
  <2>8. SlotRefs(e) = IF e = ep \/ e = tfd THEN 1 ELSE 0
    BY <2>2, <2>4, <2>5, <2>6
  <2>9. NodeRefs(Descs, Fds, e) = IF e = tfd THEN 1 ELSE 0
    BY <2>3, <2>4, <2>5, <2>6
  <2> QED
    BY <1>2, <1>4, <2>7, <2>8, <2>9
<1> QED
  BY <1>7, <1>8, <1>9, <1>10, <1>11 DEF TableInv

\* Every step of every thread and of the rest of the program keeps the invariant.
LEMMA NextTable == TableInv /\ [Next]_vars => TableInv'
<1> SUFFICES ASSUME TableInv, [Next]_vars PROVE TableInv'
  OBVIOUS
<1>1. CASE UNCHANGED vars
  <2>1. kernel' \in [Fds -> {"closed", "kqueue", "file"}]
    BY <1>1 DEF vars, TableInv, TypeOK
  <2> QED
    BY <1>1, <2>1, KernelSafe DEF vars
<1>2. ASSUME NEW t \in Threads, Call(t) PROVE TableInv'
  BY <1>2, CallSafe
<1>3. ASSUME NEW t \in Threads, Step(t) PROVE TableInv'
  <2>1. CASE \/ CreateAnnounce(t) \/ CreateKqueue(t) \/ CreateKqueueFails(t) \/ CreateDesc(t)
             \/ CreateDescFails(t) \/ InstallDesc(t) \/ DropDesc(t) \/ DropClose(t)
    BY <2>1, CreateAnnounceSafe, CreateKqueueSafe, CreateKqueueFailsSafe, CreateDescSafe,
       CreateDescFailsSafe, InstallDescSafe, DropDescSafe, DropCloseSafe
  <2>2. CASE \/ CloseAnnounce(t) \/ ClearSlot(t) \/ LockEpollfd(t) \/ RemoveFd(t)
             \/ UnrefClosed(t) \/ RealClose(t) \/ UnlockEpollfds(t)
    BY <2>2, CloseAnnounceSafe, ClearSlotSafe, LockEpollfdSafe, RemoveFdSafe,
       UnrefClosedSafe, UnrefClosedNothingSafe, RealCloseSafe, UnlockEpollfdsSafe
  <2>3. CASE Find(t) \/ FindNothing(t) \/ DropRef(t) \/ FoundForUse(t) \/ UseLock(t) \/ UseDone(t)
    BY <2>3, FindSafe, FindNothingSafe, DropRefSafe, TakeRefSafe, UseLockSafe, UseDoneSafe
  <2>4. CASE FoundForCtl(t) \/ Find2(t) \/ Found2(t) \/ CtlLock(t) \/ Ctl(t) \/ DropRef2(t)
    BY <2>4, TakeRefSafe, Find2Safe, Found2NothingSafe, CtlLockSafe, CtlSafe, DropRef2Safe, DropRef2NothingSafe
  <2>5. CASE WalkLock(t) \/ WalkNext(t) \/ WalkEnd(t)
    BY <2>5, WalkLockSafe, WalkNextSafe, WalkEndSafe
  <2> QED
    BY <1>3, <2>1, <2>2, <2>3, <2>4, <2>5 DEF Step
<1>4. ASSUME NEW f \in Fds, OpenFile(f) \/ RawClose(f) PROVE TableInv'
  <2>1. kernel' \in [Fds -> {"closed", "kqueue", "file"}]
    BY <1>4 DEF OpenFile, RawClose, KernelClose, TableInv, TypeOK
  <2> QED
    BY <1>4, <2>1, KernelSafe DEF OpenFile, RawClose
<1> QED
  BY <1>1, <1>2, <1>3, <1>4 DEF Next, Done

\* The inductive invariant of the table holds in every reachable state.
THEOREM TableInvariant == Spec => []TableInv
<1> QED
  BY InitTable, NextTable, PTL DEF Spec

\* The variables keep their types; in particular no count goes below zero.
THEOREM TypeCorrect == Spec => []TypeOK
<1>1. TableInv => TypeOK
  BY DEF TableInv
<1> QED
  BY <1>1, TableInvariant, PTL

\* Whatever calls overlap, every count is the number of references there are: no
\* description is freed too early (file_description_unref) or leaked.
THEOREM CountsExact == Spec => []RefCountExact
<1>1. TableInv => RefCountExact
  BY DEF TableInv
<1> QED
  BY <1>1, TableInvariant, PTL

\* Closing an fd through epoll_shim_close leaves no node for it in any epoll
\* instance of the table, whatever epoll_ctl does at the same time.
THEOREM ClosedFdsLeave == Spec => []ClosedFdsLeaveEpoll
<1>1. TableInv => ClosedFdsLeaveEpoll
  BY DEF TableInv
<1> QED
  BY <1>1, TableInvariant, PTL

\* No call works with a freed description, with or without a reference of its own.
THEOREM NoFreedDescUsed == Spec => []NoUseAfterFree
<1>1. ASSUME TableInv PROVE NoUseAfterFree
  <2> SUFFICES ASSUME NEW t \in Threads
               PROVE  /\ loc[t].desc # NULL => refcount[loc[t].desc] > 0
                      /\ loc[t].desc2 # NULL => refcount[loc[t].desc2] > 0
                      /\ pc[t] \in {"found", "walking"} /\ loc[t].desc # NULL => vtable[loc[t].desc] # "none"
    BY DEF NoUseAfterFree
  <2>0. TypeOK /\ HeapInv /\ RefCountExact /\ LocalInv(t) /\ NodeInv(t)
    BY <1>1 DEF TableInv, ThreadInv
  <2>1. /\ loc[t].desc \in Descs \cup {NULL} /\ loc[t].desc2 \in Descs \cup {NULL}
        /\ loc[t].fd \in Fds /\ loc[t].fd2 \in Fds
    BY <2>0, LocalsType
  <2>2. pc[t] \in {"found", "walking"} /\ loc[t].desc # NULL => \E f \in Fds : open_files[f] = loc[t].desc
    BY <2>0, <2>1 DEF LocalInv
  <2>3. loc[t].desc # NULL => Refers(loc[t].desc)
    BY <2>0, <2>2 DEF LocalInv, Refers, Owns
  <2>4. loc[t].desc2 # NULL => Refers(loc[t].desc2)
    <3>1. CASE pc[t] \in OwnsDesc2
      BY <3>1 DEF Refers, Owns2
    <3>2. CASE pc[t] = "found2"
      BY <2>0, <2>1, <3>2 DEF LocalInv, Refers
    <3>3. CASE pc[t] = "in_use"
      BY <2>0, <2>1, <3>3 DEF LocalInv, NodeInv, Refers
    <3> QED
      BY <2>0, <3>1, <3>2, <3>3 DEF LocalInv
  <2> QED
    BY <2>0, <2>1, <2>2, <2>3, <2>4, Referenced DEF HeapInv
<1> QED
  BY <1>1, TableInvariant, PTL

\* epoll_shim_ctx_remove_desc unlocks the mutexes that it locked, and no mutex is
\* left locked or destroyed while locked.
THEOREM MutexesMatch == Spec => []MutexesPaired
<1>1. ASSUME TableInv PROVE MutexesPaired
  <2>0. TypeOK /\ RefCountExact /\ \A t \in Threads : ThreadInv(t) /\ MutexInv(t)
    BY <1>1 DEF TableInv, ThreadInv
  <2>1. ASSUME NEW t \in Threads, pc[t] \in {"remove_fd", "unref_closed", "real_close", "unlock_epollfds"}
        PROVE  {d \in Descs : mutex[d] = t} = Installed
    BY <2>0, <2>1 DEF MutexInv, Held, HoldsAll
  <2>2. ASSUME NEW d \in Descs, mutex[d] # NoThread
        PROVE  /\ refcount[d] > 0
               /\ Closing(mutex[d]) \/ pc[mutex[d]] \in {"in_use", "ctl"}
    <3>1. PICK u \in Threads : mutex[d] = u
      BY <2>0, <2>2 DEF TypeOK
    <3>2. \/ Owns(u, d) /\ pc[u] \in HoldsOne
          \/ pc[u] \in HoldsAll \cup {"lock_epollfds"} /\ \E f \in Fds : open_files[f] = d
      BY <2>0, <3>1, HeldReferenced
    <3>3. Refers(d)
      BY <3>2 DEF Refers
    <3>4. refcount[d] > 0
      BY <2>0, <3>3, Referenced
    <3> QED
      BY <3>1, <3>2, <3>4 DEF Closing, HoldsAll, HoldsOne
  <2> QED
    BY <2>1, <2>2 DEF MutexesPaired
<1> QED
  BY <1>1, TableInvariant, PTL
-----------------------------------------------------------------------------
(* No circular wait.  Mutexes are waited for in one order (a pollable        *)
(* description's last), one close at a time locks the epollfds, and it meets *)
(* none of them twice.                                                       *)

\* The calls that lock or have locked the epollfds.
Locking == HoldsAll \cup {"lock_epollfds"}

\* A description is in one slot of the table.
SlotsDistinct == \A f, g \in Fds : open_files[f] # NULL /\ open_files[f] = open_files[g] => f = g

\* The downgraded lock keeps a second close out.
OneCloser == \A t, u \in Threads : pc[t] \in Locking /\ pc[u] \in Locking => t = u

WaitInv == SlotsDistinct /\ OneCloser

\* What most steps of t do: they fill no slot and do not begin to lock epollfds.
FillsNoSlot == \A f \in Fds : open_files'[f] \in {open_files[f], NULL}
BeginsNoLocking(t) == /\ \A u \in Threads \ {t} : pc'[u] = pc[u]
                      /\ pc'[t] \in Locking => pc[t] \in Locking

LEMMA SlotsKept ==
    ASSUME SlotsDistinct, FillsNoSlot
    PROVE  SlotsDistinct'
<1> QED
  BY DEF SlotsDistinct, FillsNoSlot

LEMMA CloserKept ==
    ASSUME OneCloser, NEW t \in Threads, BeginsNoLocking(t)
    PROVE  OneCloser'
<1> QED
  BY DEF OneCloser, BeginsNoLocking

\* The steps of a thread other than InstallDesc and ClearSlot.
LEMMA MostStepsWait ==
    ASSUME TypeOK, NEW t \in Threads, Call(t) \/ Step(t), ~InstallDesc(t), ~ClearSlot(t)
    PROVE  FillsNoSlot /\ BeginsNoLocking(t)
<1>1. pc \in [Threads -> Locations] /\ open_files \in [Fds -> Descs \cup {NULL}]
  BY DEF TypeOK
<1>2. CASE Call(t)
  <2>1. \E to \in {"create", "close", "find", "walk"} : Goto(t, "idle", to) /\ open_files' = open_files
    <3>1. \A call, to, new : StartCall(t, call, to, new) => Goto(t, "idle", to) /\ open_files' = open_files
      BY DEF StartCall
    <3>2. CallCreate(t) => Goto(t, "idle", "create") /\ open_files' = open_files
      BY <3>1 DEF CallCreate
    <3>3. CallClose(t) => Goto(t, "idle", "close") /\ open_files' = open_files
      BY <3>1 DEF CallClose
    <3>4. CallUse(t) => Goto(t, "idle", "find") /\ open_files' = open_files
      BY <3>1 DEF CallUse
    <3>5. CallCtl(t) => Goto(t, "idle", "find") /\ open_files' = open_files
      BY <3>1, Zenon DEF CallCtl
    <3>6. CallWalk(t) => Goto(t, "idle", "walk") /\ open_files' = open_files
      BY <3>1 DEF CallWalk
    <3> QED
      BY <1>2, <3>2, <3>3, <3>4, <3>5, <3>6 DEF Call
  <2> QED
    BY <1>1, <2>1 DEF Goto, FillsNoSlot, BeginsNoLocking, Locking, HoldsAll
<1>3. CASE \/ CreateAnnounce(t) \/ CreateKqueueFails(t) \/ CreateDesc(t) \/ CreateDescFails(t)
           \/ DropDesc(t) \/ DropClose(t) \/ CloseAnnounce(t)
  BY <1>1, <1>3 DEF CreateAnnounce, CreateKqueueFails, CreateDesc, CreateDescFails, DropDesc, DropClose,
                    CloseAnnounce, Return, Goto, FillsNoSlot, BeginsNoLocking, Locking, HoldsAll
<1>4. CASE CreateKqueue(t)
  BY <1>1, <1>4 DEF CreateKqueue, Goto, FillsNoSlot, BeginsNoLocking, Locking, HoldsAll
<1>5. CASE LockEpollfd(t) \/ RemoveFd(t) \/ UnrefClosed(t) \/ RealClose(t) \/ UnlockEpollfds(t)
  BY <1>1, <1>5 DEF LockEpollfd, RemoveFd, UnrefClosed, RealClose, UnlockEpollfds, Return, Goto,
                    FillsNoSlot, BeginsNoLocking, Locking, HoldsAll
<1>6. CASE Find(t) \/ FindNothing(t) \/ DropRef(t) \/ FoundForUse(t) \/ UseLock(t) \/ UseDone(t)
  BY <1>1, <1>6 DEF Find, FindNothing, DropRef, FoundForUse, UseLock, UseDone, Lookup, TakeRef, Return, Goto,
                    FillsNoSlot, BeginsNoLocking, Locking, HoldsAll
<1>7. CASE FoundForCtl(t) \/ Find2(t) \/ Found2(t) \/ CtlLock(t) \/ Ctl(t) \/ DropRef2(t)
  BY <1>1, <1>7 DEF FoundForCtl, Find2, Found2, CtlLock, Ctl, DropRef2, Lookup, TakeRef, Goto,
                    FillsNoSlot, BeginsNoLocking, Locking, HoldsAll
<1>8. CASE WalkLock(t) \/ WalkNext(t) \/ WalkEnd(t)
  BY <1>1, <1>8 DEF WalkLock, WalkNext, WalkEnd, Return, Goto, FillsNoSlot, BeginsNoLocking, Locking, HoldsAll
<1> QED
  BY <1>2, <1>3, <1>4, <1>5, <1>6, <1>7, <1>8 DEF Step

\* The description that a create installs was in no slot: its vtable is not set.
LEMMA InstallDescWaits ==
    ASSUME TableInv, WaitInv, NEW t \in Threads, InstallDesc(t)
    PROVE  WaitInv'
<1>0. TypeOK /\ HeapInv /\ KindInv(t) /\ LocalInv(t)
  BY DEF TableInv, ThreadInv
<1>1. loc[t].fd \in Fds /\ loc[t].desc \in Descs \cup {NULL}
  BY <1>0, LocalsType
<1>2. pc[t] = "created" /\ open_files' = [open_files EXCEPT ![loc[t].fd] = loc[t].desc]
  BY DEF InstallDesc, Return, Goto
<1>3. \A f \in Fds : open_files[f] # loc[t].desc
  BY <1>0, <1>1, <1>2 DEF KindInv, LocalInv, HeapInv
<1>4. SlotsDistinct'
  BY <1>0, <1>1, <1>2, <1>3 DEF WaitInv, SlotsDistinct, TypeOK
<1>5. BeginsNoLocking(t)
  BY <1>0 DEF InstallDesc, Return, Goto, BeginsNoLocking, TypeOK, Locking, HoldsAll
<1> QED
  BY <1>4, <1>5, CloserKept DEF WaitInv

\* A close has the write lock when it begins to lock the epollfds: there is no
\* other close with the read lock.
LEMMA ClearSlotWaits ==
    ASSUME TableInv, WaitInv, NEW t \in Threads, ClearSlot(t)
    PROVE  WaitInv'
<1>0. TypeOK /\ \A u \in Threads : LockInv(u)
  BY DEF TableInv, ThreadInv
<1>1. FillsNoSlot
  BY <1>0 DEF ClearSlot, FillsNoSlot, TypeOK
<1>2. \A u \in Threads : pc[u] \notin Locking
  BY <1>0 DEF LockInv, ClearSlot, WriteLocked, Reading, Locking, HoldsAll
<1>3. \A u \in Threads \ {t} : pc'[u] = pc[u]
  BY <1>0 DEF ClearSlot, Goto, TypeOK
<1> QED
  BY <1>1, <1>2, <1>3, SlotsKept DEF WaitInv, OneCloser

LEMMA NextWait == TableInv /\ WaitInv /\ [Next]_vars => WaitInv'
<1> SUFFICES ASSUME TableInv, WaitInv, [Next]_vars PROVE WaitInv'
  OBVIOUS
<1>0. TypeOK
  BY DEF TableInv
<1>1. CASE UNCHANGED <<open_files, pc>>
  BY <1>1 DEF WaitInv, SlotsDistinct, OneCloser
<1>2. ASSUME NEW t \in Threads, Call(t) \/ Step(t) PROVE WaitInv'
  <2>1. CASE InstallDesc(t)
    BY <2>1, InstallDescWaits
  <2>2. CASE ClearSlot(t)
    BY <2>2, ClearSlotWaits
  <2>3. CASE ~InstallDesc(t) /\ ~ClearSlot(t)
    <3>1. FillsNoSlot /\ BeginsNoLocking(t)
      BY <1>0, <1>2, <2>3, MostStepsWait
    <3> QED
      BY <3>1, SlotsKept, CloserKept DEF WaitInv
  <2> QED
    BY <2>1, <2>2, <2>3
<1> QED
  BY <1>1, <1>2 DEF Next, Done, OpenFile, RawClose, vars

LEMMA InitWait == Init => WaitInv
<1> SUFFICES ASSUME Init PROVE WaitInv
  OBVIOUS
<1>1. OneCloser
  BY DEF Init, OneCloser, Locking, HoldsAll
<1>2. SlotsDistinct
  <2> SUFFICES ASSUME NEW f \in Fds, NEW g \in Fds, open_files[f] # NULL, open_files[f] = open_files[g], f # g
               PROVE  FALSE
    BY DEF SlotsDistinct
  <2>1. PICK ep \in Descs, tfd \in Descs : tfd # ep /\ Start(ep, tfd)
    BY InitStart
  <2> QED
    BY <2>1 DEF Start
<1> QED
  BY <1>1, <1>2 DEF WaitInv

\* In every set of threads one waits for none of the others.
LEMMA SomeoneGoes ==
    ASSUME TableInv, WaitInv, NEW S \in SUBSET Threads, \A t \in S : \E u \in S : WaitsFor(t, u)
    PROVE  S = {}
<1>0. TypeOK /\ HeapInv /\ \A t \in Threads : ThreadInv(t)
  BY DEF TableInv
<1>1. \A t \in S : /\ loc[t].desc \in Descs \cup {NULL} /\ loc[t].desc2 \in Descs \cup {NULL}
                   /\ pc[t] \in Locations
  BY <1>0, LocalsType DEF TypeOK
\* Calls at the other locations wait for nobody.
<1>2. \A t \in S : pc[t] \in {"in_use", "ctl", "lock_epollfds", "use", "ctl_lock", "walking",
                              "create_wr", "close_wr", "create", "close", "find", "find2", "walk"}
  BY DEF WaitsFor, Needs
\* The owner of a mutex is at one of these locations.
<1>3. ASSUME NEW d \in Descs, NEW u \in S, mutex[d] = u
      PROVE  /\ pc[u] \in {"in_use", "ctl", "lock_epollfds"}
             /\ pc[u] \in HoldsOne => loc[u].desc = d
             /\ pc[u] = "lock_epollfds" => d \in Passed(u)
  <2>1. MutexInv(u) /\ d \in Held(u)
    BY <1>0, <1>3 DEF ThreadInv, Held
  <2> QED
    BY <1>2, <2>1 DEF MutexInv, HoldsAll, HoldsOne
\* A call that has locked a pollable description locks no other.
<1>4. ASSUME NEW d \in Descs, vtable[d] = "pollable", NEW u \in S, mutex[d] = u
      PROVE  FALSE
  <2>1. LocalInv(u) /\ KindInv(u) /\ NodeInv(u)
    BY <1>0 DEF ThreadInv
  <2>2. pc[u] # "lock_epollfds"
    BY <1>3, <1>4 DEF Passed, IsEpollfd
  <2>3. loc[u].desc = d /\ pc[u] = "in_use"
    BY <1>3, <1>4, <2>1, <2>2 DEF KindInv, HoldsOne
  <2>4. nodes[d] = {}
    BY <1>0, <1>4 DEF HeapInv
  <2>5. loc[u].desc2 = NULL
    BY <2>1, <2>3, <2>4 DEF NodeInv, HasNode
  <2>6. Needs(u) = {}
    BY <2>3, <2>5 DEF Needs
  <2> QED
    BY <2>3, <2>6 DEF WaitsFor
<1>5. \A t \in S : pc[t] \notin {"in_use", "ctl"}
  <2> SUFFICES ASSUME NEW t \in S, pc[t] \in {"in_use", "ctl"} PROVE FALSE
    OBVIOUS
  <2>1. PICK d \in Needs(t), u \in S : mutex[d] = u
    BY DEF WaitsFor
  <2>2. d \in Descs
    BY DEF Needs
  <2>3. vtable[d] = "pollable"
    <3>1. CASE pc[t] = "in_use"
      <4>1. d = loc[t].desc2 /\ d # NULL
        BY <2>2, <3>1 DEF Needs
      <4>2. \E f \in Fds : HasNode(loc[t].desc, f, d)
        BY <1>0, <3>1, <4>1 DEF ThreadInv, NodeInv
      <4>3. loc[t].desc \in Descs
        BY <1>0, <1>1, <3>1 DEF ThreadInv, LocalInv
      <4> QED
        BY <1>0, <4>1, <4>2, <4>3 DEF HeapInv, HasNode
    <3>2. CASE pc[t] = "ctl"
      BY <2>2, <3>2 DEF Needs, PollableDesc
    <3> QED
      BY <3>1, <3>2
  <2> QED
    BY <1>4, <2>1, <2>2, <2>3
<1>6. \A t \in S : pc[t] # "lock_epollfds"
  <2> SUFFICES ASSUME NEW t \in S, pc[t] = "lock_epollfds" PROVE FALSE
    OBVIOUS
  <2>1. PICK d \in Needs(t), u \in S : mutex[d] = u
    BY DEF WaitsFor
  <2>2. d \in Descs /\ loc[t].cur < NFds /\ d = open_files[loc[t].cur]
    BY DEF Needs
  <2>3. pc[u] = "lock_epollfds" /\ d \in Passed(u)
    BY <1>3, <1>5, <2>1, <2>2
  <2>4. u = t
    BY <2>3 DEF WaitInv, OneCloser, Locking
  <2>5. PICK f \in Fds : f < loc[t].cur /\ open_files[f] = d
    BY <2>3, <2>4 DEF Passed
  <2>6. loc[t].cur \in Fds
    <3>1. loc[t].cur \in 0 .. NFds
      BY <1>0 DEF TypeOK, Locals
    <3> QED
      BY <2>2, <3>1 DEF Fds
  <2>7. f = loc[t].cur
    BY <2>2, <2>5, <2>6 DEF WaitInv, SlotsDistinct
  <2> QED
    BY <2>5, <2>6, <2>7 DEF Fds
\* No thread of S owns a mutex ...
<1>7. \A t \in S : pc[t] \notin {"use", "ctl_lock", "walking"}
  <2> SUFFICES ASSUME NEW t \in S, pc[t] \in {"use", "ctl_lock", "walking"} PROVE FALSE
    OBVIOUS
  <2>1. PICK d \in Needs(t), u \in S : mutex[d] = u
    BY DEF WaitsFor
  <2>2. d \in Descs
    BY DEF Needs
  <2> QED
    BY <1>3, <1>5, <1>6, <2>1, <2>2
\* ... reads or writes the table ...
<1>8. \A t \in S : t \notin readers /\ pc[t] \notin {"create_wr", "close_wr"}
  <2>1. \A t \in S : t \notin readers
    BY <1>0, <1>2, <1>5, <1>6, <1>7 DEF ThreadInv, LockInv, Reading
  <2>2. \A t \in S : pc[t] \notin {"create_wr", "close_wr"}
    BY <2>1 DEF WaitsFor, Needs
  <2> QED
    BY <2>1, <2>2
\* ... and so none is stopped by one that does.
<1>9. \A t \in S : announced # t
  BY <1>0, <1>2, <1>8 DEF ThreadInv, LockInv, Writing
<1> QED
  BY <1>2, <1>5, <1>6, <1>7, <1>8, <1>9 DEF WaitsFor, Needs

\* However close, epoll_wait, epoll_ctl, the walks and create overlap, there is no
\* deadlock over the lock of the table and the descriptions' mutexes.
THEOREM NoDeadlock == Spec => []NoCircularWait
<1>1. TableInv /\ WaitInv => NoCircularWait
  BY SomeoneGoes DEF NoCircularWait
<1> QED
  BY <1>1, InitTable, NextTable, InitWait, NextWait, PTL DEF Spec

-----------------------------------------------------------------------------
(* Disciplined programs: a node polls what is in the table under its fd.  As *)
(* no fd is closed while a call names it, what epoll_ctl has looked up is    *)
(* still in the table when it adds the node.                                 *)

\* The description that a node for f should poll.
Expected(f) == IF open_files[f] # NULL /\ vtable[open_files[f]] = "pollable" THEN open_files[f] ELSE NULL

\* A call that uses the fds it names.
Using(t) == pc[t] \in {"find", "found", "find2", "found2", "use", "in_use", "ctl_lock", "ctl", "unref2", "unref"}

\* The fds of a call are open, and nobody closes or creates them.
UsesOpen(t) == Using(t) => \A f \in Names(t) :
    /\ kernel[f] # "closed"
    /\ \A u \in Threads \ {t} : Closing(u) \/ Creating(u) => loc[u].fd # f

\* epoll_ctl has the description that is in the table.
CtlCurrent(t) == pc[t] \in {"ctl_lock", "ctl"} /\ loc[t].op = "ADD" => loc[t].desc2 = open_files[loc[t].fd2]

\* A new fd is open and in no epoll instance; a closed one has left the table.
CreateFresh(t) == Creating(t) =>
    /\ kernel[loc[t].fd] = "kqueue"
    /\ \A d \in Installed, e \in Descs \cup {NULL} : ~HasNode(d, loc[t].fd, e)
CloseCleared(t) == pc[t] \in Locking => open_files[loc[t].fd] = NULL

CallInv(t) == UsesOpen(t) /\ CtlCurrent(t) /\ CreateFresh(t) /\ CloseCleared(t)

\* What the table has is a kqueue; a node is right unless a close is about to
\* remove it.
SlotsOpen == \A f \in Fds : open_files[f] # NULL => kernel[f] = "kqueue"
LeavingFd(f) == \E t \in Threads : pc[t] \in {"lock_epollfds", "remove_fd"} /\ loc[t].fd = f
RightNode(f, e) == (kernel[f] # "closed" /\ e = Expected(f)) \/ LeavingFd(f)
NodesRight == \A d \in Installed, f \in Fds, e \in Descs \cup {NULL} : HasNode(d, f, e) => RightNode(f, e)

CurrentInv == SlotsOpen /\ NodesRight /\ \A t \in Threads : CallInv(t)

\* No other call uses f.
NotUsed(t, f) == \A u \in Threads \ {t} : Using(u) => f \notin Names(u)

LEMMA OwnFdNotUsed ==
    ASSUME CurrentInv, NEW t \in Threads, Closing(t) \/ Creating(t)
    PROVE  NotUsed(t, loc[t].fd)
<1> QED
  BY DEF CurrentInv, CallInv, UsesOpen, NotUsed

LEMMA ClosedFdNotUsed ==
    ASSUME CurrentInv, NEW t \in Threads, NEW f, kernel[f] = "closed"
    PROVE  NotUsed(t, f)
<1> QED
  BY DEF CurrentInv, CallInv, UsesOpen, NotUsed

\* A step of t that changes only fds that no other call uses.
LEMMA UsersKeep ==
    ASSUME CurrentInv, TypeOK, NEW t \in Threads, Moves(t),
           \A g \in Fds : (kernel'[g] = kernel[g] /\ open_files'[g] = open_files[g]) \/ NotUsed(t, g),
           Closing(t)' \/ Creating(t)' => NotUsed(t, loc'[t].fd),
           NEW u \in Threads \ {t}
    PROVE  UsesOpen(u)' /\ CtlCurrent(u)'
<1>1. pc'[u] = pc[u] /\ loc'[u] = loc[u] /\ UsesOpen(u) /\ CtlCurrent(u)
  BY DEF Moves, CurrentInv, CallInv
<1>2. Using(u)' <=> Using(u)
  BY <1>1 DEF Using
<1>3. Names(u)' = Names(u)
  BY <1>1 DEF Names
<1>4. Names(u) \subseteq Fds /\ loc[u].fd2 \in Fds
  BY LocalsType DEF Names
<1>5. UsesOpen(u)'
  <2> SUFFICES ASSUME Using(u), NEW f \in Names(u)
               PROVE  /\ kernel'[f] # "closed"
                      /\ \A v \in Threads \ {u} : (Closing(v) \/ Creating(v))' => loc'[v].fd # f
    BY <1>2, <1>3 DEF UsesOpen
  <2>1. kernel[f] # "closed" /\ \A v \in Threads \ {u} : Closing(v) \/ Creating(v) => loc[v].fd # f
    BY <1>1 DEF UsesOpen
  <2>2. ~NotUsed(t, f)
    BY DEF NotUsed
  <2>3. kernel'[f] = kernel[f]
    BY <1>4, <2>2
  <2>4. ASSUME NEW v \in Threads \ {u}, (Closing(v) \/ Creating(v))' PROVE loc'[v].fd # f
    <3>1. CASE v = t
      BY <2>2, <2>4, <3>1
    <3>2. CASE v # t
      BY <2>1, <2>4, <3>2 DEF Moves, Closing, Creating
    <3> QED
      BY <3>1, <3>2
  <2> QED
    BY <2>1, <2>3, <2>4
<1>6. CtlCurrent(u)'
  <2> SUFFICES ASSUME pc[u] \in {"ctl_lock", "ctl"}, loc[u].op = "ADD"
               PROVE  loc[u].desc2 = open_files'[loc[u].fd2]
    BY <1>1 DEF CtlCurrent
  <2>1. Using(u) /\ loc[u].fd2 \in Names(u)
    BY DEF Using, Names
  <2>2. open_files'[loc[u].fd2] = open_files[loc[u].fd2]
    BY <1>4, <2>1 DEF NotUsed
  <2> QED
    BY <1>1, <2>2 DEF CtlCurrent
<1> QED
  BY <1>5, <1>6

\* Slots that are not filled keep their kinds, and nodes are not added.
KindsKept == \A g \in Fds : open_files'[g] # NULL => vtable'[open_files'[g]] = vtable[open_files'[g]]
NodesShrink == \A d \in Descs, g \in Fds, e \in Descs \cup {NULL} : HasNode(d, g, e)' => HasNode(d, g, e)

LEMMA InstalledShrinks ==
    ASSUME TypeOK', FillsNoSlot, KindsKept
    PROVE  Installed' \subseteq Installed
<1> SUFFICES ASSUME NEW d \in Installed' PROVE d \in Installed
  OBVIOUS
<1>1. d \in Descs /\ vtable'[d] = "epoll" /\ \E g \in Fds : open_files'[g] = d
  BY DEF Installed, IsEpollfd
<1>2. PICK g \in Fds : open_files'[g] = d
  BY <1>1
<1>3. d # NULL /\ open_files[g] = d /\ vtable[d] = "epoll"
  BY <1>1, <1>2 DEF FillsNoSlot, KindsKept
<1> QED
  BY <1>1, <1>3 DEF Installed, IsEpollfd

\* Descriptions that stay in the table are not destroyed.
LEMMA VtablesShrink ==
    ASSUME TypeOK', HeapInv', \A d \in Descs : vtable'[d] \in {vtable[d], "none"}
    PROVE  KindsKept
<1> QED
  BY DEF KindsKept, HeapInv, TypeOK

\* What most steps of t do to its role.
SameFds(t) == loc'[t].fd = loc[t].fd /\ loc'[t].fd2 = loc[t].fd2 /\ loc'[t].op = loc[t].op
KeepsRole(t) ==
    /\ pc'[t] = "idle" \/ SameFds(t)
    /\ Using(t)' => Using(t)
    /\ Closing(t)' => Closing(t)
    /\ Creating(t)' => Creating(t)
    /\ pc'[t] \in Locking => pc[t] \in Locking
    /\ pc[t] \in {"lock_epollfds", "remove_fd"} => pc'[t] \in {"lock_epollfds", "remove_fd"}
    /\ CtlCurrent(t)'

\* A step that leaves the kernel and the table alone.
LEMMA CalmCurrent ==
    ASSUME TypeOK, TypeOK', HeapInv', CurrentInv, NEW t \in Threads, Moves(t), UNCHANGED <<kernel, open_files>>,
           \A d \in Descs : vtable'[d] \in {vtable[d], "none"}, NodesShrink, KeepsRole(t)
    PROVE  CurrentInv'
<1>1. KindsKept
  BY VtablesShrink
<1>2. FillsNoSlot
  BY DEF FillsNoSlot
<1>3. Installed' \subseteq Installed
  BY <1>1, <1>2, InstalledShrinks
<1>4. \A d \in Installed', g \in Fds, e \in Descs \cup {NULL} : HasNode(d, g, e)' => d \in Installed /\ HasNode(d, g, e)
  BY <1>3 DEF NodesShrink, Installed
<1>5. \A g \in Fds : Expected(g)' = Expected(g)
  BY <1>1 DEF Expected, KindsKept
<1>6. \A g \in Fds : LeavingFd(g) => LeavingFd(g)'
  BY DEF LeavingFd, Moves, KeepsRole, SameFds
<1>7. NodesRight'
  BY <1>4, <1>5, <1>6 DEF CurrentInv, NodesRight, RightNode
<1>8. SlotsOpen'
  BY DEF CurrentInv, SlotsOpen
<1>9. Closing(t)' \/ Creating(t)' => NotUsed(t, loc'[t].fd)
  BY OwnFdNotUsed DEF KeepsRole, SameFds, Closing, Creating
<1>10. ASSUME NEW u \in Threads PROVE CreateFresh(u)' /\ CloseCleared(u)'
  <2>1. CreateFresh(u) /\ CloseCleared(u) /\ loc[u].fd \in Fds
    BY LocalsType DEF CurrentInv, CallInv
  <2>2. Creating(u)' => Creating(u) /\ loc'[u].fd = loc[u].fd
    BY DEF Creating, Moves, KeepsRole, SameFds
  <2>3. pc'[u] \in Locking => pc[u] \in Locking /\ loc'[u].fd = loc[u].fd
    BY DEF Moves, KeepsRole, SameFds, Locking, HoldsAll
  <2>4. CreateFresh(u)'
    BY <1>4, <2>1, <2>2 DEF CreateFresh
  <2> QED
    BY <2>1, <2>3, <2>4 DEF CloseCleared
<1>11. \A u \in Threads \ {t} : UsesOpen(u)' /\ CtlCurrent(u)'
  BY <1>9, UsersKeep
<1>12. UsesOpen(t)'
  <2> SUFFICES ASSUME Using(t)', NEW f \in Names(t)'
               PROVE  /\ kernel[f] # "closed"
                      /\ \A u \in Threads \ {t} : (Closing(u) \/ Creating(u))' => loc'[u].fd # f
    BY DEF UsesOpen
  <2>1. Using(t) /\ f \in Names(t)
    BY DEF KeepsRole, SameFds, Using, Names
  <2> QED
    BY <2>1 DEF CurrentInv, CallInv, UsesOpen, Moves, Closing, Creating
<1>13. \A u \in Threads : CallInv(u)'
  BY <1>10, <1>11, <1>12 DEF CallInv, KeepsRole
<1> QED
  BY <1>7, <1>8, <1>13 DEF CurrentInv

\* A thread's step to a location, with its fds kept or forgotten.
LEMMA RoleMoves ==
    ASSUME TypeOK, NEW t \in Threads, NEW to, pc' = [pc EXCEPT ![t] = to],
           \/ loc' = loc
           \/ \E new : loc' = [loc EXCEPT ![t] = new] /\ new.fd = loc[t].fd /\ new.fd2 = loc[t].fd2 /\ new.op = loc[t].op
           \/ \E new : loc' = [loc EXCEPT ![t] = new] /\ to = "idle"
    PROVE  Moves(t) /\ pc'[t] = to /\ (to = "idle" \/ SameFds(t))
<1> QED
  BY DEF TypeOK, Moves, SameFds

\* The same for a step that changes one of the descriptions.
LEMMA RoleMovesDesc ==
    ASSUME TypeOK, NEW t \in Threads, NEW to, pc' = [pc EXCEPT ![t] = to], NEW d,
           loc' = [loc EXCEPT ![t].desc = d] \/ loc' = [loc EXCEPT ![t].desc2 = d]
    PROVE  Moves(t) /\ pc'[t] = to /\ SameFds(t)
<1>1. loc \in [Threads -> Locals] /\ pc \in [Threads -> Locations]
  BY DEF TypeOK
<1> QED
  BY <1>1 DEF Moves, SameFds, Locals

\* The steps of create and close that leave the kernel and the table alone.
LEMMA CreateCloseCurrent ==
    ASSUME TableInv, TableInv', CurrentInv, NEW t \in Threads,
           \/ CreateAnnounce(t) \/ CreateKqueueFails(t) \/ CreateDesc(t) \/ DropDesc(t)
           \/ CloseAnnounce(t) \/ LockEpollfd(t) \/ UnrefClosed(t) \/ UnlockEpollfds(t)
    PROVE  CurrentInv'
<1>0. TypeOK /\ TypeOK' /\ HeapInv'
  BY DEF TableInv
<1>1. UNCHANGED <<kernel, open_files>>
  BY DEF CreateAnnounce, CreateKqueueFails, CreateDesc, DropDesc, CloseAnnounce, LockEpollfd, UnrefClosed,
         UnlockEpollfds
<1>2. \/ UNCHANGED <<vtable, nodes>>
      \/ \E d : Unref(d)
  BY DEF CreateAnnounce, CreateKqueueFails, CreateDesc, DropDesc, CloseAnnounce, LockEpollfd, UnrefClosed,
         UnlockEpollfds
<1>3. /\ \A d \in Descs : vtable'[d] \in {vtable[d], "none"}
      /\ NodesShrink
  BY <1>0, <1>2 DEF Unref, Settle, TypeOK, NodesShrink, HasNode
<1>4. Moves(t) /\ KeepsRole(t)
  <2>1. CASE CreateAnnounce(t) \/ CreateKqueueFails(t) \/ CloseAnnounce(t) \/ UnlockEpollfds(t)
    <3>1. \E to : /\ pc' = [pc EXCEPT ![t] = to]
                  /\ loc' = loc \/ \E new : loc' = [loc EXCEPT ![t] = new] /\ to = "idle"
                  /\ \/ pc[t] = "create" /\ to = "create_wr"
                     \/ pc[t] = "create_wr" /\ to = "idle"
                     \/ pc[t] = "close" /\ to = "close_wr"
                     \/ pc[t] = "unlock_epollfds" /\ to = "idle"
      BY <2>1 DEF CreateAnnounce, CreateKqueueFails, CloseAnnounce, UnlockEpollfds, Goto, Return
    <3>2. PICK to : /\ Moves(t) /\ pc'[t] = to /\ (to = "idle" \/ SameFds(t))
                    /\ \/ pc[t] = "create" /\ to = "create_wr"
                       \/ pc[t] = "create_wr" /\ to = "idle"
                       \/ pc[t] = "close" /\ to = "close_wr"
                       \/ pc[t] = "unlock_epollfds" /\ to = "idle"
      BY <1>0, <3>1, RoleMoves
    <3> QED
      BY <3>2 DEF KeepsRole, Using, Closing, Creating, Locking, HoldsAll, CtlCurrent
  <2>2. CASE CreateDesc(t) \/ DropDesc(t) \/ UnrefClosed(t)
    <3>1. \E to, d : /\ pc' = [pc EXCEPT ![t] = to]
                     /\ loc' = [loc EXCEPT ![t].desc = d]
                     /\ \/ pc[t] = "create_desc" /\ to = "created"
                        \/ pc[t] = "created" /\ to = "drop_close"
                        \/ pc[t] = "unref_closed" /\ to = "real_close"
      BY <2>2 DEF CreateDesc, DropDesc, UnrefClosed, Goto
    <3>2. PICK to : /\ Moves(t) /\ pc'[t] = to /\ SameFds(t)
                    /\ \/ pc[t] = "create_desc" /\ to = "created"
                       \/ pc[t] = "created" /\ to = "drop_close"
                       \/ pc[t] = "unref_closed" /\ to = "real_close"
      BY <1>0, <3>1, RoleMovesDesc
    <3> QED
      BY <3>2 DEF KeepsRole, Using, Closing, Creating, Locking, HoldsAll, CtlCurrent
  <2>3. CASE LockEpollfd(t)
    <3>1. /\ pc[t] = "lock_epollfds" /\ pc'[t] \in {"lock_epollfds", "remove_fd"}
          /\ Moves(t) /\ SameFds(t)
      BY <1>0, <2>3 DEF LockEpollfd, Goto, TypeOK, Locals, Moves, SameFds
    <3> QED
      BY <3>1 DEF KeepsRole, Using, Closing, Creating, Locking, HoldsAll, CtlCurrent
  <2> QED
    BY <2>1, <2>2, <2>3
<1> QED
  BY <1>0, <1>1, <1>3, <1>4, CalmCurrent

\* read, write, epoll_wait and the walks.
LEMMA UseWalkCurrent ==
    ASSUME TableInv, TableInv', CurrentInv, NEW t \in Threads,
           \/ Find(t) \/ FindNothing(t) \/ DropRef(t) \/ FoundForUse(t) \/ UseLock(t) \/ UseDone(t)
           \/ WalkLock(t) \/ WalkNext(t) \/ WalkEnd(t)
    PROVE  CurrentInv'
<1>0. TypeOK /\ TypeOK' /\ HeapInv'
  BY DEF TableInv
<1>1. UNCHANGED <<kernel, open_files>>
  BY DEF Find, FindNothing, DropRef, FoundForUse, UseLock, UseDone, WalkLock, WalkNext, WalkEnd, Lookup, TakeRef
<1>2. /\ \A d \in Descs : vtable'[d] \in {vtable[d], "none"}
      /\ NodesShrink
  <2>1. CASE UNCHANGED <<vtable, nodes>>
    BY <2>1 DEF NodesShrink, HasNode
  <2>2. CASE \E d : Unref(d)
    BY <1>0, <2>2 DEF Unref, Settle, TypeOK, NodesShrink, HasNode
  <2>3. CASE UseDone(t)
    BY <1>0, <2>3 DEF UseDone, TypeOK, NodesShrink, HasNode
  <2> QED
    BY <2>1, <2>2, <2>3 DEF Find, FindNothing, DropRef, FoundForUse, UseLock, WalkLock, WalkNext, WalkEnd,
                            Lookup, TakeRef
<1>3. Moves(t) /\ KeepsRole(t)
  <2>1. CASE FindNothing(t) \/ DropRef(t) \/ FoundForUse(t) \/ WalkLock(t) \/ WalkEnd(t)
    <3>1. \E to : /\ pc' = [pc EXCEPT ![t] = to]
                  /\ loc' = loc \/ \E new : loc' = [loc EXCEPT ![t] = new] /\ to = "idle"
                  /\ \/ to = "idle" /\ pc[t] \in {"found", "unref", "walking"}
                     \/ pc[t] = "found" /\ to = "use"
                     \/ pc[t] = "walk" /\ to = "walking"
      BY <2>1 DEF FindNothing, DropRef, FoundForUse, WalkLock, WalkEnd, TakeRef, Goto, Return
    <3>2. PICK to : /\ Moves(t) /\ pc'[t] = to /\ (to = "idle" \/ SameFds(t))
                    /\ \/ to = "idle" /\ pc[t] \in {"found", "unref", "walking"}
                       \/ pc[t] = "found" /\ to = "use"
                       \/ pc[t] = "walk" /\ to = "walking"
      BY <1>0, <3>1, RoleMoves
    <3> QED
      BY <3>2 DEF KeepsRole, Using, Closing, Creating, Locking, HoldsAll, CtlCurrent
  <2>2. CASE Find(t) \/ UseLock(t) \/ UseDone(t)
    <3>1. /\ Moves(t) /\ SameFds(t)
          /\ \/ pc[t] = "find" /\ pc'[t] = "found"
             \/ pc[t] = "use" /\ pc'[t] = "in_use"
             \/ pc[t] = "in_use" /\ pc'[t] = "unref"
      BY <1>0, <2>2 DEF Find, UseLock, UseDone, Lookup, Goto, TypeOK, Locals, Moves, SameFds
    <3> QED
      BY <3>1 DEF KeepsRole, Using, Closing, Creating, Locking, HoldsAll, CtlCurrent
  <2>3. CASE WalkNext(t)
    <3>1. pc[t] = "walking" /\ pc'[t] = "walking" /\ Moves(t) /\ SameFds(t)
      BY <1>0, <2>3 DEF WalkNext, TypeOK, Locals, Moves, SameFds
    <3> QED
      BY <3>1 DEF KeepsRole, Using, Closing, Creating, Locking, HoldsAll, CtlCurrent
  <2> QED
    BY <2>1, <2>2, <2>3
<1> QED
  BY <1>0, <1>1, <1>2, <1>3, CalmCurrent

\* epoll_ctl up to the mutex, and its end: the description that it looked up for
\* the added fd stays in the table.
LEMMA CtlLookupCurrent ==
    ASSUME TableInv, TableInv', CurrentInv, NEW t \in Threads,
           FoundForCtl(t) \/ Find2(t) \/ Found2(t) \/ CtlLock(t) \/ DropRef2(t)
    PROVE  CurrentInv'
<1>0. TypeOK /\ TypeOK' /\ HeapInv' /\ LocalInv(t) /\ CtlCurrent(t)
  BY DEF TableInv, ThreadInv, CurrentInv, CallInv
<1>1. UNCHANGED <<kernel, open_files>>
  BY DEF FoundForCtl, Find2, Found2, CtlLock, DropRef2, Lookup, TakeRef
<1>2. /\ \A d \in Descs : vtable'[d] \in {vtable[d], "none"}
      /\ NodesShrink
  <2>1. CASE UNCHANGED <<vtable, nodes>>
    BY <2>1 DEF NodesShrink, HasNode
  <2>2. CASE \E d : Unref(d)
    BY <1>0, <2>2 DEF Unref, Settle, TypeOK, NodesShrink, HasNode
  <2> QED
    BY <2>1, <2>2 DEF FoundForCtl, Find2, Found2, CtlLock, DropRef2, Lookup, TakeRef
<1>3. Moves(t) /\ KeepsRole(t)
  <2>1. CASE FoundForCtl(t)
    <3>1. /\ Moves(t) /\ SameFds(t)
          /\ pc[t] = "found" /\ pc'[t] \in {"unref", "find2", "ctl_lock"}
          /\ pc'[t] = "ctl_lock" => loc[t].op # "ADD"
      BY <1>0, <2>1 DEF FoundForCtl, TakeRef, Goto, TypeOK, Moves, SameFds
    <3> QED
      BY <3>1 DEF KeepsRole, SameFds, Using, Closing, Creating, Locking, HoldsAll, CtlCurrent
  <2>2. CASE Found2(t) \/ CtlLock(t)
    <3>1. /\ Moves(t) /\ SameFds(t) /\ loc'[t] = loc[t]
          /\ \/ pc[t] = "found2" /\ pc'[t] = "ctl_lock"
             \/ pc[t] = "ctl_lock" /\ pc'[t] = "ctl"
      BY <1>0, <2>2 DEF Found2, CtlLock, TakeRef, Goto, TypeOK, Moves, SameFds
    <3>2. CtlCurrent(t)'
      BY <1>0, <1>1, <3>1 DEF CtlCurrent, LocalInv
    <3> QED
      BY <3>1, <3>2 DEF KeepsRole, Using, Closing, Creating, Locking, HoldsAll
  <2>3. CASE Find2(t) \/ DropRef2(t)
    <3>1. /\ Moves(t) /\ SameFds(t)
          /\ \/ pc[t] = "find2" /\ pc'[t] = "found2"
             \/ pc[t] = "unref2" /\ pc'[t] = "unref"
      BY <1>0, <2>3 DEF Find2, DropRef2, Lookup, Goto, TypeOK, Locals, Moves, SameFds
    <3> QED
      BY <3>1 DEF KeepsRole, Using, Closing, Creating, Locking, HoldsAll, CtlCurrent
  <2> QED
    BY <2>1, <2>2, <2>3
<1> QED
  BY <1>0, <1>1, <1>2, <1>3, CalmCurrent

\* A node that epoll_ctl adds references what is in the table.
LEMMA CtlAddCurrent ==
    ASSUME TableInv, TableInv', CurrentInv, NEW t \in Threads, Ctl(t), AddNode(t),
           loc[t].op = "ADD", kernel[loc[t].fd2] # "closed"
    PROVE  CurrentInv'
<1> DEFINE d == loc[t].desc
           f == loc[t].fd2
           p == PollableDesc(t)
<1>0. TypeOK /\ TypeOK' /\ HeapInv' /\ CallInv(t) /\ SlotsOpen /\ LocalInv(t)
  BY DEF TableInv, ThreadInv, CurrentInv
<1>1. /\ UNCHANGED <<kernel, open_files, vtable, loc>>
      /\ pc[t] = "ctl" /\ pc' = [pc EXCEPT ![t] = "unref2"]
      /\ nodes' = [nodes EXCEPT ![d] = @ \cup {[fd |-> f, desc |-> p, fresh |-> TRUE]}]
  BY DEF Ctl, AddNode, Goto
<1>2. d \in Descs /\ f \in Fds
  BY <1>0, <1>1, LocalsType DEF LocalInv
<1>3. Moves(t) /\ pc'[t] = "unref2" /\ SameFds(t)
  BY <1>0, <1>1 DEF TypeOK, Moves, SameFds
<1>4. KeepsRole(t)
  BY <1>1, <1>3 DEF KeepsRole, Using, Closing, Creating, Locking, HoldsAll, CtlCurrent
<1>5. p = Expected(f)
  BY <1>0, <1>1, <1>2 DEF PollableDesc, Expected, CallInv, CtlCurrent, SlotsOpen
<1>6. ASSUME NEW a \in Descs, NEW g \in Fds, NEW e \in Descs \cup {NULL}, HasNode(a, g, e)'
      PROVE  HasNode(a, g, e) \/ (g = f /\ e = p)
  <2> HIDE DEF p
  <2>1. PICK n \in nodes'[a] : n.fd = g /\ n.desc = e
    BY <1>6 DEF HasNode
  <2>2. n \in nodes[a] \/ n = [fd |-> f, desc |-> p, fresh |-> TRUE]
    BY <1>0, <1>1, <1>2 DEF TypeOK
  <2> QED
    BY <2>1, <2>2 DEF HasNode
<1> HIDE DEF p, d, f
<1>7. Installed' = Installed /\ \A a \in Installed : a \in Descs
  BY <1>1 DEF Installed, IsEpollfd
<1>8. \A g \in Fds : Expected(g)' = Expected(g)
  BY <1>1 DEF Expected
<1>9. \A g \in Fds : LeavingFd(g) => LeavingFd(g)'
  BY <1>3, <1>4 DEF LeavingFd, Moves, KeepsRole, SameFds
<1>10. NodesRight'
  <2> SUFFICES ASSUME NEW a \in Installed, NEW g \in Fds, NEW e \in Descs \cup {NULL}, HasNode(a, g, e)'
               PROVE  RightNode(g, e)'
    BY <1>7 DEF NodesRight
  <2>1. CASE HasNode(a, g, e)
    BY <1>1, <1>8, <1>9, <2>1 DEF CurrentInv, NodesRight, RightNode
  <2>2. CASE g = f /\ e = p
    BY <1>1, <1>5, <1>8, <2>2 DEF RightNode, f
  <2> QED
    BY <1>6, <1>7, <2>1, <2>2
<1>11. SlotsOpen'
  BY <1>0, <1>1 DEF SlotsOpen
<1>12. Using(t) /\ f \in Names(t)
  BY <1>1 DEF Using, Names, f
<1>13. ASSUME NEW u \in Threads PROVE CreateFresh(u)' /\ CloseCleared(u)'
  <2>1. CreateFresh(u) /\ CloseCleared(u) /\ loc[u].fd \in Fds
    BY <1>0, LocalsType DEF CurrentInv, CallInv
  <2>2. Creating(u)' => Creating(u) /\ u # t
    BY <1>3 DEF Creating, Moves
  <2>3. Creating(u) /\ u # t => loc[u].fd # f
    BY <1>0, <1>12 DEF CallInv, UsesOpen
  <2>4. pc'[u] \in Locking => pc[u] \in Locking
    BY <1>3, <1>4 DEF Moves, KeepsRole
  <2>5. CreateFresh(u)'
    BY <1>1, <1>6, <1>7, <2>1, <2>2, <2>3 DEF CreateFresh
  <2> QED
    BY <1>1, <2>1, <2>4, <2>5 DEF CloseCleared
<1>14. ~(Closing(t)' \/ Creating(t)')
  BY <1>3 DEF Closing, Creating
<1>15. \A u \in Threads \ {t} : UsesOpen(u)' /\ CtlCurrent(u)'
  BY <1>0, <1>1, <1>3, <1>14, UsersKeep
<1>16. UsesOpen(t)' /\ CtlCurrent(t)'
  <2>1. Names(t)' = Names(t)
    BY <1>1, <1>3 DEF Names
  <2> QED
    BY <1>0, <1>1, <1>3, <1>4, <1>12, <2>1 DEF CallInv, UsesOpen, KeepsRole, Moves, Closing, Creating
<1>17. \A u \in Threads : CallInv(u)'
  BY <1>13, <1>15, <1>16 DEF CallInv
<1> QED
  BY <1>10, <1>11, <1>17 DEF CurrentInv

\* epoll_ctl adds a node, removes one or leaves the nodes alone.
LEMMA CtlCurrentKept ==
    ASSUME TableInv, TableInv', CurrentInv, NEW t \in Threads, Ctl(t)
    PROVE  CurrentInv'
<1>0. TypeOK /\ TypeOK' /\ HeapInv'
  BY DEF TableInv
<1>1. \/ UNCHANGED <<vtable, nodes>>
      \/ RemoveNodes({loc[t].desc}, loc[t].fd2)
      \/ AddNode(t) /\ loc[t].op = "ADD" /\ kernel[loc[t].fd2] # "closed"
  BY DEF Ctl
<1>2. CASE AddNode(t) /\ loc[t].op = "ADD" /\ kernel[loc[t].fd2] # "closed"
  BY <1>2, CtlAddCurrent
<1>3. CASE UNCHANGED <<vtable, nodes>> \/ RemoveNodes({loc[t].desc}, loc[t].fd2)
  <2>1. UNCHANGED <<kernel, open_files>> /\ Moves(t) /\ SameFds(t) /\ pc[t] = "ctl" /\ pc'[t] = "unref2"
    BY <1>0 DEF Ctl, Goto, TypeOK, Moves, SameFds
  <2>2. KeepsRole(t)
    BY <2>1 DEF KeepsRole, Using, Closing, Creating, Locking, HoldsAll, CtlCurrent
  <2>3. /\ \A d \in Descs : vtable'[d] \in {vtable[d], "none"}
        /\ NodesShrink
    BY <1>0, <1>3 DEF RemoveNodes, Settle, TypeOK, NodesShrink, HasNode
  <2> QED
    BY <1>0, <2>1, <2>2, <2>3, CalmCurrent
<1> QED
  BY <1>1, <1>2, <1>3

\* A call starts with fds that it may use or close.
LEMMA StartCurrent ==
    ASSUME TypeOK, CurrentInv, NEW t \in Threads, Moves(t),
           UNCHANGED <<kernel, open_files, vtable, nodes>>,
           pc[t] = "idle", pc'[t] \in {"create", "close", "find", "walk"},
           pc'[t] = "close" => NotUsed(t, loc'[t].fd),
           pc'[t] = "find" => \A f \in Names(t)' :
               /\ kernel[f] # "closed"
               /\ \A u \in Threads \ {t} : Closing(u) \/ Creating(u) => loc[u].fd # f
    PROVE  CurrentInv'
<1>1. /\ Installed' = Installed
      /\ \A g \in Fds : Expected(g)' = Expected(g)
      /\ \A d \in Installed, g \in Fds, e \in Descs \cup {NULL} : HasNode(d, g, e)' <=> HasNode(d, g, e)
  BY DEF Installed, IsEpollfd, Expected, HasNode
<1>2. \A g \in Fds : LeavingFd(g) => LeavingFd(g)'
  BY DEF LeavingFd, Moves
<1>3. SlotsOpen' /\ NodesRight'
  BY <1>1, <1>2 DEF CurrentInv, SlotsOpen, NodesRight, RightNode
<1>4. \A u \in Threads \ {t} : UsesOpen(u)' /\ CtlCurrent(u)'
  BY UsersKeep DEF Closing, Creating
<1>5. ASSUME NEW u \in Threads PROVE CreateFresh(u)' /\ CloseCleared(u)'
  <2>1. CreateFresh(u) /\ CloseCleared(u) /\ loc[u].fd \in Fds
    BY LocalsType DEF CurrentInv, CallInv
  <2>2. Creating(u)' => Creating(u) /\ loc'[u] = loc[u]
    BY DEF Creating, Moves
  <2>3. pc'[u] \in Locking => pc[u] \in Locking /\ loc'[u] = loc[u]
    BY DEF Moves, Locking, HoldsAll
  <2> QED
    BY <1>1, <2>1, <2>2, <2>3 DEF CreateFresh, CloseCleared
<1>6. UsesOpen(t)' /\ CtlCurrent(t)'
  BY DEF UsesOpen, CtlCurrent, Using, Moves, Closing, Creating
<1> QED
  BY <1>3, <1>4, <1>5, <1>6 DEF CurrentInv, CallInv

\* The calls of a disciplined program.
LEMMA CallsCurrent ==
    ASSUME Disciplined, TableInv, CurrentInv, NEW t \in Threads, Call(t)
    PROVE  CurrentInv'
<1>0. TypeOK
  BY DEF TableInv
<1>1. ASSUME NEW call, NEW to \in {"create", "close", "find", "walk"}, NEW new, StartCall(t, call, to, new)
      PROVE  /\ Moves(t) /\ UNCHANGED <<kernel, open_files, vtable, nodes>>
             /\ pc[t] = "idle" /\ pc'[t] = to /\ loc'[t] = new
  BY <1>0, <1>1 DEF StartCall, Goto, TypeOK, Moves
<1>2. CASE CallCreate(t)
  <2>1. StartCall(t, "create", "create", NoLocals)
    BY <1>2 DEF CallCreate
  <2> QED
    BY <1>0, <1>1, <2>1, StartCurrent
<1>3. CASE CallWalk(t)
  <2>1. StartCall(t, "walk", "walk", NoLocals)
    BY <1>3 DEF CallWalk
  <2> QED
    BY <1>0, <1>1, <2>1, StartCurrent
<1>4. CASE CallClose(t)
  <2>1. PICK f \in Fds : MayClose(t, f) /\ StartCall(t, "close", "close", [NoLocals EXCEPT !.fd = f])
    BY <1>4 DEF CallClose
  <2>2. NotUsed(t, f)
    BY <2>1 DEF MayClose, NotUsed
  <2>3. [NoLocals EXCEPT !.fd = f].fd = f
    BY DEF NoLocals
  <2> QED
    BY <1>0, <1>1, <2>1, <2>2, <2>3, StartCurrent
<1>5. CASE CallUse(t)
  <2>1. PICK f \in Fds : MayUse(t, f) /\ StartCall(t, "use", "find", [NoLocals EXCEPT !.fd = f])
    BY <1>5 DEF CallUse
  <2> DEFINE new == [NoLocals EXCEPT !.fd = f]
  <2>2. new.fd = f /\ new.op = "none"
    BY DEF NoLocals
  <2> HIDE DEF new
  <2>3. /\ Moves(t) /\ UNCHANGED <<kernel, open_files, vtable, nodes>>
        /\ pc[t] = "idle" /\ pc'[t] = "find" /\ loc'[t] = new
    BY <1>1, <2>1 DEF new
  <2>4. \A g \in Names(t)' : g = f
    BY <2>2, <2>3 DEF Names
  <2> QED
    BY <1>0, <2>1, <2>3, <2>4, StartCurrent DEF MayUse
<1>6. CASE CallCtl(t)
  <2>1. PICK f \in Fds, f2 \in Fds, op \in {"ADD", "MOD", "DEL"} :
            /\ MayUse(t, f) /\ MayUse(t, f2)
            /\ StartCall(t, "ctl", "find", [NoLocals EXCEPT !.fd = f, !.fd2 = f2, !.op = op])
    BY <1>6, Zenon DEF CallCtl
  <2> DEFINE new == [NoLocals EXCEPT !.fd = f, !.fd2 = f2, !.op = op]
  <2>2. new.fd = f /\ new.fd2 = f2
    BY DEF NoLocals
  <2> HIDE DEF new
  <2>3. /\ Moves(t) /\ UNCHANGED <<kernel, open_files, vtable, nodes>>
        /\ pc[t] = "idle" /\ pc'[t] = "find" /\ loc'[t] = new
    BY <1>1, <2>1 DEF new
  <2>4. \A g \in Names(t)' : g = f \/ g = f2
    BY <2>2, <2>3 DEF Names
  <2> QED
    BY <1>0, <2>1, <2>3, <2>4, StartCurrent DEF MayUse
<1> QED
  BY <1>2, <1>3, <1>4, <1>5, <1>6 DEF Call

\* A thread with the write lock is alone: no other creates or locks epollfds.
LEMMA WriterAlone ==
    ASSUME TableInv, NEW t \in Threads, Creating(t) \/ (pc[t] \in Writing /\ readers = {})
    PROVE  /\ \A u \in Threads \ {t} : ~Creating(u)
           /\ \A u \in Threads : pc[u] \notin Locking
           /\ \A f : ~LeavingFd(f)
<1>1. \A u \in Threads : LockInv(u)
  BY DEF TableInv, ThreadInv
<1>2. pc[t] \in Writing /\ readers = {} /\ announced = t
  BY <1>1 DEF LockInv, Creating, Writing
<1>3. \A u \in Threads : pc[u] \notin Locking
  BY <1>1, <1>2 DEF LockInv, Reading, Locking, HoldsAll
<1>4. \A u \in Threads \ {t} : ~Creating(u)
  BY <1>1, <1>2 DEF LockInv, Creating, Writing
<1> QED
  BY <1>3, <1>4 DEF LeavingFd, Locking, HoldsAll

\* kqueue1 gives a number that is in no epoll instance: a close that has not yet
\* removed its fd still has the read lock.
LEMMA CreateKqueueCurrent ==
    ASSUME TableInv, CurrentInv, NEW t \in Threads, CreateKqueue(t)
    PROVE  CurrentInv'
<1>0. TypeOK /\ SlotsOpen /\ NodesRight
  BY DEF TableInv, CurrentInv
<1>1. PICK kq \in Fds : /\ kernel[kq] = "closed"
                        /\ kernel' = [kernel EXCEPT ![kq] = "kqueue"]
                        /\ loc' = [loc EXCEPT ![t].fd = kq]
                        /\ open_files' = [open_files EXCEPT ![kq] = NULL]
                        /\ IF open_files[kq] = NULL THEN UNCHANGED <<refcount, vtable, nodes>>
                           ELSE Unref(open_files[kq])
  BY DEF CreateKqueue
<1>2. open_files[kq] = NULL
  BY <1>0, <1>1 DEF SlotsOpen
<1>3. UNCHANGED <<open_files, vtable, nodes>>
  BY <1>0, <1>1, <1>2 DEF TypeOK
<1>4. Moves(t) /\ pc[t] = "create_wr" /\ pc'[t] = "create_desc" /\ loc'[t].fd = kq /\ readers = {}
  BY <1>0, <1>1 DEF CreateKqueue, Goto, WriteLocked, TypeOK, Moves, Locals
<1>5. /\ \A u \in Threads \ {t} : ~Creating(u)
      /\ \A u \in Threads : pc[u] \notin Locking
      /\ \A f : ~LeavingFd(f)
  BY <1>4, WriterAlone DEF Writing
<1>6. /\ Installed' = Installed
      /\ \A g \in Fds : Expected(g)' = Expected(g)
      /\ \A d \in Installed, g \in Fds, e \in Descs \cup {NULL} : HasNode(d, g, e)' <=> HasNode(d, g, e)
  BY <1>3 DEF Installed, IsEpollfd, Expected, HasNode
<1>7. \A d \in Installed, e \in Descs \cup {NULL} : ~HasNode(d, kq, e)
  BY <1>0, <1>1, <1>5 DEF NodesRight, RightNode
<1>8. kernel'[kq] = "kqueue" /\ \A g \in Fds \ {kq} : kernel'[g] = kernel[g]
  BY <1>0, <1>1 DEF TypeOK
<1>9. SlotsOpen' /\ NodesRight'
  BY <1>0, <1>3, <1>5, <1>6, <1>8 DEF SlotsOpen, NodesRight, RightNode
<1>10. NotUsed(t, kq)
  BY <1>1, ClosedFdNotUsed
<1>11. \A u \in Threads \ {t} : UsesOpen(u)' /\ CtlCurrent(u)'
  BY <1>0, <1>3, <1>4, <1>8, <1>10, UsersKeep
<1>12. \A u \in Threads \ {t} : CreateFresh(u)' /\ CloseCleared(u)'
  BY <1>4, <1>5 DEF Moves, CreateFresh, CloseCleared, Creating
<1>13. CallInv(t)'
  BY <1>4, <1>6, <1>7, <1>8 DEF CallInv, UsesOpen, CtlCurrent, CreateFresh, CloseCleared, Using, Locking, HoldsAll
<1> QED
  BY <1>9, <1>11, <1>12, <1>13 DEF CurrentInv, CallInv

\* A creation that fails closes an fd that is nowhere.
LEMMA FailedCreateCurrent ==
    ASSUME TableInv, CurrentInv, NEW t \in Threads, CreateDescFails(t) \/ DropClose(t)
    PROVE  CurrentInv'
<1> DEFINE f == loc[t].fd
<1>0. TypeOK /\ SlotsOpen /\ NodesRight /\ LocalInv(t) /\ CreateFresh(t)
  BY DEF TableInv, ThreadInv, CurrentInv, CallInv
<1>1. /\ pc[t] \in {"create_desc", "drop_close"} /\ kernel' = [kernel EXCEPT ![f] = "closed"]
      /\ UNCHANGED <<open_files, vtable, nodes>>
  BY DEF CreateDescFails, DropClose, Return, Goto, KernelClose
<1>2. Moves(t) /\ pc'[t] = "idle"
  BY <1>0 DEF CreateDescFails, DropClose, Return, Goto, TypeOK, Moves
<1>3. Creating(t) /\ f \in Fds
  BY <1>0, <1>1, LocalsType DEF Creating
<1>4. /\ \A u \in Threads \ {t} : ~Creating(u)
      /\ \A u \in Threads : pc[u] \notin Locking
      /\ \A g : ~LeavingFd(g)
  BY <1>3, WriterAlone
<1>5. /\ Installed' = Installed
      /\ \A g \in Fds : Expected(g)' = Expected(g)
      /\ \A d \in Installed, g \in Fds, e \in Descs \cup {NULL} : HasNode(d, g, e)' <=> HasNode(d, g, e)
  BY <1>1 DEF Installed, IsEpollfd, Expected, HasNode
<1>6. open_files[f] = NULL /\ \A d \in Installed, e \in Descs \cup {NULL} : ~HasNode(d, f, e)
  BY <1>0, <1>1, <1>3 DEF LocalInv, CreateFresh
<1>7. NotUsed(t, f)
  BY <1>3, OwnFdNotUsed
<1>8. \A g \in Fds \ {f} : kernel'[g] = kernel[g]
  BY <1>0, <1>1 DEF TypeOK
<1> HIDE DEF f
<1>9. SlotsOpen' /\ NodesRight'
  BY <1>0, <1>1, <1>4, <1>5, <1>6, <1>8 DEF SlotsOpen, NodesRight, RightNode
<1>10. \A u \in Threads \ {t} : UsesOpen(u)' /\ CtlCurrent(u)'
  BY <1>0, <1>1, <1>2, <1>7, <1>8, UsersKeep DEF Closing, Creating
<1>11. \A u \in Threads \ {t} : CreateFresh(u)' /\ CloseCleared(u)'
  BY <1>2, <1>4 DEF Moves, CreateFresh, CloseCleared, Creating
<1>12. CallInv(t)'
  BY <1>2 DEF CallInv, UsesOpen, CtlCurrent, CreateFresh, CloseCleared, Using, Creating, Locking, HoldsAll
<1> QED
  BY <1>9, <1>10, <1>11, <1>12 DEF CurrentInv, CallInv

\* The new description is in the table: no epoll instance has its fd.
LEMMA InstallDescCurrent ==
    ASSUME TableInv, TableInv', CurrentInv, NEW t \in Threads, InstallDesc(t)
    PROVE  CurrentInv'
<1> DEFINE f == loc[t].fd
           d == loc[t].desc
<1>0. TypeOK /\ TypeOK' /\ HeapInv /\ SlotsOpen /\ NodesRight /\ LocalInv(t) /\ KindInv(t) /\ CreateFresh(t)
  BY DEF TableInv, ThreadInv, CurrentInv, CallInv
<1>1. PICK kind \in Kinds : vtable' = [vtable EXCEPT ![d] = kind]
  BY DEF InstallDesc
<1>2. /\ pc[t] = "created" /\ open_files' = [open_files EXCEPT ![f] = d]
      /\ UNCHANGED <<kernel, nodes>>
  BY DEF InstallDesc, Return, Goto
<1>3. Moves(t) /\ pc'[t] = "idle"
  BY <1>0 DEF InstallDesc, Return, Goto, TypeOK, Moves
<1>4. Creating(t) /\ f \in Fds /\ d \in Descs /\ vtable[d] = "none"
  BY <1>0, <1>2, LocalsType DEF Creating, LocalInv, KindInv
<1>5. /\ \A u \in Threads \ {t} : ~Creating(u)
      /\ \A u \in Threads : pc[u] \notin Locking
      /\ \A g : ~LeavingFd(g)
  BY <1>4, WriterAlone
<1>6. /\ kernel[f] = "kqueue" /\ nodes[d] = {}
      /\ \A a \in Installed, e \in Descs \cup {NULL} : ~HasNode(a, f, e)
  BY <1>0, <1>4 DEF CreateFresh, HeapInv
<1>7. NotUsed(t, f)
  BY <1>4, OwnFdNotUsed
<1> HIDE DEF f, d
<1>8. \A g \in Fds \ {f} : open_files'[g] = open_files[g] /\ open_files[g] # d
  BY <1>0, <1>2, <1>4 DEF TypeOK, HeapInv
<1>9. \A g \in Fds \ {f} : Expected(g)' = Expected(g)
  <2> SUFFICES ASSUME NEW g \in Fds \ {f} PROVE Expected(g)' = Expected(g)
    OBVIOUS
  <2>1. open_files[g] # NULL => open_files[g] \in Descs /\ vtable'[open_files[g]] = vtable[open_files[g]]
    BY <1>0, <1>1, <1>4, <1>8 DEF TypeOK
  <2> QED
    BY <1>8, <2>1 DEF Expected
<1>10. \A a \in Installed' : a = d \/ a \in Installed
  <2> SUFFICES ASSUME NEW a \in Installed', a # d PROVE a \in Installed
    OBVIOUS
  <2>1. a \in Descs /\ a # NULL /\ vtable'[a] = "epoll" /\ \E g \in Fds : open_files'[g] = a
    BY DEF Installed, IsEpollfd
  <2>2. vtable[a] = "epoll" /\ \E g \in Fds : open_files[g] = a
    BY <1>0, <1>1, <1>2, <1>4, <2>1 DEF TypeOK
  <2> QED
    BY <2>1, <2>2 DEF Installed, IsEpollfd
<1>11. \A a \in Installed', g \in Fds, e \in Descs \cup {NULL} :
           HasNode(a, g, e)' => a \in Installed /\ HasNode(a, g, e) /\ g # f
  BY <1>2, <1>6, <1>10 DEF HasNode
<1>12. NodesRight'
  BY <1>0, <1>2, <1>5, <1>9, <1>11 DEF NodesRight, RightNode
<1>13. SlotsOpen'
  BY <1>0, <1>2, <1>6, <1>8 DEF SlotsOpen
<1>14. \A u \in Threads \ {t} : UsesOpen(u)' /\ CtlCurrent(u)'
  BY <1>0, <1>2, <1>3, <1>7, <1>8, UsersKeep DEF Closing, Creating
<1>15. \A u \in Threads \ {t} : CreateFresh(u)' /\ CloseCleared(u)'
  BY <1>3, <1>5 DEF Moves, CreateFresh, CloseCleared, Creating
<1>16. CallInv(t)'
  BY <1>3 DEF CallInv, UsesOpen, CtlCurrent, CreateFresh, CloseCleared, Using, Creating, Locking, HoldsAll
<1> QED
  BY <1>12, <1>13, <1>14, <1>15, <1>16 DEF CurrentInv, CallInv

\* A close takes its fd out of the table; its nodes are about to go.
LEMMA ClearSlotCurrent ==
    ASSUME TableInv, TableInv', CurrentInv, NEW t \in Threads, ClearSlot(t)
    PROVE  CurrentInv'
<1> DEFINE f == loc[t].fd
<1>0. TypeOK /\ TypeOK' /\ SlotsOpen /\ NodesRight
  BY DEF TableInv, CurrentInv
<1>1. /\ pc[t] = "close_wr" /\ open_files' = [open_files EXCEPT ![f] = NULL]
      /\ UNCHANGED <<kernel, vtable, nodes>> /\ readers = {}
  BY DEF ClearSlot, Goto, WriteLocked
<1>2. Moves(t) /\ pc'[t] = "lock_epollfds" /\ SameFds(t)
  BY <1>0 DEF ClearSlot, Goto, TypeOK, Moves, SameFds, Locals
<1>3. Closing(t) /\ f \in Fds /\ loc'[t].fd = f
  BY <1>0, <1>1, <1>2, LocalsType DEF Closing, SameFds
<1>4. \A u \in Threads \ {t} : ~Creating(u) /\ pc[u] \notin Locking
  BY <1>1, WriterAlone DEF Writing
<1>5. FillsNoSlot /\ KindsKept
  BY <1>0, <1>1 DEF FillsNoSlot, KindsKept, TypeOK
<1>6. Installed' \subseteq Installed
  BY <1>0, <1>5, InstalledShrinks
<1>7. NotUsed(t, f)
  BY <1>3, OwnFdNotUsed
<1> HIDE DEF f
<1>8. \A g \in Fds \ {f} : open_files'[g] = open_files[g] /\ Expected(g)' = Expected(g)
  BY <1>0, <1>1, <1>3 DEF TypeOK, Expected
<1>9. open_files'[f] = NULL /\ \A g \in Fds : g = f => LeavingFd(g)'
  BY <1>0, <1>1, <1>2, <1>3 DEF LeavingFd, TypeOK
<1>10. \A g \in Fds : LeavingFd(g) => LeavingFd(g)'
  BY <1>1, <1>2 DEF LeavingFd, Moves
<1>11. NodesRight'
  BY <1>0, <1>1, <1>6, <1>8, <1>9, <1>10 DEF NodesRight, RightNode, HasNode
<1>12. SlotsOpen'
  BY <1>0, <1>1, <1>8, <1>9 DEF SlotsOpen
<1>13. \A u \in Threads \ {t} : UsesOpen(u)' /\ CtlCurrent(u)'
  BY <1>0, <1>1, <1>2, <1>3, <1>7, <1>8, UsersKeep
<1>14. \A u \in Threads \ {t} : CreateFresh(u)' /\ CloseCleared(u)'
  BY <1>2, <1>4 DEF Moves, CreateFresh, CloseCleared, Creating
<1>15. CallInv(t)'
  BY <1>2, <1>3, <1>9 DEF CallInv, UsesOpen, CtlCurrent, CreateFresh, CloseCleared, Using, Creating
<1> QED
  BY <1>11, <1>12, <1>13, <1>14, <1>15 DEF CurrentInv, CallInv

\* A close removes the nodes of its fd, all of them in epollfds that it has locked.
LEMMA RemoveFdCurrent ==
    ASSUME TableInv, TableInv', CurrentInv, NEW t \in Threads, RemoveFd(t)
    PROVE  CurrentInv'
<1> DEFINE f == loc[t].fd
<1>0. TypeOK /\ TypeOK' /\ HeapInv /\ HeapInv' /\ SlotsOpen /\ NodesRight
  BY DEF TableInv, CurrentInv
<1>1. /\ pc[t] = "remove_fd" /\ UNCHANGED <<kernel, open_files, loc>>
      /\ RemoveNodes(Installed, f)
  BY DEF RemoveFd, Goto
<1>2. Moves(t) /\ pc'[t] = "unref_closed"
  BY <1>0 DEF RemoveFd, Goto, TypeOK, Moves
<1>3. f \in Fds /\ Installed \subseteq Descs
  BY <1>0, LocalsType DEF Installed
<1>4. nodes' = [d \in Descs |-> IF d \in Installed THEN {n \in nodes[d] : n.fd # f} ELSE nodes[d]]
  BY <1>0, <1>1, <1>3, RemoveNodesEffect
<1>5. KindsKept
  BY <1>0, <1>1, VtablesShrink DEF RemoveNodes, Settle, TypeOK
<1>6. Installed' \subseteq Installed
  <2>1. FillsNoSlot
    BY <1>1 DEF FillsNoSlot
  <2> QED
    BY <1>0, <1>5, <2>1, InstalledShrinks
<1> HIDE DEF f
<1>7. \A d \in Installed', g \in Fds, e \in Descs \cup {NULL} :
          HasNode(d, g, e)' => d \in Installed /\ HasNode(d, g, e) /\ g # f
  BY <1>3, <1>4, <1>6 DEF HasNode
<1>8. \A g \in Fds : Expected(g)' = Expected(g)
  BY <1>1, <1>5 DEF Expected, KindsKept
<1>9. \A g \in Fds \ {f} : LeavingFd(g) => LeavingFd(g)'
  BY <1>1, <1>2 DEF LeavingFd, Moves, f
<1>10. NodesRight'
  BY <1>0, <1>1, <1>7, <1>8, <1>9 DEF NodesRight, RightNode
<1>11. SlotsOpen'
  BY <1>0, <1>1 DEF SlotsOpen
<1>12. NotUsed(t, loc'[t].fd)
  BY <1>1, OwnFdNotUsed DEF Closing
<1>13. \A u \in Threads \ {t} : UsesOpen(u)' /\ CtlCurrent(u)'
  BY <1>0, <1>1, <1>2, <1>12, UsersKeep
<1>14. ASSUME NEW u \in Threads PROVE CreateFresh(u)' /\ CloseCleared(u)'
  <2>1. CreateFresh(u) /\ CloseCleared(u) /\ loc[u].fd \in Fds
    BY <1>0, LocalsType DEF CurrentInv, CallInv
  <2>2. (Creating(u)' => Creating(u)) /\ (pc'[u] \in Locking => pc[u] \in Locking)
    BY <1>1, <1>2 DEF Creating, Moves, Locking, HoldsAll
  <2> QED
    BY <1>1, <1>7, <2>1, <2>2 DEF CreateFresh, CloseCleared
<1>15. UsesOpen(t)' /\ CtlCurrent(t)'
  BY <1>2 DEF UsesOpen, CtlCurrent, Using
<1> QED
  BY <1>10, <1>11, <1>13, <1>14, <1>15 DEF CurrentInv, CallInv

\* A close closes the fd, which is in no epoll instance of the table any more.
LEMMA RealCloseCurrent ==
    ASSUME TableInv, CurrentInv, NEW t \in Threads, RealClose(t)
    PROVE  CurrentInv'
<1> DEFINE f == loc[t].fd
<1>0. TypeOK /\ SlotsOpen /\ NodesRight /\ CloseCleared(t) /\ NodeInv(t) /\ \A u \in Threads : LockInv(u)
  BY DEF TableInv, ThreadInv, CurrentInv, CallInv
<1>1. /\ pc[t] = "real_close" /\ kernel' = [kernel EXCEPT ![f] = "closed"]
      /\ UNCHANGED <<open_files, vtable, loc>>
      /\ nodes' = [d \in Descs |-> {IF n.fd = f THEN [n EXCEPT !.fresh = FALSE] ELSE n : n \in nodes[d]}]
  BY DEF RealClose, Goto, KernelClose
<1>2. Moves(t) /\ pc'[t] = "unlock_epollfds"
  BY <1>0 DEF RealClose, Goto, TypeOK, Moves
<1>3. f \in Fds /\ Closing(t) /\ open_files[f] = NULL
  BY <1>0, <1>1, LocalsType DEF Closing, CloseCleared, Locking, HoldsAll
<1>4. \A d \in Installed, e \in Descs \cup {NULL} : ~HasNode(d, f, e)
  BY <1>0, <1>1 DEF NodeInv
<1>5. Installed' = Installed /\ Installed \subseteq Descs /\ \A g \in Fds : Expected(g)' = Expected(g)
  BY <1>1 DEF Installed, IsEpollfd, Expected
<1> HIDE DEF f
<1>6. \A d \in Descs, g \in Fds, e \in Descs \cup {NULL} : HasNode(d, g, e)' => HasNode(d, g, e)
  <2> SUFFICES ASSUME NEW d \in Descs, NEW g \in Fds, NEW e \in Descs \cup {NULL}, HasNode(d, g, e)'
               PROVE  HasNode(d, g, e)
    OBVIOUS
  <2>1. PICK m \in nodes'[d] : m.fd = g /\ m.desc = e
    BY DEF HasNode
  <2>2. PICK n \in nodes[d] : m = IF n.fd = f THEN [n EXCEPT !.fresh = FALSE] ELSE n
    BY <1>1
  <2>3. n \in Node
    BY <1>0 DEF TypeOK
  <2>4. n.fd = m.fd /\ n.desc = m.desc
    BY <2>2, <2>3 DEF Node
  <2> QED
    BY <2>1, <2>4 DEF HasNode
<1>7. \A g \in Fds \ {f} : kernel'[g] = kernel[g]
  BY <1>0, <1>1 DEF TypeOK
<1>8. \A g \in Fds : LeavingFd(g) => LeavingFd(g)'
  BY <1>1, <1>2 DEF LeavingFd, Moves
<1>9. NodesRight'
  BY <1>0, <1>4, <1>5, <1>6, <1>7, <1>8 DEF NodesRight, RightNode
<1>10. SlotsOpen'
  BY <1>0, <1>1, <1>3, <1>7 DEF SlotsOpen
<1>11. NotUsed(t, f) /\ NotUsed(t, loc'[t].fd)
  BY <1>1, <1>3, OwnFdNotUsed DEF f
<1>12. \A u \in Threads \ {t} : UsesOpen(u)' /\ CtlCurrent(u)'
  BY <1>0, <1>1, <1>2, <1>7, <1>11, UsersKeep
<1>13. \A u \in Threads : ~Creating(u)
  BY <1>0, <1>1 DEF LockInv, Creating, Reading
<1>14. \A u \in Threads : CreateFresh(u)'
  BY <1>2, <1>13 DEF CreateFresh, Creating, Moves
<1>15. \A u \in Threads : CloseCleared(u)'
  BY <1>1, <1>2 DEF CurrentInv, CallInv, CloseCleared, Moves, Locking, HoldsAll
<1>16. UsesOpen(t)' /\ CtlCurrent(t)'
  BY <1>2 DEF UsesOpen, CtlCurrent, Using
<1> QED
  BY <1>9, <1>10, <1>12, <1>14, <1>15, <1>16 DEF CurrentInv, CallInv

\* The program opens other files, or nothing happens.
LEMMA OpenCurrent ==
    ASSUME TypeOK, CurrentInv, UNCHANGED <<open_files, vtable, nodes, pc, loc>>,
           \A g \in Fds : kernel'[g] = kernel[g] \/ (kernel[g] = "closed" /\ kernel'[g] = "file")
    PROVE  CurrentInv'
<1>1. /\ Installed' = Installed
      /\ \A g \in Fds : Expected(g)' = Expected(g)
      /\ \A d \in Installed, g \in Fds, e \in Descs \cup {NULL} : HasNode(d, g, e)' <=> HasNode(d, g, e)
  BY DEF Installed, IsEpollfd, Expected, HasNode
<1>2. \A g \in Fds : LeavingFd(g)' <=> LeavingFd(g)
  BY DEF LeavingFd
<1>3. SlotsOpen' /\ NodesRight'
  BY <1>1, <1>2 DEF CurrentInv, SlotsOpen, NodesRight, RightNode
<1>4. ASSUME NEW u \in Threads PROVE CallInv(u)'
  <2>1. CallInv(u) /\ loc[u].fd \in Fds /\ loc[u].fd2 \in Fds
    BY LocalsType DEF CurrentInv
  <2>2. Names(u)' = Names(u) /\ Names(u) \subseteq Fds
    BY <2>1 DEF Names
  <2>3. UsesOpen(u)'
    BY <2>1, <2>2 DEF CallInv, UsesOpen, Using, Closing, Creating
  <2>4. CreateFresh(u)'
    BY <1>1, <2>1 DEF CallInv, CreateFresh, Creating
  <2> QED
    BY <2>1, <2>3, <2>4 DEF CallInv, CtlCurrent, CloseCleared
<1> QED
  BY <1>3, <1>4 DEF CurrentInv

\* Every step of a disciplined program keeps the invariant.
LEMMA NextCurrent ==
    ASSUME Disciplined, ~RawCloses, TableInv, TableInv', CurrentInv, [Next]_vars
    PROVE  CurrentInv'
<1>0. TypeOK
  BY DEF TableInv
<1>1. CASE UNCHANGED vars
  BY <1>0, <1>1, OpenCurrent DEF vars
<1>2. ASSUME NEW t \in Threads, Call(t) PROVE CurrentInv'
  BY <1>2, CallsCurrent
<1>3. ASSUME NEW t \in Threads, Step(t) PROVE CurrentInv'
  BY <1>3, CreateCloseCurrent, UseWalkCurrent, CtlLookupCurrent, CtlCurrentKept, CreateKqueueCurrent,
     FailedCreateCurrent, InstallDescCurrent, ClearSlotCurrent, RemoveFdCurrent, RealCloseCurrent DEF Step
<1>4. ASSUME NEW f \in Fds, OpenFile(f) PROVE CurrentInv'
  <2>1. \A g \in Fds : kernel'[g] = kernel[g] \/ (kernel[g] = "closed" /\ kernel'[g] = "file")
    BY <1>0, <1>4 DEF OpenFile, TypeOK
  <2> QED
    BY <1>0, <1>4, <2>1, OpenCurrent DEF OpenFile
<1> QED
  BY <1>1, <1>2, <1>3, <1>4 DEF Next, Done, RawClose

LEMMA InitCurrent == Init => CurrentInv
<1> SUFFICES ASSUME Init PROVE CurrentInv
  OBVIOUS
<1>1. PICK ep \in Descs, tfd \in Descs : tfd # ep /\ Start(ep, tfd)
  BY InitStart
<1> DEFINE n0 == [fd |-> 1, desc |-> tfd, fresh |-> TRUE]
<1>2. 0 \in Fds /\ 1 \in Fds /\ n0.fd = 1 /\ n0.desc = tfd
  BY DEF Fds
<1>3. /\ open_files = [f \in Fds |-> IF f = 0 THEN ep ELSE IF f = 1 THEN tfd ELSE NULL]
      /\ vtable = [d \in Descs |-> IF d = ep THEN "epoll" ELSE IF d = tfd THEN "pollable" ELSE "none"]
      /\ nodes = [d \in Descs |-> IF d = ep THEN {n0} ELSE {}]
      /\ kernel = [f \in Fds |-> IF f <= 1 THEN "kqueue" ELSE "closed"]
  BY <1>1 DEF Start
<1> HIDE DEF n0
<1>4. SlotsOpen
  BY <1>3 DEF SlotsOpen, Fds
<1>5. ASSUME NEW d \in Descs, NEW f \in Fds, NEW e, HasNode(d, f, e) PROVE f = 1 /\ e = tfd
  BY <1>2, <1>3, <1>5 DEF HasNode
<1>6. kernel[1] = "kqueue" /\ Expected(1) = tfd
  BY <1>1, <1>2, <1>3 DEF Expected
<1>7. NodesRight
  BY <1>5, <1>6 DEF NodesRight, RightNode, Installed
<1>8. \A t \in Threads : CallInv(t)
  BY DEF Init, CallInv, UsesOpen, CtlCurrent, CreateFresh, CloseCleared, Using, Creating, Locking, HoldsAll
<1> QED
  BY <1>4, <1>7, <1>8 DEF CurrentInv

\* In a program that closes its fds through the shim, and none while another call
\* names it, an epoll instance polls for every registered fd the description that
\* the table has under that fd, until a close removes it.
THEOREM NodesCurrent ==
    ASSUME Disciplined, ~RawCloses
    PROVE  Spec => []NodeDescCurrent
<1>1. ASSUME CurrentInv, TypeOK PROVE NodeDescCurrent
  <2> SUFFICES ASSUME NEW d \in Installed, NEW n \in nodes[d]
               PROVE  n.desc = Expected(n.fd) \/ \E t \in Threads : Closing(t) /\ loc[t].fd = n.fd
    BY DEF NodeDescCurrent, Expected
  <2>1. d \in Descs /\ n.fd \in Fds /\ n.desc \in Descs \cup {NULL}
    BY <1>1 DEF Installed, TypeOK, Node
  <2>2. RightNode(n.fd, n.desc)
    BY <1>1, <2>1 DEF CurrentInv, NodesRight, HasNode
  <2> QED
    BY <2>2 DEF RightNode, LeavingFd, Closing
<1>2. TableInv => TypeOK
  BY DEF TableInv
<1>3. TableInv /\ TableInv' /\ CurrentInv /\ [Next]_vars => CurrentInv'
  BY NextCurrent
<1> QED
  BY <1>1, <1>2, <1>3, InitCurrent, TableInvariant, PTL DEF Spec
=============================================================================
