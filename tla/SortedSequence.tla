--------------------------- MODULE SortedSequence ---------------------------
(* What the ordered containers of ew_base promise (bst_set, bst_map and their *)
(* multi versions): a sequence of elements sorted by key, in which a call of   *)
(* insert, erase or clear is one step. Elements are the nodes iterators point  *)
(* to, so an element keeps its identity as long as it is in the sequence.      *)
EXTENDS Naturals, Sequences

CONSTANTS Nodes, Key, NULL

VARIABLES multi,  \* are equal keys kept
          seq,    \* the elements, in the order an iterator meets them
          ret     \* what the last call returned, until its caller takes it

Init == multi \in BOOLEAN /\ seq = <<>> /\ ret = NULL

Having(k) == {i \in DOMAIN seq : Key[seq[i]] = k}

Upto(i) == SubSeq(seq, 1, i)
From(i) == SubSeq(seq, i, Len(seq))

(* Elements with equal keys stay in the order in which they were inserted.     *)
Inserted(n) ==
  \E i \in 0 .. Len(seq) : /\ \A j \in DOMAIN seq : Key[seq[j]] <= Key[n] <=> j <= i
                           /\ seq' = Upto(i) \o <<n>> \o From(i + 1)

Insert(n) ==
  /\ ret = NULL /\ \A i \in DOMAIN seq : seq[i] # n
  /\ IF multi \/ Having(Key[n]) = {}
     THEN Inserted(n) /\ ret' = <<n, TRUE>>
     ELSE /\ \E i \in Having(Key[n]) : ret' = <<seq[i], FALSE>>
          /\ UNCHANGED seq

(* From the i-th element up to the j-th.                                       *)
Removed(i, j) == seq' = Upto(i - 1) \o From(j)

(* By key: the number of the elements removed is returned.                     *)
Erase(k) ==
  /\ ret = NULL
  /\ \E i, j \in 1 .. (Len(seq) + 1) : i <= j /\ Having(k) = i .. (j - 1) /\ Removed(i, j)
  /\ ret' = <<Len(seq) - Len(seq')>>

(* By iterator: the element after those removed is returned.                   *)
EraseRange(i, j) ==
  /\ ret = NULL /\ Removed(i, j)
  /\ ret' = <<IF j > Len(seq) THEN NULL ELSE seq[j]>>

Clear == ret = NULL /\ seq' = <<>> /\ ret' = <<NULL>>

Take == ret # NULL /\ ret' = NULL /\ UNCHANGED seq

Next ==
  \/ \E n \in Nodes : Insert(n) \/ Erase(Key[n])
  \/ \E i \in DOMAIN seq : \E j \in (i + 1) .. (Len(seq) + 1) : EraseRange(i, j)
  \/ Clear
  \/ Take

Spec == Init /\ [][Next /\ UNCHANGED multi]_<<multi, seq, ret>>
=============================================================================
