----------------------------- MODULE LockLists40 -----------------------------
(* The locks one owner has on a file of the NFSv4.0 server, a list of byte    *)
(* ranges that LOCK and LOCKU split and join: LockInfo, addposixlock,         *)
(* removeposixlock and __removerange of src/nfs4.0/nfs4state.py.              *)
EXTENDS Integers, Sequences, FiniteSetsExt, SequencesExt, TLC

LockInfo(type, r) == [type |-> type, start |-> r[1], end |-> r[2]]
Overlaps(lock, r) ==
  \/ r[1] <= lock.start /\ lock.start <= r[2]
  \/ lock.start <= r[1] /\ r[1] <= lock.end

\* The lock that `at` lies inside of is split before `at`
SplitAt(list, at) ==
  LET inside == {i \in DOMAIN list : list[i].start < at /\ at <= list[i].end}
  IN IF inside = {} THEN list
     ELSE LET i == Min(inside)
          IN Append([list EXCEPT ![i].end = at - 1], [list[i] EXCEPT !.start = at])

RemoveRange(list, r) ==
  SelectSeq(SplitAt(SplitAt(list, r[1]), r[2] + 1), LAMBDA lock : ~Overlaps(lock, r))

Sorted(list) == SortSeq(list, LAMBDA a, b : a.start < b.start)

\* Mutant: locks that meet are joined whatever their types.
MergedWhatever(list) ==
  LET Join(lock, rest) ==
        IF rest # <<>> /\ rest[1].start = lock.end + 1
        THEN <<[lock EXCEPT !.end = rest[1].end]>> \o Tail(rest)
        ELSE <<lock>> \o rest
  IN FoldRight(Join, list, <<>>)


\* From the end, a lock that continues the one before it is joined to it
Merged(list) ==
  LET Join(lock, rest) ==
        IF rest # <<>> /\ rest[1].start = lock.end + 1 /\ rest[1].type = lock.type
        THEN <<[lock EXCEPT !.end = rest[1].end]>> \o Tail(rest)
        ELSE <<lock>> \o rest
  IN FoldRight(Join, list, <<>>)

AddPosixLock(list, type, r) == Merged(Sorted(Append(RemoveRange(list, r), LockInfo(type, r))))
RemovePosixLock(list, r) == Sorted(RemoveRange(list, r))
=============================================================================
