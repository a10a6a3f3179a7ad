------------------------------- MODULE Queues -------------------------------
\* The intrusive list of waiters (util/linked_list.rs), read as the sequence of
\* the owners of its nodes, front first.  Unlinking is the one operation that
\* the sequences do not have.  SequencesExt!RemoveFirst computes the same; it is
\* written out here because every INSTANCE of a module copies the modules that
\* module extends, and the proofs about the semaphores carry seven such copies.
EXTENDS Naturals, Sequences

\* LinkedList::remove: the node leaves the list and its neighbours are joined; a
\* node that is not linked is left alone.
Without(q, c) ==
    IF \E i \in 1 .. Len(q) : q[i] = c
    THEN LET i == CHOOSE j \in 1 .. Len(q) : q[j] = c
         IN  SubSeq(q, 1, i - 1) \o SubSeq(q, i + 1, Len(q))
    ELSE q
=============================================================================
