------------------------------ MODULE ZPoller ------------------------------
(***************************************************************************)
(* A zpoller as a value: the list of readers, the poll set copied from it  *)
(* when zpoller_wait needs it, and the reason why the last wait returned   *)
(* nothing (the build without zmq_poller, as against stable libzmq).       *)
(***************************************************************************)
EXTENDS Integers, Sequences, SequencesExt

NoReader == "none"

zpoller_add(self, reader) ==
    [self EXCEPT !.reader_list = Append(@, reader), !.need_rebuild = TRUE]

\* Readers up to the first NULL of the argument list.
zpoller_new(readers) ==
    [reader_list |-> readers, need_rebuild |-> readers # <<>>, poll_readers |-> <<>>,
     expired |-> FALSE, terminated |-> FALSE, nonstop |-> FALSE]

s_rebuild_poll_set(self) ==
    [self EXCEPT !.poll_readers = self.reader_list, !.need_rebuild = FALSE]

\* The first reader in poll order that has input, 0 if none.
first_ready(readers, ready) == SelectInSeq(readers, LAMBDA r : r \in ready)

\* zpoller_wait when zsys_interrupted is `interrupted` and zmq_poll finds `ready`,
\* expires (ready = {}) or fails: with EINTR, or interrupted while it waited.  The reader
\* and the poller after it.
zpoller_wait(self, ready, fails, interrupted) ==
    LET stop == interrupted /\ ~self.nonstop
        set == IF self.need_rebuild THEN s_rebuild_poll_set(self) ELSE self
        index == IF fails THEN 0 ELSE first_ready(set.poll_readers, ready)
    IN  IF stop
          THEN [which |-> NoReader,
                poller |-> [self EXCEPT !.expired = FALSE, !.terminated = TRUE]]
          ELSE [which |-> IF index = 0 THEN NoReader ELSE set.poll_readers[index],
                poller |-> [set EXCEPT !.expired = index = 0 /\ ~fails,
                                       !.terminated = fails]]
=============================================================================
