--------------------------- MODULE ReceiveProcess ---------------------------
(***************************************************************************)
(* AsyncReceiveProcess (x_tunnel/local/async_proxy_session.py): puts the   *)
(* downloaded blocks, which arrive in any order and more than once, back   *)
(* in the order of their sn.  A block is named by its sn.  No method       *)
(* suspends while it holds the lock of the class, so each is one step;     *)
(* what the handler does with the blocks put() collects is up to the       *)
(* module that extends this one.                                           *)
(***************************************************************************)
EXTENDS Integers

VARIABLES next_sn,         \* the block the handler is waiting for
          block_list,      \* blocks beyond it
          timeout_list     \* blocks the server sent long ago that are missing

receiveVars == <<next_sn, block_list, timeout_list>>

InitReceive == /\ next_sn = 1
               /\ block_list = {}
               /\ timeout_list = {}

IsReceived(sn) == sn < next_sn \/ sn \in block_list

\* put(): too old or already there, early, or the next one.  In the last case
\* it and the blocks that follow it without a hole go to the handler.
Forget(sn) == timeout_list' = timeout_list \ {sn}

PutOld(sn) == /\ sn < next_sn
              /\ Forget(sn)
              /\ UNCHANGED <<next_sn, block_list>>

PutEarly(sn) == /\ sn > next_sn
                /\ Forget(sn)
                /\ block_list' = block_list \cup {sn}
                /\ UNCHANGED next_sn

\* (Mutant: blocks handed over are kept.)
PutNextKeeps(sn) == /\ sn = next_sn
                    /\ Forget(sn)
                    /\ \E last \in {sn} \cup block_list :
                          /\ (sn + 1) .. last \subseteq block_list
                          /\ last + 1 \notin block_list
                          /\ next_sn' = last + 1
                    /\ UNCHANGED block_list

PutNext(sn) == /\ sn = next_sn
               /\ Forget(sn)
               /\ \E last \in {sn} \cup block_list :
                     /\ (sn + 1) .. last \subseteq block_list
                     /\ last + 1 \notin block_list
                     /\ next_sn' = last + 1
                     /\ block_list' = block_list \ (sn .. last)

Put(sn) == PutOld(sn) \/ PutEarly(sn) \/ PutNext(sn)

\* The blocks the last put() hands to the handler.
Collected == next_sn .. (next_sn' - 1)

\* process_server_unacked_sent_sn, mark_sn_timeout: the server says it sent
\* sn long ago.  get_timeout_list, which should ask for sn again, reads a
\* retry_time that only it sets, takes "now" for it while there is none, and
\* so returns nothing: it is not a step.
MarkTimeout(sn) == /\ ~IsReceived(sn)
                   /\ timeout_list' = timeout_list \cup {sn}
                   /\ UNCHANGED <<next_sn, block_list>>
=============================================================================
