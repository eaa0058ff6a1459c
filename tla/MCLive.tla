------------------------------- MODULE MCLive -------------------------------
(***************************************************************************)
(* What must end: mutations, saves and shutdowns of the journal, and the   *)
(* pushes that serve blocked clients.  part says which module runs, the    *)
(* other stays as it began.                                                *)
(***************************************************************************)
EXTENDS JournalProperties, TLC

CONSTANTS List, Client, Pusher, Op, None, MaxPushes, MaxWaits, MaxOthers, l1, l2

VARIABLES
  part,        \* the module that runs
  list, queue, chan, listPc, wait, todo, held, answered, lost, used, nextWaiter

\* BLPOP l1 l2 and BLMOVE l1 l2.
TwoKeyWaits == {[keys |-> <<l1, l2>>, dest |-> None], [keys |-> <<l1>>, dest |-> l2]}

Lists == INSTANCE BlockingList WITH Key <- List, Wait <- TwoKeyWaits, pc <- listPc

listVars == <<list, queue, chan, listPc, wait, todo, held, answered, lost, used, nextWaiter>>
liveVars == <<part, vars, listVars>>

LiveInit == part \in {"journal", "lists"} /\ Init /\ Lists!Init

InJournal(A) == part = "journal" /\ A /\ UNCHANGED <<part, listVars>>
InLists(A) == part = "lists" /\ A /\ UNCHANGED <<part, vars>>

LiveNext == InJournal(Next) \/ InLists(Lists!Next)

\* A thread that can take a step eventually does; nothing is assumed of clients.
LiveFairness ==
  /\ \A w \in Writer : WF_liveVars(InJournal(WriterStep(w)))
  /\ WF_liveVars(InJournal(SaverStep))
  /\ WF_liveVars(InJournal(CloserStep))
  /\ WF_liveVars(InJournal(Recover))
  /\ \A p \in Pusher : WF_liveVars(InLists(Lists!PusherStep(p)))

LiveSpec == LiveInit /\ [][LiveNext]_liveVars /\ LiveFairness

-----------------------------------------------------------------------------
(* Properties                                                              *)

\* Every mutation that started is answered or interrupted by a crash, every save
\* ends and a graceful shutdown reaches its final sync: the gates and the journal
\* lock block none of them for ever.
OperationsEnd == MutationsEnd /\ SavesEnd /\ ShutdownEnds

\* Every pusher gets its reply: draining ends, whatever the queues hold.
DrainsEnd == Lists!DrainsEnd
=============================================================================
