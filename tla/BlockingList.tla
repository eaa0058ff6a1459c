---------------------------- MODULE BlockingList ----------------------------
(***************************************************************************)
(* Blocking list pops: clients that wait for a list to fill, and the       *)
(* pushers that serve them.                                                *)
(*                                                                         *)
(*   src/cmd/lists.rs   cmd_blpop, cmd_blmove, cmd_rpoplpush               *)
(*   src/lib.rs         handle_block_pop, handle_block_move,               *)
(*                      ListWaiterRegistration                             *)
(*   src/pubsub.rs      register_list_waiter, drain_list_waiters,          *)
(*                      remove_list_waiters_by_id                          *)
(*   src/cmd/mod.rs     execute_with_wal, which drains after LPUSH, RPUSH  *)
(*                                                                         *)
(* A client first tries its lists; if all are empty it joins their queues  *)
(* with a channel for one element and waits for the channel, the timeout   *)
(* or the end of its connection.  A pusher takes waiters off the queue one *)
(* by one, reserves the channel, pops an element and sends it.             *)
(***************************************************************************)
EXTENDS Integers, FiniteSets, Sequences, SequencesExt

CONSTANTS
  Key,        \* lists
  Client,     \* clients that block
  Pusher,     \* threads that push, pop and move
  Wait,       \* waits in use: records of the keys asked for and the destination
  Op,         \* commands of the pushers: a subset of {"push", "pop", "move"}
  None,       \* no key
  MaxPushes,  \* bound: elements pushed
  MaxWaits,   \* bound: blocking commands
  MaxOthers   \* bound: plain pops, moves and journal failures of a drain

VARIABLES
  list,       \* list[k]: the elements
  queue,      \* queue[k]: the waiters of k (Broker.list_waiters)
  chan,       \* chan[c]: the channel of the wait of c
  pc,         \* pc[x]: where client or pusher x is
  wait,       \* wait[c]: the keys c asks for and the destination
  todo,       \* todo[c]: keys to register; todo[p]: keys to drain, innermost first
  held,       \* held[p]: the waiter a drain serves and the element popped for it
  answered,   \* elements that were the answer to a command (ghost)
  lost,       \* elements nobody got (ghost)
  used,       \* bounds used
  nextWaiter  \* Broker.next_waiter_id

\* The waits of an instance in which every client asks for one list (BLPOP).
OneKeyWaits == {[keys |-> <<k>>, dest |-> None] : k \in Key}

NoWait == [keys |-> <<>>, dest |-> None]
NoReq  == [c |-> None, id |-> 0, dest |-> None, el |-> 0]
Closed == [st |-> "closed", id |-> 0, el |-> 0, moved |-> FALSE]

ghosts == <<answered, lost>>
vars == <<list, queue, chan, pc, wait, todo, held, answered, lost, used, nextWaiter>>

Init ==
  /\ list = [k \in Key |-> <<>>] /\ queue = [k \in Key |-> <<>>]
  /\ chan = [c \in Client |-> Closed]
  /\ pc = [x \in Client \cup Pusher |-> "idle"]
  /\ wait = [c \in Client |-> NoWait]
  /\ todo = [x \in Client \cup Pusher |-> <<>>]
  /\ held = [p \in Pusher |-> NoReq]
  /\ answered = {} /\ lost = {}
  /\ used = [pushes |-> 0, waits |-> 0, others |-> 0]
  /\ nextWaiter = 1

Goto(x, label) == pc' = [pc EXCEPT ![x] = label]

\* Pop from k, and push to d when the command moves.
Taken(k, d) ==
  LET popped == [list EXCEPT ![k] = Tail(@)]
  IN  IF d = None THEN popped ELSE [popped EXCEPT ![d] = Append(@, Head(list[k]))]

\* A popped element leaves with the answer, a moved one stays in the database.
Answer(e, d) == answered' = IF d = None THEN answered \cup {e} ELSE answered
Lose(e, d)   == lost' = IF d = None THEN lost \cup {e} ELSE lost

-----------------------------------------------------------------------------
(* Clients                                                                 *)

\* cmd_blpop, cmd_blmove: the first list that is not empty is popped at once.
BlockServed(c, w, i) ==
  /\ pc[c] = "idle" /\ used.waits < MaxWaits
  /\ i \in DOMAIN w.keys /\ list[w.keys[i]] # <<>>
  /\ \A j \in 1..(i - 1) : list[w.keys[j]] = <<>>
  /\ list' = Taken(w.keys[i], w.dest)
  /\ Answer(Head(list[w.keys[i]]), w.dest)
  /\ used' = [used EXCEPT !.waits = @ + 1]
  /\ UNCHANGED <<queue, chan, pc, wait, todo, held, lost, nextWaiter>>

\* All are empty: the command ends and its handler takes over.
BlockEmpty(c, w) ==
  /\ pc[c] = "idle" /\ used.waits < MaxWaits
  /\ \A i \in DOMAIN w.keys : list[w.keys[i]] = <<>>
  /\ wait' = [wait EXCEPT ![c] = w]
  /\ todo' = [todo EXCEPT ![c] = w.keys]
  /\ chan' = [chan EXCEPT ![c] = [st |-> "empty", id |-> nextWaiter, el |-> 0, moved |-> FALSE]]
  /\ nextWaiter' = nextWaiter + 1
  /\ used' = [used EXCEPT !.waits = @ + 1]
  /\ Goto(c, "register")
  /\ UNCHANGED <<list, queue, held, ghosts>>

\* register_list_waiter, key by key.
Register(c) ==
  LET k == Head(todo[c])
  IN
  /\ pc[c] = "register"
  /\ queue' = [queue EXCEPT ![k] = Append(@, [c |-> c, id |-> chan[c].id,
                                              dest |-> wait[c].dest, el |-> 0])]
  /\ todo' = [todo EXCEPT ![c] = Tail(@)]
  /\ Goto(c, IF Len(todo[c]) = 1 THEN "wait" ELSE "register")
  /\ UNCHANGED <<list, chan, wait, held, ghosts, used, nextWaiter>>

\* select!: an element, ...
Receive(c) ==
  /\ pc[c] = "wait" /\ chan[c].st = "full"
  /\ answered' = IF chan[c].moved THEN answered ELSE answered \cup {chan[c].el}
  /\ chan' = [chan EXCEPT ![c].st = "empty", ![c].el = 0]
  /\ Goto(c, "ended")
  /\ UNCHANGED <<list, queue, wait, todo, held, lost, used, nextWaiter>>

\* ... or the timeout or the end of the connection, even if there is an element.
GiveUp(c) ==
  /\ pc[c] = "wait"
  /\ Goto(c, "ended")
  /\ UNCHANGED <<list, queue, chan, wait, todo, held, ghosts, used, nextWaiter>>

\* What is left of a queue without the waiters of one id, in order.
Retain(q, id) ==
  LET kept[n \in 0..Len(q)] ==
        IF n = 0 THEN <<>>
        ELSE IF q[n].id = id THEN kept[n - 1] ELSE Append(kept[n - 1], q[n])
  IN  kept[Len(q)]

\* ListWaiterRegistration is dropped first (remove_list_waiters_by_id), ...
Deregister(c) ==
  /\ pc[c] = "ended"
  /\ queue' = [k \in Key |-> Retain(queue[k], chan[c].id)]
  /\ Goto(c, "close")
  /\ UNCHANGED <<list, chan, wait, todo, held, ghosts, used, nextWaiter>>

\* ... then the receiver, with what it holds.
Close(c) ==
  /\ pc[c] = "close"
  /\ lost' = IF chan[c].st = "full" /\ ~chan[c].moved THEN lost \cup {chan[c].el} ELSE lost
  /\ chan' = [chan EXCEPT ![c] = Closed]
  /\ wait' = [wait EXCEPT ![c] = NoWait]
  /\ Goto(c, "idle")
  /\ UNCHANGED <<list, queue, todo, held, answered, used, nextWaiter>>

-----------------------------------------------------------------------------
(* Pushers                                                                 *)

\* has_list_waiters counts the waiters of all keys.
HasListWaiters == \E k \in Key : queue[k] # <<>>

\* LPUSH or RPUSH; the check for waiters follows once the write is complete.
Push(p, k) ==
  /\ "push" \in Op /\ pc[p] = "idle" /\ used.pushes < MaxPushes
  /\ list' = [list EXCEPT ![k] = Append(@, used.pushes + 1)]
  /\ used' = [used EXCEPT !.pushes = @ + 1]
  /\ todo' = [todo EXCEPT ![p] = <<k>>]
  /\ Goto(p, "pushed")
  /\ UNCHANGED <<queue, chan, wait, held, ghosts, nextWaiter>>

CheckWaiters(p) ==
  /\ pc[p] = "pushed"
  /\ Goto(p, IF HasListWaiters THEN "drain" ELSE "idle")
  /\ todo' = [todo EXCEPT ![p] = IF HasListWaiters THEN @ ELSE <<>>]
  /\ UNCHANGED <<list, queue, chan, wait, held, ghosts, used, nextWaiter>>

\* LPOP, LMPOP: an element goes to somebody else.
Pop(p, k) ==
  /\ "pop" \in Op /\ pc[p] = "idle" /\ used.others < MaxOthers /\ list[k] # <<>>
  /\ list' = Taken(k, None)
  /\ Answer(Head(list[k]), None)
  /\ used' = [used EXCEPT !.others = @ + 1]
  /\ UNCHANGED <<queue, chan, pc, wait, todo, held, lost, nextWaiter>>

\* LMOVE, RPOPLPUSH: execute_with_wal drains after LPUSH and RPUSH only.
Move(p, k, d) ==
  /\ "move" \in Op /\ pc[p] = "idle" /\ used.others < MaxOthers /\ list[k] # <<>>
  /\ list' = Taken(k, d)
  /\ used' = [used EXCEPT !.others = @ + 1]
  /\ UNCHANGED <<queue, chan, pc, wait, todo, held, ghosts, nextWaiter>>

\* The drain of the innermost key ends.
Drained(p) ==
  /\ todo' = [todo EXCEPT ![p] = Tail(@)]
  /\ held' = [held EXCEPT ![p] = NoReq]
  /\ Goto(p, IF Len(todo[p]) = 1 THEN "idle" ELSE "drain")

\* drain_list_waiters: take the first waiter, if there is one.
TakeWaiter(p) ==
  LET k == Head(todo[p])
  IN
  /\ pc[p] = "drain"
  /\ \/ queue[k] = <<>> /\ Drained(p) /\ UNCHANGED queue
     \/ /\ queue[k] # <<>>
        /\ held' = [held EXCEPT ![p] = Head(queue[k])]
        /\ queue' = [queue EXCEPT ![k] = Tail(@)]
        /\ Goto(p, "reserve")
        /\ UNCHANGED todo
  /\ UNCHANGED <<list, chan, wait, ghosts, used, nextWaiter>>

\* Is the channel of the held waiter still the one it registered with?
Open(p) == chan[held[p].c].st # "closed" /\ chan[held[p].c].id = held[p].id

\* Variant: the drain goes on with the waiter it has just put back.
PutBackAndRetry(p) ==
  /\ queue' = [queue EXCEPT ![Head(todo[p])] = <<held[p]>> \o @]
  /\ held' = [held EXCEPT ![p] = NoReq]
  /\ Goto(p, "drain")
  /\ UNCHANGED todo

\* A waiter that cannot be served goes back to the front, and the drain of its
\* key ends.
PutBack(p) ==
  /\ queue' = [queue EXCEPT ![Head(todo[p])] = <<held[p]>> \o @]
  /\ Drained(p)

\* Variant: a channel that holds an element is reserved again.
ReservesAny(p) == TRUE

HasRoom(p) == chan[held[p].c].st = "empty"

\* try_reserve_owned: a closed channel is skipped, a full one ends the drain.
Reserve(p) ==
  /\ pc[p] = "reserve"
  /\ \/ /\ ~Open(p)
        /\ held' = [held EXCEPT ![p] = NoReq]
        /\ Goto(p, "drain")
        /\ UNCHANGED <<queue, chan, todo>>
     \/ /\ Open(p) /\ ~HasRoom(p)
        /\ PutBack(p)
        /\ UNCHANGED chan
     \/ /\ Open(p) /\ HasRoom(p)
        /\ chan' = [chan EXCEPT ![held[p].c].st = "reserved"]
        /\ Goto(p, "pop")
        /\ UNCHANGED <<queue, todo, held>>
  /\ UNCHANGED <<list, wait, ghosts, used, nextWaiter>>

\* The permit goes back unused.
Unreserve(p) ==
  chan' = IF Open(p) THEN [chan EXCEPT ![held[p].c].st = "empty"] ELSE chan

\* Variant: the element is read and sent, but stays in the list.
PeekedOnly(k, d) == list

PoppedOff(k, d) == Taken(k, d)

\* commit_prepared: journal and pop, or move, in one step under the gates.
PopForWaiter(p) ==
  LET k == Head(todo[p])
  IN
  /\ pc[p] = "pop" /\ list[k] # <<>>
  /\ list' = PoppedOff(k, held[p].dest)
  /\ held' = [held EXCEPT ![p].el = Head(list[k])]
  /\ Goto(p, "send")
  /\ UNCHANGED <<queue, chan, wait, todo, ghosts, used, nextWaiter>>

\* The list is empty, or the journal fails.
PopNothing(p) ==
  /\ pc[p] = "pop"
  /\ \/ list[Head(todo[p])] = <<>> /\ UNCHANGED used
     \/ /\ list[Head(todo[p])] # <<>> /\ used.others < MaxOthers
        /\ used' = [used EXCEPT !.others = @ + 1]
  /\ Unreserve(p)
  /\ PutBack(p)
  /\ UNCHANGED <<list, wait, ghosts, nextWaiter>>

\* permit.send; nobody gets what is sent to a closed channel.  After a move the
\* waiters of the destination are served before the rest of this queue.
Send(p) ==
  LET r == held[p]
      nested == r.dest # None /\ r.dest # Head(todo[p]) /\ HasListWaiters
  IN
  /\ pc[p] = "send"
  /\ \/ /\ Open(p)
        /\ chan' = [chan EXCEPT ![r.c] = [@ EXCEPT !.st = "full", !.el = r.el,
                                                  !.moved = r.dest # None]]
        /\ UNCHANGED lost
     \/ ~Open(p) /\ Lose(r.el, r.dest) /\ UNCHANGED chan
  /\ held' = [held EXCEPT ![p] = NoReq]
  /\ todo' = [todo EXCEPT ![p] = IF nested THEN <<r.dest>> \o @ ELSE @]
  /\ Goto(p, "drain")
  /\ UNCHANGED <<list, queue, wait, answered, used, nextWaiter>>

-----------------------------------------------------------------------------

ClientStep(c) == Register(c) \/ Receive(c) \/ GiveUp(c) \/ Deregister(c) \/ Close(c)

PusherStep(p) ==
  \/ CheckWaiters(p) \/ TakeWaiter(p) \/ Reserve(p) \/ PopForWaiter(p) \/ PopNothing(p)
  \/ Send(p)

Next ==
  \/ \E c \in Client, w \in Wait :
       BlockEmpty(c, w) \/ \E i \in DOMAIN w.keys : BlockServed(c, w, i)
  \/ \E c \in Client : ClientStep(c)
  \/ \E p \in Pusher, k \in Key : Push(p, k) \/ Pop(p, k) \/ \E d \in Key : Move(p, k, d)
  \/ \E p \in Pusher : PusherStep(p)

Spec == Init /\ [][Next]_vars

\* Pushers are threads that get to run; nothing is assumed of the clients.
FairSpec == Spec /\ \A p \in Pusher : WF_vars(PusherStep(p))

-----------------------------------------------------------------------------
(* Properties                                                              *)

\* The variables have their types, and a channel is reserved exactly while one
\* pusher works for it (try_reserve_owned on a channel of capacity 1).
TypeOK ==
  /\ \A k \in Key : /\ list[k] \in Seq(1..used.pushes)
                    /\ queue[k] \in Seq([c : Client, id : Nat, dest : Key \cup {None}, el : {0}])
  /\ \A c \in Client : /\ chan[c].st \in {"closed", "empty", "reserved", "full"}
                       /\ chan[c].id \in 0..(nextWaiter - 1)
  /\ \A c \in Client :
       Cardinality({p \in Pusher : pc[p] \in {"pop", "send"} /\ held[p].c = c /\ Open(p)})
         = IF chan[c].st = "reserved" THEN 1 ELSE 0

\* In how many places an element is: lists, a drain that has popped it, a
\* channel, an answer, or nowhere to be found.
Places(e) ==
  LET inLists == Cardinality({x \in UNION {{k} \X DOMAIN list[k] : k \in Key} :
                                list[x[1]][x[2]] = e})
      inHand  == Cardinality({p \in Pusher : held[p].el = e /\ held[p].dest = None})
      inChan  == Cardinality({c \in Client : chan[c].st = "full" /\ chan[c].el = e
                                                /\ ~chan[c].moved})
  IN  inLists + inHand + inChan + (IF e \in answered THEN 1 ELSE 0) + (IF e \in lost THEN 1 ELSE 0)

\* No element is served to two clients, served and still in a list, overwritten in
\* a channel or dropped unnoticed, however many pushers drain the same queues
\* (the permit is reserved before the pop and the pop is journaled).
Conserved == \A e \in 1..used.pushes : Places(e) = 1

\* Every pusher gets its reply: draining ends, whatever the queues hold.
DrainsEnd == \A p \in Pusher : pc[p] # "idle" ~> pc[p] = "idle"

\* When no pusher is at work, no client waits for a list that has an element.
WaitersServed ==
  (\A p \in Pusher : pc[p] = "idle") =>
    \A c \in Client : pc[c] = "wait" /\ chan[c].st = "empty" =>
      \A i \in DOMAIN wait[c].keys : list[wait[c].keys[i]] = <<>>
=============================================================================
