-------------------------- MODULE PlacementProofs --------------------------
(***************************************************************************)
(* Where a value lives under memory pressure: what Placement (tiered       *)
(* mode) and Eviction (memory mode) promise, proved for every set of keys, *)
(* protected keys and threads, every policy, limit and bound.              *)
(*                                                                         *)
(* In tiered mode a value is safe because whoever moves it holds the       *)
(* journal gate of its key (KeyGateInv, PlaceInv), and a promoted value    *)
(* stays because nobody spills while a command is past the memory boundary *)
(* (BoundaryInv): the rebalancer found the count at zero, and whoever      *)
(* counts in afterwards reads the flag again before it goes on.            *)
(*                                                                         *)
(* In memory mode a key that nobody works on is in memory as the journal   *)
(* rebuilds it.  A command changes the journal first and memory later, so  *)
(* in between the two differ on the key whose gate it holds, and by        *)
(* exactly its frame (MatchOK).  A generic command may take its frame      *)
(* back: it can, because it keeps the journal locked, so that its frame is *)
(* the last (LastOK).  Proved for the kinds of commands that can be        *)
(* journaled (SafeKinds).                                                  *)
(***************************************************************************)
EXTENDS BlockingProofs, TransactionProofs

-----------------------------------------------------------------------------
(* Tiered placement: the inductive invariant                               *)

\* Thread t is past tiered_memory_boundary.
Past(t) ==
  \/ tierPc[t] \in {"promote", "load", "operate", "leave", "claim", "flagged",
                    "unflagged"}
  \/ tierPc[t] = "guard" /\ Tiers!Is(t, "http")

\* The boundary: whoever is past it is counted, the flag is its owner's, and
\* nobody is past it while keys are spilled.
BoundaryInv ==
  \A t \in Thread :
    /\ tierPc[t] \in {"wait", "evict", "remove"} => t \notin ops
    /\ tierPc[t] = "recheck" => t \in ops
    /\ Past(t) => t \in ops
    /\ rebal = t <=> tierPc[t] \in {"flagged", "wait", "evict", "remove"}
    /\ tierPc[t] \in {"evict", "remove"} => \A u \in Thread : ~Past(u)

\* Until it has run, a command has a key; so has a spill under way.
CommandKeyInv ==
  \A t \in Thread :
    tierPc[t] \in {"guard", "fast", "batch", "bid", "drain", "spin", "count", "recheck",
                   "promote", "load", "operate", "remove"} => cmd[t].key \in TierKey

\* A journal gate is held by whoever moves its key, and by nobody else.
KeyGateInv ==
  \A k \in TierKey, t \in Thread :
    gate[k] = t <=> tierPc[t] \in {"load", "remove"} /\ cmd[t].key = k

\* Half way through a promotion the value is in the thread's hands, half way
\* through a spill it is in both places; a promoted key is not on disk.
PlaceInv ==
  \A t \in Thread : LET k == cmd[t].key IN
    /\ tierPc[t] = "load" => hot[k] = 0 /\ cold[k] = 0 /\ cmd[t].val = latest[k]
    /\ tierPc[t] = "remove" => hot[k] = latest[k] /\ cold[k] = latest[k]
    /\ tierPc[t] = "operate" => cold[k] = 0

\* Memory over the limit is somebody's business: a rebalancer is at work, or a
\* thread has yet to look at the limit and claim the flag.
CeilingInv ==
  Tiers!OverLimit /\ ~spill =>
    rebal # Tiers!Nobody \/ \E t \in Thread : tierPc[t] \in {"operate", "leave", "claim"}

TierInv ==
  /\ Tiers!Typed /\ BoundaryInv /\ CommandKeyInv /\ KeyGateInv
  /\ Tiers!OnePlace /\ PlaceInv /\ CeilingInv

-----------------------------------------------------------------------------
(* Every step keeps it                                                     *)

\* Every step keeps the types.
LEMMA NextTiersTyped ==
  ASSUME Tiers!Typed, CommandKeyInv, [Tiers!Next]_(Tiers!vars)
  PROVE  Tiers!Typed'
<1>1. ASSUME NEW t \in Thread, NEW s \in Surface, NEW k \in TierKey, NEW w \in BOOLEAN,
             NEW n \in 1..MaxQueue, Tiers!Start(t, s, k, w, n)
      PROVE  Tiers!Typed'
  BY <1>1, SurfaceAssumption
  DEF Tiers!Start, Tiers!Goto, Tiers!placeVars, Tiers!execVars, Tiers!Typed,
    Tiers!Label, Tiers!Command
<1>2. ASSUME NEW t \in Thread, Tiers!Guard(t) PROVE Tiers!Typed'
  BY <1>2
  DEF Tiers!Guard, Tiers!Is, Tiers!Goto, Tiers!placeVars, Tiers!Typed, Tiers!Label,
    Tiers!Command
<1>3. ASSUME NEW t \in Thread, Tiers!FastRead(t) PROVE Tiers!Typed'
  BY <1>3
  DEF Tiers!FastRead, Tiers!PlacementGuarded, Tiers!Goto, Tiers!placeVars,
    Tiers!execVars, Tiers!Typed, Tiers!Label, Tiers!Command
<1>4. ASSUME NEW t \in Thread, Tiers!BatchRead(t) PROVE Tiers!Typed'
  BY <1>4
  DEF Tiers!BatchRead, Tiers!Goto, Tiers!placeVars, Tiers!execVars, Tiers!Typed,
    Tiers!Label, Tiers!Command
<1>5. ASSUME NEW t \in Thread, Tiers!Bid(t) PROVE Tiers!Typed'
  BY <1>5
  DEF Tiers!Bid, Tiers!Goto, Tiers!placeVars, Tiers!Typed, Tiers!Label, Tiers!Command
<1>6. ASSUME NEW t \in Thread, Tiers!Drained(t) PROVE Tiers!Typed'
  <2>1. tierPc' \in [Thread -> Tiers!Label]
    BY <1>6 DEF Tiers!Drained, Tiers!Goto, Tiers!Typed, Tiers!Label
  <2>2. cmd' \in [Thread -> Tiers!Command']
    BY <1>6 DEF Tiers!Drained, Tiers!Typed, Tiers!Command
  <2>3. /\ hot' \in [TierKey -> 0..(nextVal' - 1)]
        /\ cold' \in [TierKey -> 0..(nextVal' - 1)]
        /\ latest' \in [TierKey -> 0..(nextVal' - 1)]
        /\ nextVal' \in Nat \ {0}
    BY <1>6 DEF Tiers!Drained, Tiers!placeVars, Tiers!Typed
  <2>4. used' \in [ops : Nat, errors : Nat]
    BY <1>6 DEF Tiers!Drained, Tiers!Typed
  <2>5. /\ ops' \subseteq Thread /\ tierReaders' \subseteq Thread
        /\ rebal' \in Thread \cup {Tiers!Nobody}
        /\ tierWriter' \in Thread \cup {Tiers!Nobody}
        /\ gate' \in [TierKey -> Thread \cup {Tiers!Nobody}]
    BY <1>6 DEF Tiers!Drained, Tiers!execVars, Tiers!Typed
  <2>6. tierPoisoned' \in BOOLEAN /\ spill' \in BOOLEAN
    BY <1>6 DEF Tiers!Drained, Tiers!Typed
  <2> QED
    BY <2>1, <2>2, <2>3, <2>4, <2>5, <2>6 DEF Tiers!Typed
<1>7. ASSUME NEW t \in Thread, Tiers!Done(t) PROVE Tiers!Typed'
  <2>1. tierPc' \in [Thread -> Tiers!Label]
    <3>1. Tiers!Goto(t, "spin") \/ Tiers!Goto(t, "idle")
      BY <1>7 DEF Tiers!Done
    <3> QED
      BY <3>1 DEF Tiers!Goto, Tiers!Typed, Tiers!Label
  <2>2. cmd' \in [Thread -> Tiers!Command']
    <3>1. cmd[t] \in Tiers!Command
      BY DEF Tiers!Typed
    <3>2. Tiers!Command' = Tiers!Command
      BY <1>7 DEF Tiers!Done, Tiers!Command
    <3>3. CASE Tiers!Is(t, "exec") /\ cmd[t].todo > 1
      <4>1. PICK k \in TierKey, w \in BOOLEAN :
              cmd' = [cmd EXCEPT ![t] = [cmd[t] EXCEPT !.key = k, !.write = w,
                                                       !.todo = cmd[t].todo - 1]]
        BY <1>7, <3>3 DEF Tiers!Done
      <4>2. cmd[t].todo - 1 \in Nat
        BY <3>1, <3>3 DEF Tiers!Command
      <4>3. \A n \in Nat :
              [cmd[t] EXCEPT !.key = k, !.write = w, !.todo = n] \in Tiers!Command
        BY <3>1 DEF Tiers!Command
      <4> QED
        BY <3>2, <4>1, <4>2, <4>3 DEF Tiers!Typed
    <3>4. CASE cmd' = [cmd EXCEPT ![t] = Tiers!NoCmd]
      <4>1. Tiers!NoCmd \in Tiers!Command
        BY DEF Tiers!NoCmd, Tiers!Command, Tiers!Typed
      <4> QED
        BY <3>2, <3>4, <4>1 DEF Tiers!Typed
    <3> QED
      BY <1>7, <3>3, <3>4 DEF Tiers!Done
  <2>3. /\ hot' \in [TierKey -> 0..(nextVal' - 1)]
        /\ cold' \in [TierKey -> 0..(nextVal' - 1)]
        /\ latest' \in [TierKey -> 0..(nextVal' - 1)]
        /\ nextVal' \in Nat \ {0}
    BY <1>7 DEF Tiers!Done, Tiers!placeVars, Tiers!Typed
  <2>4. used' \in [ops : Nat, errors : Nat]
    BY <1>7 DEF Tiers!Done, Tiers!Typed
  <2>5. /\ ops' \subseteq Thread /\ tierReaders' \subseteq Thread
        /\ rebal' \in Thread \cup {Tiers!Nobody}
        /\ tierWriter' \in Thread \cup {Tiers!Nobody}
        /\ gate' \in [TierKey -> Thread \cup {Tiers!Nobody}]
    BY <1>7 DEF Tiers!Done, Tiers!execVars, Tiers!Typed
  <2>6. tierPoisoned' \in BOOLEAN /\ spill' \in BOOLEAN
    BY <1>7 DEF Tiers!Done, Tiers!Typed
  <2> QED
    BY <2>1, <2>2, <2>3, <2>4, <2>5, <2>6 DEF Tiers!Typed
<1>8. ASSUME NEW t \in Thread, Tiers!Spin(t) PROVE Tiers!Typed'
  BY <1>8
  DEF Tiers!Spin, Tiers!Goto, Tiers!placeVars, Tiers!execVars, Tiers!Typed, Tiers!Label,
    Tiers!Command
<1>9. ASSUME NEW t \in Thread, Tiers!CountIn(t) PROVE Tiers!Typed'
  BY <1>9
  DEF Tiers!CountIn, Tiers!Goto, Tiers!placeVars, Tiers!execVars, Tiers!Typed,
    Tiers!Label, Tiers!Command
<1>10. ASSUME NEW t \in Thread, Tiers!Recheck(t) PROVE Tiers!Typed'
  <2>1. tierPc' \in [Thread -> Tiers!Label]
    BY <1>10 DEF Tiers!Recheck, Tiers!Goto, Tiers!Typed, Tiers!Label
  <2>2. cmd' \in [Thread -> Tiers!Command']
    BY <1>10 DEF Tiers!Recheck, Tiers!Typed, Tiers!Command
  <2>3. /\ hot' \in [TierKey -> 0..(nextVal' - 1)]
        /\ cold' \in [TierKey -> 0..(nextVal' - 1)]
        /\ latest' \in [TierKey -> 0..(nextVal' - 1)]
        /\ nextVal' \in Nat \ {0}
    BY <1>10 DEF Tiers!Recheck, Tiers!placeVars, Tiers!Typed
  <2>4. used' \in [ops : Nat, errors : Nat]
    BY <1>10 DEF Tiers!Recheck, Tiers!Typed
  <2>5. /\ ops' \subseteq Thread /\ tierReaders' \subseteq Thread
        /\ rebal' \in Thread \cup {Tiers!Nobody}
        /\ tierWriter' \in Thread \cup {Tiers!Nobody}
        /\ gate' \in [TierKey -> Thread \cup {Tiers!Nobody}]
    BY <1>10 DEF Tiers!Recheck, Tiers!execVars, Tiers!Typed
  <2>6. tierPoisoned' \in BOOLEAN /\ spill' \in BOOLEAN
    BY <1>10 DEF Tiers!Recheck, Tiers!Typed
  <2> QED
    BY <2>1, <2>2, <2>3, <2>4, <2>5, <2>6 DEF Tiers!Typed
<1>11. ASSUME NEW t \in Thread, Tiers!CheckLimit(t) PROVE Tiers!Typed'
  BY <1>11
  DEF Tiers!CheckLimit, Tiers!Goto, Tiers!placeVars, Tiers!execVars, Tiers!Typed,
    Tiers!Label, Tiers!Command
<1>12. ASSUME NEW t \in Thread, Tiers!ClaimFlag(t) PROVE Tiers!Typed'
  BY <1>12
  DEF Tiers!ClaimFlag, Tiers!Goto, Tiers!placeVars, Tiers!execVars, Tiers!Typed,
    Tiers!Label, Tiers!Command
<1>13. ASSUME NEW t \in Thread, Tiers!CountOut(t) PROVE Tiers!Typed'
  <2>1. tierPc' \in [Thread -> Tiers!Label]
    BY <1>13
    DEF Tiers!CountOut, Tiers!AfterCountOut, Tiers!Goto, Tiers!Typed, Tiers!Label
  <2>2. cmd' \in [Thread -> Tiers!Command']
    BY <1>13 DEF Tiers!CountOut, Tiers!Typed, Tiers!Command
  <2>3. /\ hot' \in [TierKey -> 0..(nextVal' - 1)]
        /\ cold' \in [TierKey -> 0..(nextVal' - 1)]
        /\ latest' \in [TierKey -> 0..(nextVal' - 1)]
        /\ nextVal' \in Nat \ {0}
    BY <1>13 DEF Tiers!CountOut, Tiers!placeVars, Tiers!Typed
  <2>4. used' \in [ops : Nat, errors : Nat]
    BY <1>13 DEF Tiers!CountOut, Tiers!Typed
  <2>5. /\ ops' \subseteq Thread /\ tierReaders' \subseteq Thread
        /\ rebal' \in Thread \cup {Tiers!Nobody}
        /\ tierWriter' \in Thread \cup {Tiers!Nobody}
        /\ gate' \in [TierKey -> Thread \cup {Tiers!Nobody}]
    BY <1>13 DEF Tiers!CountOut, Tiers!CountedOut, Tiers!execVars, Tiers!Typed
  <2>6. tierPoisoned' \in BOOLEAN /\ spill' \in BOOLEAN
    BY <1>13 DEF Tiers!CountOut, Tiers!Typed
  <2> QED
    BY <2>1, <2>2, <2>3, <2>4, <2>5, <2>6 DEF Tiers!Typed
<1>14. ASSUME NEW t \in Thread, Tiers!WaitInside(t) PROVE Tiers!Typed'
  BY <1>14
  DEF Tiers!WaitInside, Tiers!NobodyInside, Tiers!Goto, Tiers!placeVars, Tiers!execVars,
    Tiers!Typed, Tiers!Label, Tiers!Command
<1>15. ASSUME NEW t \in Thread, Tiers!EvictStop(t) PROVE Tiers!Typed'
  BY <1>15
  DEF Tiers!EvictStop, Tiers!Goto, Tiers!placeVars, Tiers!execVars, Tiers!Typed,
    Tiers!Label, Tiers!Command
<1>16. ASSUME NEW t \in Thread, Tiers!EvictGivesUp(t) PROVE Tiers!Typed'
  <2>1. tierPc' \in [Thread -> Tiers!Label]
    BY <1>16 DEF Tiers!EvictGivesUp, Tiers!Goto, Tiers!Typed, Tiers!Label
  <2>2. cmd' \in [Thread -> Tiers!Command']
    BY <1>16 DEF Tiers!EvictGivesUp, Tiers!Typed, Tiers!Command
  <2>3. /\ hot' \in [TierKey -> 0..(nextVal' - 1)]
        /\ cold' \in [TierKey -> 0..(nextVal' - 1)]
        /\ latest' \in [TierKey -> 0..(nextVal' - 1)]
        /\ nextVal' \in Nat \ {0}
    BY <1>16 DEF Tiers!EvictGivesUp, Tiers!placeVars, Tiers!Typed
  <2>4. used' \in [ops : Nat, errors : Nat]
    <3>1. used' = used \/ used' = [used EXCEPT !.errors = used.errors + 1]
      BY <1>16 DEF Tiers!EvictGivesUp
    <3> QED
      BY <3>1 DEF Tiers!Typed
  <2>5. /\ ops' \subseteq Thread /\ tierReaders' \subseteq Thread
        /\ rebal' \in Thread \cup {Tiers!Nobody}
        /\ tierWriter' \in Thread \cup {Tiers!Nobody}
        /\ gate' \in [TierKey -> Thread \cup {Tiers!Nobody}]
    BY <1>16 DEF Tiers!EvictGivesUp, Tiers!execVars, Tiers!Typed
  <2>6. tierPoisoned' \in BOOLEAN /\ spill' \in BOOLEAN
    BY <1>16 DEF Tiers!EvictGivesUp, Tiers!Typed
  <2> QED
    BY <2>1, <2>2, <2>3, <2>4, <2>5, <2>6 DEF Tiers!Typed
<1>17. ASSUME NEW t \in Thread, NEW k \in TierKey, Tiers!EvictPut(t, k)
       PROVE  Tiers!Typed'
  <2>1. tierPc' \in [Thread -> Tiers!Label]
    BY <1>17 DEF Tiers!EvictPut, Tiers!Goto, Tiers!Typed, Tiers!Label
  <2>2. cmd' \in [Thread -> Tiers!Command']
    BY <1>17 DEF Tiers!EvictPut, Tiers!Typed, Tiers!Command
  <2>3. /\ hot' \in [TierKey -> 0..(nextVal' - 1)]
        /\ cold' \in [TierKey -> 0..(nextVal' - 1)]
        /\ latest' \in [TierKey -> 0..(nextVal' - 1)]
        /\ nextVal' \in Nat \ {0}
    BY <1>17 DEF Tiers!EvictPut, Tiers!Typed
  <2>4. used' \in [ops : Nat, errors : Nat]
    BY <1>17 DEF Tiers!EvictPut, Tiers!Typed
  <2>5. /\ ops' \subseteq Thread /\ tierReaders' \subseteq Thread
        /\ rebal' \in Thread \cup {Tiers!Nobody}
        /\ tierWriter' \in Thread \cup {Tiers!Nobody}
        /\ gate' \in [TierKey -> Thread \cup {Tiers!Nobody}]
    BY <1>17 DEF Tiers!EvictPut, Tiers!execVars, Tiers!Typed
  <2>6. tierPoisoned' \in BOOLEAN /\ spill' \in BOOLEAN
    BY <1>17 DEF Tiers!EvictPut, Tiers!Typed
  <2> QED
    BY <2>1, <2>2, <2>3, <2>4, <2>5, <2>6 DEF Tiers!Typed
<1>18. ASSUME NEW t \in Thread, Tiers!EvictRemove(t) PROVE Tiers!Typed'
  <2>0. cmd[t].key \in TierKey
    BY <1>18 DEF Tiers!EvictRemove, CommandKeyInv
  <2>1. tierPc' \in [Thread -> Tiers!Label]
    BY <1>18 DEF Tiers!EvictRemove, Tiers!Goto, Tiers!Typed, Tiers!Label
  <2>2. cmd' \in [Thread -> Tiers!Command']
    BY <1>18, <2>0 DEF Tiers!EvictRemove, Tiers!Typed, Tiers!Command
  <2>3. /\ hot' \in [TierKey -> 0..(nextVal' - 1)]
        /\ cold' \in [TierKey -> 0..(nextVal' - 1)]
        /\ latest' \in [TierKey -> 0..(nextVal' - 1)]
        /\ nextVal' \in Nat \ {0}
    BY <1>18, <2>0 DEF Tiers!EvictRemove, Tiers!Typed
  <2>4. used' \in [ops : Nat, errors : Nat]
    BY <1>18 DEF Tiers!EvictRemove, Tiers!Typed
  <2>5. /\ ops' \subseteq Thread /\ tierReaders' \subseteq Thread
        /\ rebal' \in Thread \cup {Tiers!Nobody}
        /\ tierWriter' \in Thread \cup {Tiers!Nobody}
        /\ gate' \in [TierKey -> Thread \cup {Tiers!Nobody}]
    BY <1>18 DEF Tiers!EvictRemove, Tiers!execVars, Tiers!Typed
  <2>6. tierPoisoned' \in BOOLEAN /\ spill' \in BOOLEAN
    BY <1>18 DEF Tiers!EvictRemove, Tiers!Typed
  <2> QED
    BY <2>1, <2>2, <2>3, <2>4, <2>5, <2>6 DEF Tiers!Typed
<1>19. ASSUME NEW t \in Thread, Tiers!Promote(t) PROVE Tiers!Typed'
  <2>0. cmd[t].key \in TierKey
    BY <1>19 DEF Tiers!Promote, CommandKeyInv
  <2>1. tierPc' \in [Thread -> Tiers!Label]
    BY <1>19 DEF Tiers!Promote, Tiers!Goto, Tiers!Typed, Tiers!Label
  <2>2. cmd' \in [Thread -> Tiers!Command']
    <3>1. cmd[t] \in Tiers!Command /\ cold[cmd[t].key] \in 0..(nextVal - 1)
      BY <2>0 DEF Tiers!Typed
    <3>2. [cmd[t] EXCEPT !.val = cold[cmd[t].key]] \in Tiers!Command
      BY <3>1 DEF Tiers!Command
    <3>3. Tiers!Command' = Tiers!Command
      BY <1>19 DEF Tiers!Promote, Tiers!Command
    <3>4. cmd' = cmd \/ cmd' = [cmd EXCEPT ![t] = [cmd[t] EXCEPT !.val = cold[cmd[t].key]]]
      BY <1>19 DEF Tiers!Promote
    <3> QED
      BY <3>2, <3>3, <3>4 DEF Tiers!Typed
  <2>3. /\ hot' \in [TierKey -> 0..(nextVal' - 1)]
        /\ cold' \in [TierKey -> 0..(nextVal' - 1)]
        /\ latest' \in [TierKey -> 0..(nextVal' - 1)]
        /\ nextVal' \in Nat \ {0}
    BY <1>19, <2>0 DEF Tiers!Promote, Tiers!ColdRemoved, Tiers!Typed
  <2>4. used' \in [ops : Nat, errors : Nat]
    BY <1>19 DEF Tiers!Promote, Tiers!Typed
  <2>5. /\ ops' \subseteq Thread /\ tierReaders' \subseteq Thread
        /\ rebal' \in Thread \cup {Tiers!Nobody}
        /\ tierWriter' \in Thread \cup {Tiers!Nobody}
        /\ gate' \in [TierKey -> Thread \cup {Tiers!Nobody}]
    BY <1>19 DEF Tiers!Promote, Tiers!execVars, Tiers!Typed
  <2>6. tierPoisoned' \in BOOLEAN /\ spill' \in BOOLEAN
    BY <1>19 DEF Tiers!Promote, Tiers!Typed
  <2> QED
    BY <2>1, <2>2, <2>3, <2>4, <2>5, <2>6 DEF Tiers!Typed
<1>20. ASSUME NEW t \in Thread, Tiers!PromoteFails(t) PROVE Tiers!Typed'
  BY <1>20
  DEF Tiers!PromoteFails, Tiers!PlacementGuarded, Tiers!DropHttpGuard, Tiers!Goto,
    Tiers!placeVars, Tiers!Typed, Tiers!Label, Tiers!Command
<1>21. ASSUME NEW t \in Thread, Tiers!Load(t) PROVE Tiers!Typed'
  <2>0. cmd[t].key \in TierKey
    BY <1>21 DEF Tiers!Load, CommandKeyInv
  <2>1. tierPc' \in [Thread -> Tiers!Label]
    BY <1>21 DEF Tiers!Load, Tiers!Goto, Tiers!Typed, Tiers!Label
  <2>2. cmd' \in [Thread -> Tiers!Command']
    BY <1>21, <2>0 DEF Tiers!Load, Tiers!Typed, Tiers!Command
  <2>3. /\ hot' \in [TierKey -> 0..(nextVal' - 1)]
        /\ cold' \in [TierKey -> 0..(nextVal' - 1)]
        /\ latest' \in [TierKey -> 0..(nextVal' - 1)]
        /\ nextVal' \in Nat \ {0}
    <3>1. cmd[t].val \in 0..(nextVal - 1)
      BY DEF Tiers!Typed, Tiers!Command
    <3> QED
      BY <1>21, <2>0, <3>1 DEF Tiers!Load, Tiers!Typed
  <2>4. used' \in [ops : Nat, errors : Nat]
    BY <1>21 DEF Tiers!Load, Tiers!Typed
  <2>5. /\ ops' \subseteq Thread /\ tierReaders' \subseteq Thread
        /\ rebal' \in Thread \cup {Tiers!Nobody}
        /\ tierWriter' \in Thread \cup {Tiers!Nobody}
        /\ gate' \in [TierKey -> Thread \cup {Tiers!Nobody}]
    BY <1>21 DEF Tiers!Load, Tiers!execVars, Tiers!Typed
  <2>6. tierPoisoned' \in BOOLEAN /\ spill' \in BOOLEAN
    BY <1>21 DEF Tiers!Load, Tiers!Typed
  <2> QED
    BY <2>1, <2>2, <2>3, <2>4, <2>5, <2>6 DEF Tiers!Typed
<1>22. ASSUME NEW t \in Thread, Tiers!Operate(t) PROVE Tiers!Typed'
  <2>0. cmd[t].key \in TierKey
    BY <1>22 DEF Tiers!Operate, CommandKeyInv
  <2>1. tierPc' \in [Thread -> Tiers!Label]
    BY <1>22 DEF Tiers!Operate, Tiers!Goto, Tiers!Typed, Tiers!Label
  <2>2. cmd' \in [Thread -> Tiers!Command']
    <3>1. cmd[t] \in Tiers!Command
      BY DEF Tiers!Typed
    <3>2. [cmd[t] EXCEPT !.key = Tiers!Nobody, !.write = FALSE] \in Tiers!Command
      BY <3>1 DEF Tiers!Command
    <3>3. \A x \in Tiers!Command : x \in Tiers!Command'
      BY <1>22 DEF Tiers!Operate, Tiers!Command, Tiers!Typed
    <3>4. cmd' = [cmd EXCEPT ![t] = [cmd[t] EXCEPT !.key = Tiers!Nobody, !.write = FALSE]]
      BY <1>22 DEF Tiers!Operate
    <3> QED
      BY <3>2, <3>3, <3>4 DEF Tiers!Typed
  <2>3. /\ hot' \in [TierKey -> 0..(nextVal' - 1)]
        /\ cold' \in [TierKey -> 0..(nextVal' - 1)]
        /\ latest' \in [TierKey -> 0..(nextVal' - 1)]
        /\ nextVal' \in Nat \ {0}
    BY <1>22, <2>0 DEF Tiers!Operate, Tiers!Typed
  <2>4. used' \in [ops : Nat, errors : Nat]
    BY <1>22 DEF Tiers!Operate, Tiers!Typed
  <2>5. /\ ops' \subseteq Thread /\ tierReaders' \subseteq Thread
        /\ rebal' \in Thread \cup {Tiers!Nobody}
        /\ tierWriter' \in Thread \cup {Tiers!Nobody}
        /\ gate' \in [TierKey -> Thread \cup {Tiers!Nobody}]
    BY <1>22 DEF Tiers!Operate, Tiers!DropHttpGuard, Tiers!Typed
  <2>6. tierPoisoned' \in BOOLEAN /\ spill' \in BOOLEAN
    BY <1>22 DEF Tiers!Operate, Tiers!Typed
  <2> QED
    BY <2>1, <2>2, <2>3, <2>4, <2>5, <2>6 DEF Tiers!Typed
<1>23. ASSUME Tiers!Restart PROVE Tiers!Typed'
  <2>1. tierPc' \in [Thread -> Tiers!Label]
    BY <1>23 DEF Tiers!Restart, Tiers!Typed, Tiers!Label
  <2>2. cmd' \in [Thread -> Tiers!Command']
    BY <1>23 DEF Tiers!Restart, Tiers!NoCmd, Tiers!Typed, Tiers!Command
  <2>3. /\ hot' \in [TierKey -> 0..(nextVal' - 1)]
        /\ cold' \in [TierKey -> 0..(nextVal' - 1)]
        /\ latest' \in [TierKey -> 0..(nextVal' - 1)]
        /\ nextVal' \in Nat \ {0}
    BY <1>23 DEF Tiers!Restart, Tiers!Typed
  <2>4. used' \in [ops : Nat, errors : Nat]
    BY <1>23 DEF Tiers!Restart, Tiers!Typed
  <2>5. /\ ops' \subseteq Thread /\ tierReaders' \subseteq Thread
        /\ rebal' \in Thread \cup {Tiers!Nobody}
        /\ tierWriter' \in Thread \cup {Tiers!Nobody}
        /\ gate' \in [TierKey -> Thread \cup {Tiers!Nobody}]
    BY <1>23 DEF Tiers!Restart, Tiers!Typed
  <2>6. tierPoisoned' \in BOOLEAN /\ spill' \in BOOLEAN
    <3>1. PICK S \in SUBSET TierKey :
            spill' = (Tiers!Cardinality({k \in TierKey : latest[k] # 0} \ S) > MaxHot)
      BY <1>23 DEF Tiers!Restart
    <3> DEFINE H == {k \in TierKey : latest[k] # 0} \ S
    <3>2. Tiers!Cardinality(H) = Cardinality(H)
      BY DEF Cardinality, Tiers!Cardinality
    <3>3. IsFiniteSet(H)
      BY LimitAssumption, FS_Subset
    <3>4. Cardinality(H) \in Nat
      BY <3>3, FS_CardinalityType
    <3>5. spill' = (Cardinality(H) > MaxHot)
      BY <3>1, <3>2
    <3> HIDE DEF H
    <3>6. spill' \in BOOLEAN
      BY <3>4, <3>5, LimitAssumption
    <3> QED
      BY <1>23, <3>6 DEF Tiers!Restart
  <2> QED
    BY <2>1, <2>2, <2>3, <2>4, <2>5, <2>6 DEF Tiers!Typed
<1>24. ASSUME Tiers!Finished PROVE Tiers!Typed'
  BY <1>24 DEF Tiers!Finished, Tiers!vars, Tiers!Typed, Tiers!Label, Tiers!Command
<1>25. CASE UNCHANGED Tiers!vars
  BY <1>25 DEF Tiers!vars, Tiers!Typed, Tiers!Command
<1> QED
  BY <1>1, <1>2, <1>3, <1>4, <1>5, <1>6, <1>7, <1>8, <1>9, <1>10, <1>11, <1>12, <1>13,
    <1>14, <1>15, <1>16, <1>17, <1>18, <1>19, <1>20, <1>21, <1>22, <1>23, <1>24, <1>25
  DEF Tiers!Next, Tiers!ThreadStep

\* The memory boundary (tiered_memory_boundary and its Drop).  WaitInside finds the
\* count at zero, and Recheck lets nobody past while the flag is set.
LEMMA NextBoundary ==
  ASSUME Tiers!Typed, BoundaryInv, [Tiers!Next]_(Tiers!vars)
  PROVE  BoundaryInv'
<1>1. ASSUME NEW t \in Thread, NEW s \in Surface, NEW k \in TierKey, NEW w \in BOOLEAN,
             NEW n \in 1..MaxQueue, Tiers!Start(t, s, k, w, n)
      PROVE  BoundaryInv'
  <2>1. /\ tierPc'[t] \in {"guard", "spin", "bid"} /\ (tierPc'[t] = "guard" => s = "resp")
        /\ cmd'[t].surface = s /\ cmd'[t].key = k
    BY <1>1, SurfaceAssumption DEF Tiers!Start, Tiers!Goto, Tiers!Typed
  <2>2. \A u \in Thread \ {t} : cmd'[u] = cmd[u] /\ tierPc'[u] = tierPc[u]
    BY <1>1 DEF Tiers!Start, Tiers!Goto, Tiers!Typed
  <2> QED
    BY <1>1, <2>1, <2>2 DEF Tiers!Start, Tiers!Is, BoundaryInv, Past
<1>2. ASSUME NEW t \in Thread, Tiers!Guard(t) PROVE BoundaryInv'
  BY <1>2, ThreadAssumption
  DEF Tiers!Guard, Tiers!Is, Tiers!Goto, Tiers!placeVars, BoundaryInv, Past,
    Tiers!Typed, Tiers!Label
<1>3. ASSUME NEW t \in Thread, Tiers!FastRead(t) PROVE BoundaryInv'
  BY <1>3, ThreadAssumption
  DEF Tiers!FastRead, Tiers!PlacementGuarded, Tiers!Goto, Tiers!placeVars,
    Tiers!execVars, Tiers!Is, BoundaryInv, Past, Tiers!Typed, Tiers!Label
<1>4. ASSUME NEW t \in Thread, Tiers!BatchRead(t) PROVE BoundaryInv'
  BY <1>4, ThreadAssumption
  DEF Tiers!BatchRead, Tiers!Goto, Tiers!placeVars, Tiers!execVars, Tiers!Is,
    BoundaryInv, Past, Tiers!Typed, Tiers!Label
<1>5. ASSUME NEW t \in Thread, Tiers!Bid(t) PROVE BoundaryInv'
  BY <1>5, ThreadAssumption
  DEF Tiers!Bid, Tiers!Goto, Tiers!placeVars, Tiers!Is, BoundaryInv, Past, Tiers!Typed,
    Tiers!Label
<1>6. ASSUME NEW t \in Thread, Tiers!Drained(t) PROVE BoundaryInv'
  BY <1>6, ThreadAssumption
  DEF Tiers!Drained, Tiers!Goto, Tiers!placeVars, Tiers!execVars, Tiers!Is, BoundaryInv,
    Past, Tiers!Typed, Tiers!Label
<1>7. ASSUME NEW t \in Thread, Tiers!Done(t) PROVE BoundaryInv'
  <2>1. tierPc'[t] = "idle" \/ (tierPc'[t] = "spin" /\ cmd'[t].key \in TierKey)
    <3>1. CASE Tiers!Is(t, "exec") /\ cmd[t].todo > 1
      <4>1. PICK k \in TierKey, w \in BOOLEAN :
              cmd' = [cmd EXCEPT ![t] = [cmd[t] EXCEPT !.key = k, !.write = w,
                                                       !.todo = cmd[t].todo - 1]]
        BY <1>7, <3>1 DEF Tiers!Done
      <4>2. cmd'[t].key = k
        BY <4>1 DEF Tiers!Typed, Tiers!Command
      <4> QED
        BY <1>7, <3>1, <4>2 DEF Tiers!Done, Tiers!Goto, Tiers!Typed
    <3> QED
      BY <1>7, <3>1 DEF Tiers!Done, Tiers!Goto, Tiers!Typed
  <2>2. \A u \in Thread \ {t} : cmd'[u] = cmd[u] /\ tierPc'[u] = tierPc[u]
    BY <1>7 DEF Tiers!Done, Tiers!Goto, Tiers!Typed
  <2> QED
    BY <1>7, <2>1, <2>2, ThreadAssumption DEF Tiers!Done, Tiers!Is, BoundaryInv, Past
<1>8. ASSUME NEW t \in Thread, Tiers!Spin(t) PROVE BoundaryInv'
  BY <1>8, ThreadAssumption
  DEF Tiers!Spin, Tiers!Goto, Tiers!placeVars, Tiers!execVars, Tiers!Is, BoundaryInv,
    Past, Tiers!Typed, Tiers!Label
<1>9. ASSUME NEW t \in Thread, Tiers!CountIn(t) PROVE BoundaryInv'
  BY <1>9, ThreadAssumption
  DEF Tiers!CountIn, Tiers!Goto, Tiers!placeVars, Tiers!execVars, Tiers!Is, BoundaryInv,
    Past, Tiers!Typed, Tiers!Label
<1>10. ASSUME NEW t \in Thread, Tiers!Recheck(t) PROVE BoundaryInv'
  <2>1. \A u \in Thread \ {t} : cmd'[u] = cmd[u] /\ tierPc'[u] = tierPc[u]
    BY <1>10 DEF Tiers!Recheck, Tiers!Goto, Tiers!Typed
  <2>2. CASE Tiers!StillFree
    <3>1. tierPc'[t] = IF Tiers!Is(t, "http") THEN "guard" ELSE "promote"
      BY <1>10, <2>2 DEF Tiers!Recheck, Tiers!Goto, Tiers!Typed
    <3> QED
      BY <1>10, <2>1, <2>2, <3>1, ThreadAssumption
      DEF Tiers!Recheck, Tiers!StillFree, Tiers!Is, BoundaryInv, Past
  <2>3. CASE ~Tiers!StillFree
    <3>1. tierPc'[t] = "spin" /\ ops' = ops \ {t}
      BY <1>10, <2>3 DEF Tiers!Recheck, Tiers!Goto, Tiers!Typed
    <3> QED
      BY <1>10, <2>1, <3>1 DEF Tiers!Recheck, Tiers!Is, BoundaryInv, Past
  <2> QED
    BY <2>2, <2>3
<1>11. ASSUME NEW t \in Thread, Tiers!CheckLimit(t) PROVE BoundaryInv'
  BY <1>11, ThreadAssumption
  DEF Tiers!CheckLimit, Tiers!Goto, Tiers!placeVars, Tiers!execVars, Tiers!Is,
    BoundaryInv, Past, Tiers!Typed, Tiers!Label
<1>12. ASSUME NEW t \in Thread, Tiers!ClaimFlag(t) PROVE BoundaryInv'
  BY <1>12, ThreadAssumption
  DEF Tiers!ClaimFlag, Tiers!Goto, Tiers!placeVars, Tiers!execVars, Tiers!Is,
    BoundaryInv, Past, Tiers!Typed, Tiers!Label
<1>13. ASSUME NEW t \in Thread, Tiers!CountOut(t) PROVE BoundaryInv'
  BY <1>13, ThreadAssumption
  DEF Tiers!CountOut, Tiers!AfterCountOut, Tiers!CountedOut, Tiers!Goto,
    Tiers!placeVars, Tiers!execVars, Tiers!Is, BoundaryInv, Past, Tiers!Typed,
    Tiers!Label
<1>14. ASSUME NEW t \in Thread, Tiers!WaitInside(t) PROVE BoundaryInv'
  BY <1>14, ThreadAssumption
  DEF Tiers!WaitInside, Tiers!NobodyInside, Tiers!Goto, Tiers!placeVars, Tiers!execVars,
    Tiers!Is, BoundaryInv, Past, Tiers!Typed, Tiers!Label
<1>15. ASSUME NEW t \in Thread, Tiers!EvictStop(t) PROVE BoundaryInv'
  BY <1>15, ThreadAssumption
  DEF Tiers!EvictStop, Tiers!Goto, Tiers!placeVars, Tiers!execVars, Tiers!Is,
    BoundaryInv, Past, Tiers!Typed, Tiers!Label
<1>16. ASSUME NEW t \in Thread, Tiers!EvictGivesUp(t) PROVE BoundaryInv'
  BY <1>16, ThreadAssumption
  DEF Tiers!EvictGivesUp, Tiers!PlacementGuarded, Tiers!Goto, Tiers!placeVars,
    Tiers!execVars, Tiers!Is, BoundaryInv, Past, Tiers!Typed, Tiers!Label
<1>17. ASSUME NEW t \in Thread, NEW k \in TierKey, Tiers!EvictPut(t, k)
       PROVE  BoundaryInv'
  BY <1>17, ThreadAssumption
  DEF Tiers!EvictPut, Tiers!PlacementGuarded, Tiers!Goto, Tiers!execVars, Tiers!Is,
    BoundaryInv, Past, Tiers!Typed, Tiers!Label
<1>18. ASSUME NEW t \in Thread, Tiers!EvictRemove(t) PROVE BoundaryInv'
  BY <1>18, ThreadAssumption
  DEF Tiers!EvictRemove, Tiers!Goto, Tiers!execVars, Tiers!Is, BoundaryInv, Past,
    Tiers!Typed, Tiers!Label
<1>19. ASSUME NEW t \in Thread, Tiers!Promote(t) PROVE BoundaryInv'
  BY <1>19, ThreadAssumption
  DEF Tiers!Promote, Tiers!PlacementGuarded, Tiers!ColdRemoved, Tiers!Goto,
    Tiers!execVars, Tiers!Is, BoundaryInv, Past, Tiers!Typed, Tiers!Label
<1>20. ASSUME NEW t \in Thread, Tiers!PromoteFails(t) PROVE BoundaryInv'
  BY <1>20, ThreadAssumption
  DEF Tiers!PromoteFails, Tiers!PlacementGuarded, Tiers!DropHttpGuard, Tiers!Goto,
    Tiers!placeVars, Tiers!Is, BoundaryInv, Past, Tiers!Typed, Tiers!Label
<1>21. ASSUME NEW t \in Thread, Tiers!Load(t) PROVE BoundaryInv'
  BY <1>21, ThreadAssumption
  DEF Tiers!Load, Tiers!Goto, Tiers!execVars, Tiers!Is, BoundaryInv, Past, Tiers!Typed,
    Tiers!Label
<1>22. ASSUME NEW t \in Thread, Tiers!Operate(t) PROVE BoundaryInv'
  BY <1>22, ThreadAssumption
  DEF Tiers!Operate, Tiers!DropHttpGuard, Tiers!Goto, Tiers!Is, BoundaryInv, Past,
    Tiers!Typed, Tiers!Label
<1>23. ASSUME Tiers!Restart PROVE BoundaryInv'
  BY <1>23, ThreadAssumption
  DEF Tiers!Restart, Tiers!NoCmd, Tiers!Is, BoundaryInv, Past, Tiers!Typed, Tiers!Label
<1>24. ASSUME Tiers!Finished PROVE BoundaryInv'
  BY <1>24, ThreadAssumption
  DEF Tiers!Finished, Tiers!vars, Tiers!Is, BoundaryInv, Past, Tiers!Typed, Tiers!Label
<1>25. CASE UNCHANGED Tiers!vars
  BY <1>25 DEF Tiers!vars, BoundaryInv, Past, Tiers!Is
<1> QED
  BY <1>1, <1>2, <1>3, <1>4, <1>5, <1>6, <1>7, <1>8, <1>9, <1>10, <1>11, <1>12, <1>13,
    <1>14, <1>15, <1>16, <1>17, <1>18, <1>19, <1>20, <1>21, <1>22, <1>23, <1>24, <1>25
  DEF Tiers!Next, Tiers!ThreadStep

\* The key of a command under way (Placement's cmd).
LEMMA NextCommandKey ==
  ASSUME Tiers!Typed, CommandKeyInv, [Tiers!Next]_(Tiers!vars)
  PROVE  CommandKeyInv'
<1>1. ASSUME NEW t \in Thread, NEW s \in Surface, NEW k \in TierKey, NEW w \in BOOLEAN,
             NEW n \in 1..MaxQueue, Tiers!Start(t, s, k, w, n)
      PROVE  CommandKeyInv'
  <2>1. /\ tierPc'[t] \in {"guard", "spin", "bid"} /\ (tierPc'[t] = "guard" => s = "resp")
        /\ cmd'[t].surface = s /\ cmd'[t].key = k
    BY <1>1, SurfaceAssumption DEF Tiers!Start, Tiers!Goto, Tiers!Typed
  <2>2. \A u \in Thread \ {t} : cmd'[u] = cmd[u] /\ tierPc'[u] = tierPc[u]
    BY <1>1 DEF Tiers!Start, Tiers!Goto, Tiers!Typed
  <2> QED
    BY <1>1, <2>1, <2>2 DEF CommandKeyInv
<1>2. ASSUME NEW t \in Thread, Tiers!Guard(t) PROVE CommandKeyInv'
  BY <1>2
  DEF Tiers!Guard, Tiers!Is, Tiers!Goto, Tiers!placeVars, CommandKeyInv, Tiers!Typed,
    Tiers!Label
<1>3. ASSUME NEW t \in Thread, Tiers!FastRead(t) PROVE CommandKeyInv'
  BY <1>3
  DEF Tiers!FastRead, Tiers!PlacementGuarded, Tiers!Goto, Tiers!placeVars,
    Tiers!execVars, CommandKeyInv, Tiers!Typed, Tiers!Label
<1>4. ASSUME NEW t \in Thread, Tiers!BatchRead(t) PROVE CommandKeyInv'
  BY <1>4
  DEF Tiers!BatchRead, Tiers!Goto, Tiers!placeVars, Tiers!execVars, CommandKeyInv,
    Tiers!Typed, Tiers!Label
<1>5. ASSUME NEW t \in Thread, Tiers!Bid(t) PROVE CommandKeyInv'
  BY <1>5
  DEF Tiers!Bid, Tiers!Goto, Tiers!placeVars, CommandKeyInv, Tiers!Typed, Tiers!Label
<1>6. ASSUME NEW t \in Thread, Tiers!Drained(t) PROVE CommandKeyInv'
  BY <1>6
  DEF Tiers!Drained, Tiers!Goto, Tiers!placeVars, Tiers!execVars, CommandKeyInv,
    Tiers!Typed, Tiers!Label
<1>7. ASSUME NEW t \in Thread, Tiers!Done(t) PROVE CommandKeyInv'
  <2>1. tierPc'[t] = "idle" \/ (tierPc'[t] = "spin" /\ cmd'[t].key \in TierKey)
    <3>1. CASE Tiers!Is(t, "exec") /\ cmd[t].todo > 1
      <4>1. PICK k \in TierKey, w \in BOOLEAN :
              cmd' = [cmd EXCEPT ![t] = [cmd[t] EXCEPT !.key = k, !.write = w,
                                                       !.todo = cmd[t].todo - 1]]
        BY <1>7, <3>1 DEF Tiers!Done
      <4>2. cmd'[t].key = k
        BY <4>1 DEF Tiers!Typed, Tiers!Command
      <4> QED
        BY <1>7, <3>1, <4>2 DEF Tiers!Done, Tiers!Goto, Tiers!Typed
    <3> QED
      BY <1>7, <3>1 DEF Tiers!Done, Tiers!Goto, Tiers!Typed
  <2>2. \A u \in Thread \ {t} : cmd'[u] = cmd[u] /\ tierPc'[u] = tierPc[u]
    BY <1>7 DEF Tiers!Done, Tiers!Goto, Tiers!Typed
  <2> QED
    BY <2>1, <2>2 DEF CommandKeyInv
<1>8. ASSUME NEW t \in Thread, Tiers!Spin(t) PROVE CommandKeyInv'
  BY <1>8
  DEF Tiers!Spin, Tiers!Goto, Tiers!placeVars, Tiers!execVars, CommandKeyInv,
    Tiers!Typed, Tiers!Label
<1>9. ASSUME NEW t \in Thread, Tiers!CountIn(t) PROVE CommandKeyInv'
  BY <1>9
  DEF Tiers!CountIn, Tiers!Goto, Tiers!placeVars, Tiers!execVars, CommandKeyInv,
    Tiers!Typed, Tiers!Label
<1>10. ASSUME NEW t \in Thread, Tiers!Recheck(t) PROVE CommandKeyInv'
  BY <1>10
  DEF Tiers!Recheck, Tiers!StillFree, Tiers!Is, Tiers!Goto, Tiers!placeVars,
    Tiers!execVars, CommandKeyInv, Tiers!Typed, Tiers!Label
<1>11. ASSUME NEW t \in Thread, Tiers!CheckLimit(t) PROVE CommandKeyInv'
  BY <1>11
  DEF Tiers!CheckLimit, Tiers!Goto, Tiers!placeVars, Tiers!execVars, CommandKeyInv,
    Tiers!Typed, Tiers!Label
<1>12. ASSUME NEW t \in Thread, Tiers!ClaimFlag(t) PROVE CommandKeyInv'
  BY <1>12
  DEF Tiers!ClaimFlag, Tiers!Goto, Tiers!placeVars, Tiers!execVars, CommandKeyInv,
    Tiers!Typed, Tiers!Label
<1>13. ASSUME NEW t \in Thread, Tiers!CountOut(t) PROVE CommandKeyInv'
  BY <1>13
  DEF Tiers!CountOut, Tiers!AfterCountOut, Tiers!CountedOut, Tiers!Goto,
    Tiers!placeVars, Tiers!execVars, CommandKeyInv, Tiers!Typed, Tiers!Label
<1>14. ASSUME NEW t \in Thread, Tiers!WaitInside(t) PROVE CommandKeyInv'
  BY <1>14
  DEF Tiers!WaitInside, Tiers!NobodyInside, Tiers!Goto, Tiers!placeVars, Tiers!execVars,
    CommandKeyInv, Tiers!Typed, Tiers!Label
<1>15. ASSUME NEW t \in Thread, Tiers!EvictStop(t) PROVE CommandKeyInv'
  BY <1>15
  DEF Tiers!EvictStop, Tiers!Goto, Tiers!placeVars, Tiers!execVars, CommandKeyInv,
    Tiers!Typed, Tiers!Label
<1>16. ASSUME NEW t \in Thread, Tiers!EvictGivesUp(t) PROVE CommandKeyInv'
  BY <1>16
  DEF Tiers!EvictGivesUp, Tiers!PlacementGuarded, Tiers!Goto, Tiers!placeVars,
    Tiers!execVars, CommandKeyInv, Tiers!Typed, Tiers!Label
<1>17. ASSUME NEW t \in Thread, NEW k \in TierKey, Tiers!EvictPut(t, k)
       PROVE  CommandKeyInv'
  BY <1>17
  DEF Tiers!EvictPut, Tiers!PlacementGuarded, Tiers!Goto, Tiers!execVars, CommandKeyInv,
    Tiers!Typed, Tiers!Label
<1>18. ASSUME NEW t \in Thread, Tiers!EvictRemove(t) PROVE CommandKeyInv'
  BY <1>18
  DEF Tiers!EvictRemove, Tiers!Goto, Tiers!execVars, CommandKeyInv, Tiers!Typed,
    Tiers!Label
<1>19. ASSUME NEW t \in Thread, Tiers!Promote(t) PROVE CommandKeyInv'
  <2>1. /\ cmd'[t].key = cmd[t].key
        /\ \/ tierPc'[t] = "operate" /\ gate' = gate
           \/ /\ tierPc'[t] = "load" /\ gate[cmd[t].key] = Tiers!Nobody
              /\ gate' = [gate EXCEPT ![cmd[t].key] = t]
    BY <1>19
    DEF Tiers!Promote, Tiers!PlacementGuarded, Tiers!Goto, Tiers!Typed, Tiers!Command
  <2>2. \A u \in Thread \ {t} : cmd'[u] = cmd[u] /\ tierPc'[u] = tierPc[u]
    BY <1>19 DEF Tiers!Promote, Tiers!Goto, Tiers!Typed
  <2> QED
    BY <1>19, <2>1, <2>2 DEF Tiers!Promote, CommandKeyInv
<1>20. ASSUME NEW t \in Thread, Tiers!PromoteFails(t) PROVE CommandKeyInv'
  BY <1>20
  DEF Tiers!PromoteFails, Tiers!PlacementGuarded, Tiers!DropHttpGuard, Tiers!Goto,
    Tiers!placeVars, CommandKeyInv, Tiers!Typed, Tiers!Label
<1>21. ASSUME NEW t \in Thread, Tiers!Load(t) PROVE CommandKeyInv'
  BY <1>21
  DEF Tiers!Load, Tiers!Goto, Tiers!execVars, CommandKeyInv, Tiers!Typed, Tiers!Label
<1>22. ASSUME NEW t \in Thread, Tiers!Operate(t) PROVE CommandKeyInv'
  BY <1>22
  DEF Tiers!Operate, Tiers!DropHttpGuard, Tiers!Goto, CommandKeyInv, Tiers!Typed,
    Tiers!Label
<1>23. ASSUME Tiers!Restart PROVE CommandKeyInv'
  BY <1>23 DEF Tiers!Restart, Tiers!NoCmd, CommandKeyInv, Tiers!Typed, Tiers!Label
<1>24. ASSUME Tiers!Finished PROVE CommandKeyInv'
  BY <1>24 DEF Tiers!Finished, Tiers!vars, CommandKeyInv, Tiers!Typed, Tiers!Label
<1>25. CASE UNCHANGED Tiers!vars
  BY <1>25 DEF Tiers!vars, CommandKeyInv
<1> QED
  BY <1>1, <1>2, <1>3, <1>4, <1>5, <1>6, <1>7, <1>8, <1>9, <1>10, <1>11, <1>12, <1>13,
    <1>14, <1>15, <1>16, <1>17, <1>18, <1>19, <1>20, <1>21, <1>22, <1>23, <1>24, <1>25
  DEF Tiers!Next, Tiers!ThreadStep

\* The journal gates: EvictPut and Promote lock one, EvictRemove and Load unlock it.
LEMMA NextKeyGate ==
  ASSUME Tiers!Typed, CommandKeyInv, KeyGateInv, [Tiers!Next]_(Tiers!vars)
  PROVE  KeyGateInv'
<1>1. ASSUME NEW t \in Thread, NEW s \in Surface, NEW k \in TierKey, NEW w \in BOOLEAN,
             NEW n \in 1..MaxQueue, Tiers!Start(t, s, k, w, n)
      PROVE  KeyGateInv'
  <2>1. /\ tierPc'[t] \in {"guard", "spin", "bid"} /\ (tierPc'[t] = "guard" => s = "resp")
        /\ cmd'[t].surface = s /\ cmd'[t].key = k
    BY <1>1, SurfaceAssumption DEF Tiers!Start, Tiers!Goto, Tiers!Typed
  <2>2. \A u \in Thread \ {t} : cmd'[u] = cmd[u] /\ tierPc'[u] = tierPc[u]
    BY <1>1 DEF Tiers!Start, Tiers!Goto, Tiers!Typed
  <2> QED
    BY <1>1, <2>1, <2>2 DEF Tiers!Start, KeyGateInv
<1>2. ASSUME NEW t \in Thread, Tiers!Guard(t) PROVE KeyGateInv'
  BY <1>2, ThreadAssumption
  DEF Tiers!Guard, Tiers!Is, Tiers!Goto, Tiers!placeVars, CommandKeyInv, KeyGateInv,
    Tiers!Typed, Tiers!Label
<1>3. ASSUME NEW t \in Thread, Tiers!FastRead(t) PROVE KeyGateInv'
  BY <1>3, ThreadAssumption
  DEF Tiers!FastRead, Tiers!PlacementGuarded, Tiers!Goto, Tiers!placeVars,
    Tiers!execVars, CommandKeyInv, KeyGateInv, Tiers!Typed, Tiers!Label
<1>4. ASSUME NEW t \in Thread, Tiers!BatchRead(t) PROVE KeyGateInv'
  BY <1>4, ThreadAssumption
  DEF Tiers!BatchRead, Tiers!Goto, Tiers!placeVars, Tiers!execVars, CommandKeyInv,
    KeyGateInv, Tiers!Typed, Tiers!Label
<1>5. ASSUME NEW t \in Thread, Tiers!Bid(t) PROVE KeyGateInv'
  BY <1>5, ThreadAssumption
  DEF Tiers!Bid, Tiers!Goto, Tiers!placeVars, CommandKeyInv, KeyGateInv, Tiers!Typed,
    Tiers!Label
<1>6. ASSUME NEW t \in Thread, Tiers!Drained(t) PROVE KeyGateInv'
  BY <1>6, ThreadAssumption
  DEF Tiers!Drained, Tiers!Goto, Tiers!placeVars, Tiers!execVars, CommandKeyInv,
    KeyGateInv, Tiers!Typed, Tiers!Label
<1>7. ASSUME NEW t \in Thread, Tiers!Done(t) PROVE KeyGateInv'
  <2>1. tierPc'[t] = "idle" \/ (tierPc'[t] = "spin" /\ cmd'[t].key \in TierKey)
    <3>1. CASE Tiers!Is(t, "exec") /\ cmd[t].todo > 1
      <4>1. PICK k \in TierKey, w \in BOOLEAN :
              cmd' = [cmd EXCEPT ![t] = [cmd[t] EXCEPT !.key = k, !.write = w,
                                                       !.todo = cmd[t].todo - 1]]
        BY <1>7, <3>1 DEF Tiers!Done
      <4>2. cmd'[t].key = k
        BY <4>1 DEF Tiers!Typed, Tiers!Command
      <4> QED
        BY <1>7, <3>1, <4>2 DEF Tiers!Done, Tiers!Goto, Tiers!Typed
    <3> QED
      BY <1>7, <3>1 DEF Tiers!Done, Tiers!Goto, Tiers!Typed
  <2>2. \A u \in Thread \ {t} : cmd'[u] = cmd[u] /\ tierPc'[u] = tierPc[u]
    BY <1>7 DEF Tiers!Done, Tiers!Goto, Tiers!Typed
  <2>3. gate' = gate /\ tierPc[t] = "done"
    BY <1>7 DEF Tiers!Done
  <2> QED
    BY <2>1, <2>2, <2>3 DEF KeyGateInv
<1>8. ASSUME NEW t \in Thread, Tiers!Spin(t) PROVE KeyGateInv'
  BY <1>8, ThreadAssumption
  DEF Tiers!Spin, Tiers!Goto, Tiers!placeVars, Tiers!execVars, CommandKeyInv,
    KeyGateInv, Tiers!Typed, Tiers!Label
<1>9. ASSUME NEW t \in Thread, Tiers!CountIn(t) PROVE KeyGateInv'
  BY <1>9, ThreadAssumption
  DEF Tiers!CountIn, Tiers!Goto, Tiers!placeVars, Tiers!execVars, CommandKeyInv,
    KeyGateInv, Tiers!Typed, Tiers!Label
<1>10. ASSUME NEW t \in Thread, Tiers!Recheck(t) PROVE KeyGateInv'
  BY <1>10, ThreadAssumption
  DEF Tiers!Recheck, Tiers!StillFree, Tiers!Is, Tiers!Goto, Tiers!placeVars,
    Tiers!execVars, CommandKeyInv, KeyGateInv, Tiers!Typed, Tiers!Label
<1>11. ASSUME NEW t \in Thread, Tiers!CheckLimit(t) PROVE KeyGateInv'
  BY <1>11, ThreadAssumption
  DEF Tiers!CheckLimit, Tiers!Goto, Tiers!placeVars, Tiers!execVars, CommandKeyInv,
    KeyGateInv, Tiers!Typed, Tiers!Label
<1>12. ASSUME NEW t \in Thread, Tiers!ClaimFlag(t) PROVE KeyGateInv'
  BY <1>12, ThreadAssumption
  DEF Tiers!ClaimFlag, Tiers!Goto, Tiers!placeVars, Tiers!execVars, CommandKeyInv,
    KeyGateInv, Tiers!Typed, Tiers!Label
<1>13. ASSUME NEW t \in Thread, Tiers!CountOut(t) PROVE KeyGateInv'
  BY <1>13, ThreadAssumption
  DEF Tiers!CountOut, Tiers!AfterCountOut, Tiers!CountedOut, Tiers!Goto,
    Tiers!placeVars, Tiers!execVars, CommandKeyInv, KeyGateInv, Tiers!Typed, Tiers!Label
<1>14. ASSUME NEW t \in Thread, Tiers!WaitInside(t) PROVE KeyGateInv'
  BY <1>14, ThreadAssumption
  DEF Tiers!WaitInside, Tiers!NobodyInside, Tiers!Goto, Tiers!placeVars, Tiers!execVars,
    CommandKeyInv, KeyGateInv, Tiers!Typed, Tiers!Label
<1>15. ASSUME NEW t \in Thread, Tiers!EvictStop(t) PROVE KeyGateInv'
  BY <1>15, ThreadAssumption
  DEF Tiers!EvictStop, Tiers!Goto, Tiers!placeVars, Tiers!execVars, CommandKeyInv,
    KeyGateInv, Tiers!Typed, Tiers!Label
<1>16. ASSUME NEW t \in Thread, Tiers!EvictGivesUp(t) PROVE KeyGateInv'
  BY <1>16, ThreadAssumption
  DEF Tiers!EvictGivesUp, Tiers!PlacementGuarded, Tiers!Goto, Tiers!placeVars,
    Tiers!execVars, CommandKeyInv, KeyGateInv, Tiers!Typed, Tiers!Label
<1>17. ASSUME NEW t \in Thread, NEW k \in TierKey, Tiers!EvictPut(t, k) PROVE KeyGateInv'
  BY <1>17, ThreadAssumption
  DEF Tiers!EvictPut, Tiers!PlacementGuarded, Tiers!Goto, Tiers!execVars, CommandKeyInv,
    KeyGateInv, Tiers!Typed, Tiers!Label
<1>18. ASSUME NEW t \in Thread, Tiers!EvictRemove(t) PROVE KeyGateInv'
  BY <1>18, ThreadAssumption
  DEF Tiers!EvictRemove, Tiers!Goto, Tiers!execVars, CommandKeyInv, KeyGateInv,
    Tiers!Typed, Tiers!Label
<1>19. ASSUME NEW t \in Thread, Tiers!Promote(t) PROVE KeyGateInv'
  <2>1. /\ cmd'[t].key = cmd[t].key
        /\ \/ tierPc'[t] = "operate" /\ gate' = gate
           \/ /\ tierPc'[t] = "load" /\ gate[cmd[t].key] = Tiers!Nobody
              /\ gate' = [gate EXCEPT ![cmd[t].key] = t]
    BY <1>19
    DEF Tiers!Promote, Tiers!PlacementGuarded, Tiers!Goto, Tiers!Typed, Tiers!Command
  <2>2. \A u \in Thread \ {t} : cmd'[u] = cmd[u] /\ tierPc'[u] = tierPc[u]
    BY <1>19 DEF Tiers!Promote, Tiers!Goto, Tiers!Typed
  <2> QED
    BY <1>19, <2>1, <2>2, ThreadAssumption
    DEF Tiers!Promote, CommandKeyInv, KeyGateInv, Tiers!Typed
<1>20. ASSUME NEW t \in Thread, Tiers!PromoteFails(t) PROVE KeyGateInv'
  BY <1>20, ThreadAssumption
  DEF Tiers!PromoteFails, Tiers!PlacementGuarded, Tiers!DropHttpGuard, Tiers!Goto,
    Tiers!placeVars, CommandKeyInv, KeyGateInv, Tiers!Typed, Tiers!Label
<1>21. ASSUME NEW t \in Thread, Tiers!Load(t) PROVE KeyGateInv'
  BY <1>21, ThreadAssumption
  DEF Tiers!Load, Tiers!Goto, Tiers!execVars, CommandKeyInv, KeyGateInv, Tiers!Typed,
    Tiers!Label
<1>22. ASSUME NEW t \in Thread, Tiers!Operate(t) PROVE KeyGateInv'
  BY <1>22, ThreadAssumption
  DEF Tiers!Operate, Tiers!DropHttpGuard, Tiers!Goto, CommandKeyInv, KeyGateInv,
    Tiers!Typed, Tiers!Label
<1>23. ASSUME Tiers!Restart PROVE KeyGateInv'
  BY <1>23, ThreadAssumption
  DEF Tiers!Restart, Tiers!NoCmd, CommandKeyInv, KeyGateInv, Tiers!Typed, Tiers!Label
<1>24. ASSUME Tiers!Finished PROVE KeyGateInv'
  BY <1>24, ThreadAssumption
  DEF Tiers!Finished, Tiers!vars, CommandKeyInv, KeyGateInv, Tiers!Typed, Tiers!Label
<1>25. CASE UNCHANGED Tiers!vars
  BY <1>25 DEF Tiers!vars, KeyGateInv
<1> QED
  BY <1>1, <1>2, <1>3, <1>4, <1>5, <1>6, <1>7, <1>8, <1>9, <1>10, <1>11, <1>12, <1>13,
    <1>14, <1>15, <1>16, <1>17, <1>18, <1>19, <1>20, <1>21, <1>22, <1>23, <1>24, <1>25
  DEF Tiers!Next, Tiers!ThreadStep

\* Where a value is.  Spilling needs the gate, and nobody past the boundary;
\* promoting and writing need the gate.
LEMMA NextPlace ==
  ASSUME Tiers!Typed, BoundaryInv, CommandKeyInv, KeyGateInv, Tiers!OnePlace, PlaceInv,
         [Tiers!Next]_(Tiers!vars)
  PROVE  Tiers!OnePlace' /\ PlaceInv'
<1>1. ASSUME NEW t \in Thread, NEW s \in Surface, NEW k \in TierKey, NEW w \in BOOLEAN,
             NEW n \in 1..MaxQueue, Tiers!Start(t, s, k, w, n)
      PROVE  Tiers!OnePlace' /\ PlaceInv'
  <2>1. /\ tierPc'[t] \in {"guard", "spin", "bid"} /\ (tierPc'[t] = "guard" => s = "resp")
        /\ cmd'[t].surface = s /\ cmd'[t].key = k
    BY <1>1, SurfaceAssumption DEF Tiers!Start, Tiers!Goto, Tiers!Typed
  <2>2. \A u \in Thread \ {t} : cmd'[u] = cmd[u] /\ tierPc'[u] = tierPc[u]
    BY <1>1 DEF Tiers!Start, Tiers!Goto, Tiers!Typed
  <2> QED
    BY <1>1, <2>1, <2>2 DEF Tiers!Start, Tiers!placeVars, Tiers!OnePlace, PlaceInv
<1>2. ASSUME NEW t \in Thread, Tiers!Guard(t) PROVE Tiers!OnePlace' /\ PlaceInv'
  BY <1>2
  DEF Tiers!Guard, Tiers!Is, Tiers!Goto, Tiers!placeVars, Tiers!OnePlace, PlaceInv,
    Tiers!Typed
<1>3. ASSUME NEW t \in Thread, Tiers!FastRead(t) PROVE Tiers!OnePlace' /\ PlaceInv'
  BY <1>3
  DEF Tiers!FastRead, Tiers!PlacementGuarded, Tiers!Goto, Tiers!placeVars,
    Tiers!execVars, Tiers!OnePlace, PlaceInv, Tiers!Typed
<1>4. ASSUME NEW t \in Thread, Tiers!BatchRead(t) PROVE Tiers!OnePlace' /\ PlaceInv'
  BY <1>4
  DEF Tiers!BatchRead, Tiers!Goto, Tiers!placeVars, Tiers!execVars, Tiers!OnePlace,
    PlaceInv, Tiers!Typed
<1>5. ASSUME NEW t \in Thread, Tiers!Bid(t) PROVE Tiers!OnePlace' /\ PlaceInv'
  BY <1>5
  DEF Tiers!Bid, Tiers!Goto, Tiers!placeVars, Tiers!OnePlace, PlaceInv, Tiers!Typed
<1>6. ASSUME NEW t \in Thread, Tiers!Drained(t) PROVE Tiers!OnePlace' /\ PlaceInv'
  BY <1>6
  DEF Tiers!Drained, Tiers!Goto, Tiers!placeVars, Tiers!execVars, Tiers!OnePlace,
    PlaceInv, Tiers!Typed
<1>7. ASSUME NEW t \in Thread, Tiers!Done(t) PROVE Tiers!OnePlace' /\ PlaceInv'
  <2>1. tierPc'[t] = "idle" \/ (tierPc'[t] = "spin" /\ cmd'[t].key \in TierKey)
    <3>1. CASE Tiers!Is(t, "exec") /\ cmd[t].todo > 1
      <4>1. PICK k \in TierKey, w \in BOOLEAN :
              cmd' = [cmd EXCEPT ![t] = [cmd[t] EXCEPT !.key = k, !.write = w,
                                                       !.todo = cmd[t].todo - 1]]
        BY <1>7, <3>1 DEF Tiers!Done
      <4>2. cmd'[t].key = k
        BY <4>1 DEF Tiers!Typed, Tiers!Command
      <4> QED
        BY <1>7, <3>1, <4>2 DEF Tiers!Done, Tiers!Goto, Tiers!Typed
    <3> QED
      BY <1>7, <3>1 DEF Tiers!Done, Tiers!Goto, Tiers!Typed
  <2>2. \A u \in Thread \ {t} : cmd'[u] = cmd[u] /\ tierPc'[u] = tierPc[u]
    BY <1>7 DEF Tiers!Done, Tiers!Goto, Tiers!Typed
  <2>3. UNCHANGED <<hot, cold, latest, gate>>
    BY <1>7 DEF Tiers!Done, Tiers!placeVars
  <2> QED
    BY <2>1, <2>2, <2>3 DEF Tiers!OnePlace, PlaceInv
<1>8. ASSUME NEW t \in Thread, Tiers!Spin(t) PROVE Tiers!OnePlace' /\ PlaceInv'
  BY <1>8
  DEF Tiers!Spin, Tiers!Goto, Tiers!placeVars, Tiers!execVars, Tiers!OnePlace, PlaceInv,
    Tiers!Typed
<1>9. ASSUME NEW t \in Thread, Tiers!CountIn(t) PROVE Tiers!OnePlace' /\ PlaceInv'
  BY <1>9
  DEF Tiers!CountIn, Tiers!Goto, Tiers!placeVars, Tiers!execVars, Tiers!OnePlace,
    PlaceInv, Tiers!Typed
<1>10. ASSUME NEW t \in Thread, Tiers!Recheck(t) PROVE Tiers!OnePlace' /\ PlaceInv'
  BY <1>10
  DEF Tiers!Recheck, Tiers!StillFree, Tiers!Is, Tiers!Goto, Tiers!placeVars,
    Tiers!execVars, Tiers!OnePlace, PlaceInv, Tiers!Typed
<1>11. ASSUME NEW t \in Thread, Tiers!CheckLimit(t) PROVE Tiers!OnePlace' /\ PlaceInv'
  BY <1>11
  DEF Tiers!CheckLimit, Tiers!Goto, Tiers!placeVars, Tiers!execVars, Tiers!OnePlace,
    PlaceInv, Tiers!Typed
<1>12. ASSUME NEW t \in Thread, Tiers!ClaimFlag(t) PROVE Tiers!OnePlace' /\ PlaceInv'
  BY <1>12
  DEF Tiers!ClaimFlag, Tiers!Goto, Tiers!placeVars, Tiers!execVars, Tiers!OnePlace,
    PlaceInv, Tiers!Typed
<1>13. ASSUME NEW t \in Thread, Tiers!CountOut(t) PROVE Tiers!OnePlace' /\ PlaceInv'
  BY <1>13
  DEF Tiers!CountOut, Tiers!AfterCountOut, Tiers!CountedOut, Tiers!Goto,
    Tiers!placeVars, Tiers!execVars, Tiers!OnePlace, PlaceInv, Tiers!Typed
<1>14. ASSUME NEW t \in Thread, Tiers!WaitInside(t) PROVE Tiers!OnePlace' /\ PlaceInv'
  BY <1>14
  DEF Tiers!WaitInside, Tiers!NobodyInside, Tiers!Goto, Tiers!placeVars, Tiers!execVars,
    Tiers!OnePlace, PlaceInv, Tiers!Typed
<1>15. ASSUME NEW t \in Thread, Tiers!EvictStop(t) PROVE Tiers!OnePlace' /\ PlaceInv'
  BY <1>15
  DEF Tiers!EvictStop, Tiers!Goto, Tiers!placeVars, Tiers!execVars, Tiers!OnePlace,
    PlaceInv, Tiers!Typed
<1>16. ASSUME NEW t \in Thread, Tiers!EvictGivesUp(t) PROVE Tiers!OnePlace' /\ PlaceInv'
  BY <1>16
  DEF Tiers!EvictGivesUp, Tiers!PlacementGuarded, Tiers!Goto, Tiers!placeVars,
    Tiers!execVars, Tiers!OnePlace, PlaceInv, Tiers!Typed
<1>17. ASSUME NEW t \in Thread, NEW k \in TierKey, Tiers!EvictPut(t, k)
       PROVE  Tiers!OnePlace' /\ PlaceInv'
  <2>1. /\ cmd'[t].key = k /\ tierPc'[t] = "remove" /\ tierPc[t] = "evict"
        /\ gate[k] = Tiers!Nobody /\ hot[k] # 0
        /\ gate' = [gate EXCEPT ![k] = t] /\ cold' = [cold EXCEPT ![k] = hot[k]]
        /\ UNCHANGED <<hot, latest>>
    BY <1>17
    DEF Tiers!EvictPut, Tiers!PlacementGuarded, Tiers!Goto, Tiers!Typed, Tiers!Command
  <2>2. \A u \in Thread \ {t} : cmd'[u] = cmd[u] /\ tierPc'[u] = tierPc[u]
    BY <1>17 DEF Tiers!EvictPut, Tiers!Goto, Tiers!Typed
  <2>3. hot[k] = latest[k]
    BY <2>1 DEF Tiers!OnePlace
  <2>4. Tiers!OnePlace'
    BY <2>1, ThreadAssumption DEF Tiers!OnePlace, Tiers!Typed
  <2>5. ASSUME NEW u \in Thread \ {t}
        PROVE  /\ tierPc[u] # "operate"
               /\ tierPc[u] \in {"load", "remove"} => cmd[u].key \in TierKey \ {k}
    BY <2>1, ThreadAssumption DEF BoundaryInv, Past, KeyGateInv, CommandKeyInv
  <2>6. PlaceInv'
    BY <2>1, <2>2, <2>3, <2>5 DEF PlaceInv, Tiers!Typed
  <2> QED
    BY <2>4, <2>6
<1>18. ASSUME NEW t \in Thread, Tiers!EvictRemove(t) PROVE Tiers!OnePlace' /\ PlaceInv'
  <2> DEFINE k == cmd[t].key
  <2>1. /\ tierPc[t] = "remove" /\ tierPc'[t] = "evict" /\ k \in TierKey
        /\ gate[k] = t /\ hot[k] = latest[k] /\ cold[k] = latest[k]
        /\ hot' = [hot EXCEPT ![k] = 0] /\ gate' = [gate EXCEPT ![k] = Tiers!Nobody]
        /\ UNCHANGED <<cold, latest>>
    BY <1>18
    DEF Tiers!EvictRemove, Tiers!Goto, Tiers!Typed, CommandKeyInv, KeyGateInv, PlaceInv
  <2>2. \A u \in Thread \ {t} : cmd'[u] = cmd[u] /\ tierPc'[u] = tierPc[u]
    BY <1>18 DEF Tiers!EvictRemove, Tiers!Goto, Tiers!Typed
  <2>3. Tiers!OnePlace'
    BY <2>1 DEF Tiers!OnePlace, Tiers!Typed
  <2>4. ASSUME NEW u \in Thread \ {t}
        PROVE  /\ tierPc[u] # "operate"
               /\ tierPc[u] \in {"load", "remove"} => cmd[u].key \in TierKey \ {k}
    BY <2>1 DEF BoundaryInv, Past, KeyGateInv, CommandKeyInv
  <2>5. PlaceInv'
    BY <2>1, <2>2, <2>4 DEF PlaceInv, Tiers!Typed
  <2> QED
    BY <2>3, <2>5
<1>19. ASSUME NEW t \in Thread, Tiers!Promote(t) PROVE Tiers!OnePlace' /\ PlaceInv'
  <2> DEFINE k == cmd[t].key
  <2>1. tierPc[t] = "promote" /\ k \in TierKey /\ gate[k] = Tiers!Nobody
    BY <1>19 DEF Tiers!Promote, Tiers!PlacementGuarded, CommandKeyInv
  <2>2. \A u \in Thread \ {t} : cmd'[u] = cmd[u] /\ tierPc'[u] = tierPc[u]
    BY <1>19 DEF Tiers!Promote, Tiers!Goto, Tiers!Typed
  <2>3. UNCHANGED <<hot, latest>>
    BY <1>19 DEF Tiers!Promote
  <2>4. CASE cold[k] = 0
    <3>1. tierPc'[t] = "operate" /\ UNCHANGED <<cold, gate, cmd>>
      BY <1>19, <2>4 DEF Tiers!Promote, Tiers!Goto, Tiers!Typed
    <3> QED
      BY <2>2, <2>3, <2>4, <3>1 DEF Tiers!OnePlace, PlaceInv
  <2>5. CASE cold[k] # 0
    <3>1. /\ tierPc'[t] = "load" /\ cmd'[t].key = k /\ cmd'[t].val = cold[k]
          /\ gate' = [gate EXCEPT ![k] = t] /\ cold' = [cold EXCEPT ![k] = 0]
      BY <1>19, <2>5
      DEF Tiers!Promote, Tiers!ColdRemoved, Tiers!Goto, Tiers!Typed, Tiers!Command
    <3>2. cold[k] = latest[k] /\ hot[k] = 0
      BY <2>1, <2>5 DEF Tiers!OnePlace
    <3>3. Tiers!OnePlace'
      BY <2>1, <2>3, <3>1, ThreadAssumption DEF Tiers!OnePlace, Tiers!Typed
    <3>4. ASSUME NEW u \in Thread \ {t}, tierPc[u] \in {"load", "remove"}
          PROVE  cmd[u].key # k
      BY <2>1, <3>4, ThreadAssumption DEF KeyGateInv
    <3>5. PlaceInv'
      BY <2>1, <2>2, <2>3, <3>1, <3>2, <3>4 DEF PlaceInv, CommandKeyInv, Tiers!Typed
    <3> QED
      BY <3>3, <3>5
  <2> QED
    BY <2>4, <2>5
<1>20. ASSUME NEW t \in Thread, Tiers!PromoteFails(t) PROVE Tiers!OnePlace' /\ PlaceInv'
  BY <1>20
  DEF Tiers!PromoteFails, Tiers!PlacementGuarded, Tiers!DropHttpGuard, Tiers!Goto,
    Tiers!placeVars, Tiers!OnePlace, PlaceInv, Tiers!Typed
<1>21. ASSUME NEW t \in Thread, Tiers!Load(t) PROVE Tiers!OnePlace' /\ PlaceInv'
  <2> DEFINE k == cmd[t].key
  <2>0. /\ tierPc[t] = "load" /\ k \in TierKey /\ gate[k] = t /\ cold[k] = 0
        /\ cmd[t].val = latest[k]
    BY <1>21 DEF Tiers!Load, CommandKeyInv, KeyGateInv, PlaceInv
  <2>1. /\ tierPc'[t] = "operate" /\ cmd'[t].key = k
        /\ hot' = [hot EXCEPT ![k] = latest[k]]
        /\ gate' = [gate EXCEPT ![k] = Tiers!Nobody]
        /\ UNCHANGED <<cold, latest>>
    BY <1>21, <2>0 DEF Tiers!Load, Tiers!Goto, Tiers!Typed, Tiers!Command
  <2>2. \A u \in Thread \ {t} : cmd'[u] = cmd[u] /\ tierPc'[u] = tierPc[u]
    BY <1>21 DEF Tiers!Load, Tiers!Goto, Tiers!Typed
  <2>3. Tiers!OnePlace'
    BY <2>0, <2>1 DEF Tiers!OnePlace, Tiers!Typed
  <2>4. ASSUME NEW u \in Thread \ {t}, tierPc[u] \in {"load", "remove"}
        PROVE  cmd[u].key # k
    BY <2>0, <2>1, <2>4 DEF KeyGateInv
  <2>5. PlaceInv'
    BY <2>0, <2>1, <2>2, <2>4 DEF PlaceInv, CommandKeyInv, Tiers!Typed
  <2> QED
    BY <2>3, <2>5
<1>22. ASSUME NEW t \in Thread, Tiers!Operate(t) PROVE Tiers!OnePlace' /\ PlaceInv'
  <2> DEFINE k == cmd[t].key
  <2>1. /\ tierPc[t] = "operate" /\ tierPc'[t] = "leave" /\ k \in TierKey /\ cold[k] = 0
        /\ UNCHANGED <<cold, gate>>
    BY <1>22 DEF Tiers!Operate, Tiers!Goto, Tiers!Typed, CommandKeyInv, PlaceInv
  <2>2. \A u \in Thread \ {t} : cmd'[u] = cmd[u] /\ tierPc'[u] = tierPc[u]
    BY <1>22 DEF Tiers!Operate, Tiers!Goto, Tiers!Typed
  <2>3. CASE UNCHANGED <<hot, latest>>
    BY <2>1, <2>2, <2>3 DEF Tiers!OnePlace, PlaceInv
  <2>4. CASE /\ gate[k] = Tiers!Nobody
             /\ hot' = [hot EXCEPT ![k] = nextVal]
             /\ latest' = [latest EXCEPT ![k] = nextVal]
    <3>1. Tiers!OnePlace'
      BY <2>1, <2>4 DEF Tiers!OnePlace, Tiers!Typed
    <3>2. ASSUME NEW u \in Thread \ {t}, tierPc[u] \in {"load", "remove"}
          PROVE  cmd[u].key # k
      BY <2>1, <2>4, <3>2, ThreadAssumption DEF KeyGateInv
    <3>3. PlaceInv'
      BY <2>1, <2>2, <2>4, <3>2 DEF PlaceInv, CommandKeyInv, Tiers!Typed
    <3> QED
      BY <3>1, <3>3
  <2> QED
    BY <1>22, <2>3, <2>4 DEF Tiers!Operate
<1>23. ASSUME Tiers!Restart PROVE Tiers!OnePlace' /\ PlaceInv'
  <2>1. tierPc' = [t \in Thread |-> "idle"] /\ UNCHANGED latest
    BY <1>23 DEF Tiers!Restart
  <2>2. PICK S \in SUBSET TierKey :
          /\ hot' = [k \in TierKey |-> IF k \in S THEN 0 ELSE latest[k]]
          /\ cold' = [k \in TierKey |-> IF k \in S THEN latest[k] ELSE 0]
    BY <1>23 DEF Tiers!Restart
  <2> QED
    BY <2>1, <2>2 DEF Tiers!OnePlace, PlaceInv
<1>24. ASSUME Tiers!Finished PROVE Tiers!OnePlace' /\ PlaceInv'
  BY <1>24 DEF Tiers!Finished, Tiers!vars, Tiers!OnePlace, PlaceInv, Tiers!Typed
<1>25. CASE UNCHANGED Tiers!vars
  BY <1>25 DEF Tiers!vars, Tiers!OnePlace, PlaceInv
<1> QED
  BY <1>1, <1>2, <1>3, <1>4, <1>5, <1>6, <1>7, <1>8, <1>9, <1>10, <1>11, <1>12, <1>13,
    <1>14, <1>15, <1>16, <1>17, <1>18, <1>19, <1>20, <1>21, <1>22, <1>23, <1>24, <1>25
  DEF Tiers!Next, Tiers!ThreadStep

\* Whether memory is over the limit depends only on what is in memory.
LEMMA SameLimit ==
  ASSUME UNCHANGED hot
  PROVE  Tiers!OverLimit' <=> Tiers!OverLimit
  BY DEF Tiers!OverLimit, Tiers!HotCount

\* The memory limit (Drop of TieredMemoryBoundary): CheckLimit and ClaimFlag hand the
\* duty on, and only EvictStop, EvictGivesUp and Restart end it.
LEMMA NextCeiling ==
  ASSUME Tiers!Typed, BoundaryInv, CeilingInv, [Tiers!Next]_(Tiers!vars)
  PROVE  CeilingInv'
<1>1. ASSUME NEW t \in Thread, NEW s \in Surface, NEW k \in TierKey, NEW w \in BOOLEAN,
             NEW n \in 1..MaxQueue, Tiers!Start(t, s, k, w, n)
      PROVE  CeilingInv'
  <2>1. UNCHANGED hot
    BY <1>1 DEF Tiers!Start, Tiers!placeVars
  <2>2. Tiers!OverLimit' <=> Tiers!OverLimit
    BY <2>1, SameLimit
  <2> QED
    BY <1>1, <2>2 DEF Tiers!Start, Tiers!Goto, CeilingInv, Tiers!Typed, Tiers!Label
<1>2. ASSUME NEW t \in Thread, Tiers!Guard(t) PROVE CeilingInv'
  <2>1. UNCHANGED hot
    BY <1>2 DEF Tiers!Guard, Tiers!placeVars
  <2>2. Tiers!OverLimit' <=> Tiers!OverLimit
    BY <2>1, SameLimit
  <2> QED
    BY <1>2, <2>2
    DEF Tiers!Guard, Tiers!Is, Tiers!Goto, CeilingInv, Tiers!Typed, Tiers!Label
<1>3. ASSUME NEW t \in Thread, Tiers!FastRead(t) PROVE CeilingInv'
  <2>1. UNCHANGED hot
    BY <1>3 DEF Tiers!FastRead, Tiers!placeVars
  <2>2. Tiers!OverLimit' <=> Tiers!OverLimit
    BY <2>1, SameLimit
  <2> QED
    BY <1>3, <2>2
    DEF Tiers!FastRead, Tiers!PlacementGuarded, Tiers!Goto, CeilingInv, Tiers!Typed,
      Tiers!Label
<1>4. ASSUME NEW t \in Thread, Tiers!BatchRead(t) PROVE CeilingInv'
  <2>1. UNCHANGED hot
    BY <1>4 DEF Tiers!BatchRead, Tiers!placeVars
  <2>2. Tiers!OverLimit' <=> Tiers!OverLimit
    BY <2>1, SameLimit
  <2> QED
    BY <1>4, <2>2 DEF Tiers!BatchRead, Tiers!Goto, CeilingInv, Tiers!Typed, Tiers!Label
<1>5. ASSUME NEW t \in Thread, Tiers!Bid(t) PROVE CeilingInv'
  <2>1. UNCHANGED hot
    BY <1>5 DEF Tiers!Bid, Tiers!placeVars
  <2>2. Tiers!OverLimit' <=> Tiers!OverLimit
    BY <2>1, SameLimit
  <2> QED
    BY <1>5, <2>2 DEF Tiers!Bid, Tiers!Goto, CeilingInv, Tiers!Typed, Tiers!Label
<1>6. ASSUME NEW t \in Thread, Tiers!Drained(t) PROVE CeilingInv'
  <2>1. UNCHANGED hot
    BY <1>6 DEF Tiers!Drained, Tiers!placeVars
  <2>2. Tiers!OverLimit' <=> Tiers!OverLimit
    BY <2>1, SameLimit
  <2> QED
    BY <1>6, <2>2 DEF Tiers!Drained, Tiers!Goto, CeilingInv, Tiers!Typed, Tiers!Label
<1>7. ASSUME NEW t \in Thread, Tiers!Done(t) PROVE CeilingInv'
  <2>1. UNCHANGED hot
    BY <1>7 DEF Tiers!Done, Tiers!placeVars
  <2>2. Tiers!OverLimit' <=> Tiers!OverLimit
    BY <2>1, SameLimit
  <2> QED
    BY <1>7, <2>2
    DEF Tiers!Done, Tiers!Is, Tiers!Goto, CeilingInv, Tiers!Typed, Tiers!Label
<1>8. ASSUME NEW t \in Thread, Tiers!Spin(t) PROVE CeilingInv'
  <2>1. UNCHANGED hot
    BY <1>8 DEF Tiers!Spin, Tiers!placeVars
  <2>2. Tiers!OverLimit' <=> Tiers!OverLimit
    BY <2>1, SameLimit
  <2> QED
    BY <1>8, <2>2 DEF Tiers!Spin, Tiers!Goto, CeilingInv, Tiers!Typed, Tiers!Label
<1>9. ASSUME NEW t \in Thread, Tiers!CountIn(t) PROVE CeilingInv'
  <2>1. UNCHANGED hot
    BY <1>9 DEF Tiers!CountIn, Tiers!placeVars
  <2>2. Tiers!OverLimit' <=> Tiers!OverLimit
    BY <2>1, SameLimit
  <2> QED
    BY <1>9, <2>2 DEF Tiers!CountIn, Tiers!Goto, CeilingInv, Tiers!Typed, Tiers!Label
<1>10. ASSUME NEW t \in Thread, Tiers!Recheck(t) PROVE CeilingInv'
  <2>1. UNCHANGED hot
    BY <1>10 DEF Tiers!Recheck, Tiers!placeVars
  <2>2. Tiers!OverLimit' <=> Tiers!OverLimit
    BY <2>1, SameLimit
  <2> QED
    BY <1>10, <2>2
    DEF Tiers!Recheck, Tiers!StillFree, Tiers!Is, Tiers!Goto, CeilingInv, Tiers!Typed,
      Tiers!Label
<1>11. ASSUME NEW t \in Thread, Tiers!CheckLimit(t) PROVE CeilingInv'
  <2>1. UNCHANGED hot
    BY <1>11 DEF Tiers!CheckLimit, Tiers!placeVars
  <2>2. Tiers!OverLimit' <=> Tiers!OverLimit
    BY <2>1, SameLimit
  <2> QED
    BY <1>11, <2>2
    DEF Tiers!CheckLimit, Tiers!Goto, CeilingInv, Tiers!Typed, Tiers!Label
<1>12. ASSUME NEW t \in Thread, Tiers!ClaimFlag(t) PROVE CeilingInv'
  <2>1. UNCHANGED hot
    BY <1>12 DEF Tiers!ClaimFlag, Tiers!placeVars
  <2>2. Tiers!OverLimit' <=> Tiers!OverLimit
    BY <2>1, SameLimit
  <2> QED
    BY <1>12, <2>2, ThreadAssumption
    DEF Tiers!ClaimFlag, Tiers!Goto, CeilingInv, Tiers!Typed, Tiers!Label
<1>13. ASSUME NEW t \in Thread, Tiers!CountOut(t) PROVE CeilingInv'
  <2>1. UNCHANGED hot
    BY <1>13 DEF Tiers!CountOut, Tiers!placeVars
  <2>2. Tiers!OverLimit' <=> Tiers!OverLimit
    BY <2>1, SameLimit
  <2> QED
    BY <1>13, <2>2, ThreadAssumption
    DEF Tiers!CountOut, Tiers!AfterCountOut, Tiers!CountedOut, Tiers!Goto, CeilingInv,
      BoundaryInv, Tiers!Typed, Tiers!Label
<1>14. ASSUME NEW t \in Thread, Tiers!WaitInside(t) PROVE CeilingInv'
  <2>1. UNCHANGED hot
    BY <1>14 DEF Tiers!WaitInside, Tiers!placeVars
  <2>2. Tiers!OverLimit' <=> Tiers!OverLimit
    BY <2>1, SameLimit
  <2> QED
    BY <1>14, <2>2
    DEF Tiers!WaitInside, Tiers!NobodyInside, Tiers!Goto, CeilingInv, Tiers!Typed,
      Tiers!Label
<1>15. ASSUME NEW t \in Thread, Tiers!EvictStop(t) PROVE CeilingInv'
  <2>1. UNCHANGED hot
    BY <1>15 DEF Tiers!EvictStop, Tiers!placeVars
  <2>2. Tiers!OverLimit' <=> Tiers!OverLimit
    BY <2>1, SameLimit
  <2> QED
    BY <1>15, <2>2 DEF Tiers!EvictStop, Tiers!Goto, CeilingInv, Tiers!Typed, Tiers!Label
<1>16. ASSUME NEW t \in Thread, Tiers!EvictGivesUp(t) PROVE CeilingInv'
  BY <1>16 DEF Tiers!EvictGivesUp, CeilingInv
<1>17. ASSUME NEW t \in Thread, NEW k \in TierKey, Tiers!EvictPut(t, k)
       PROVE  CeilingInv'
  BY <1>17, ThreadAssumption DEF Tiers!EvictPut, BoundaryInv, CeilingInv
<1>18. ASSUME NEW t \in Thread, Tiers!EvictRemove(t) PROVE CeilingInv'
  BY <1>18, ThreadAssumption DEF Tiers!EvictRemove, BoundaryInv, CeilingInv
<1>19. ASSUME NEW t \in Thread, Tiers!Promote(t) PROVE CeilingInv'
  <2>1. UNCHANGED hot
    BY <1>19 DEF Tiers!Promote, Tiers!placeVars
  <2>2. Tiers!OverLimit' <=> Tiers!OverLimit
    BY <2>1, SameLimit
  <2> QED
    BY <1>19, <2>2
    DEF Tiers!Promote, Tiers!PlacementGuarded, Tiers!ColdRemoved, Tiers!Goto,
      CeilingInv, Tiers!Typed, Tiers!Label
<1>20. ASSUME NEW t \in Thread, Tiers!PromoteFails(t) PROVE CeilingInv'
  <2>1. UNCHANGED hot
    BY <1>20 DEF Tiers!PromoteFails, Tiers!placeVars
  <2>2. Tiers!OverLimit' <=> Tiers!OverLimit
    BY <2>1, SameLimit
  <2> QED
    BY <1>20, <2>2
    DEF Tiers!PromoteFails, Tiers!PlacementGuarded, Tiers!DropHttpGuard, Tiers!Goto,
      CeilingInv, Tiers!Typed, Tiers!Label
<1>21. ASSUME NEW t \in Thread, Tiers!Load(t) PROVE CeilingInv'
  <2>1. tierPc'[t] = "operate"
    BY <1>21 DEF Tiers!Load, Tiers!Goto, Tiers!Typed
  <2> QED
    BY <2>1 DEF CeilingInv
<1>22. ASSUME NEW t \in Thread, Tiers!Operate(t) PROVE CeilingInv'
  <2>1. tierPc'[t] = "leave"
    BY <1>22 DEF Tiers!Operate, Tiers!Goto, Tiers!Typed
  <2> QED
    BY <2>1 DEF CeilingInv
<1>23. ASSUME Tiers!Restart PROVE CeilingInv'
  <2>1. PICK S \in SUBSET TierKey :
          /\ spill' = (Tiers!Cardinality({k \in TierKey : latest[k] # 0} \ S) > MaxHot)
          /\ hot' = [k \in TierKey |-> IF k \in S THEN 0 ELSE latest[k]]
    BY <1>23 DEF Tiers!Restart
  <2>2. {k \in TierKey : hot'[k] # 0} = {k \in TierKey : latest[k] # 0} \ S
    BY <2>1
  <2>3. Tiers!OverLimit' = (Tiers!Cardinality({k \in TierKey : latest[k] # 0} \ S) > MaxHot)
    BY <2>2 DEF Tiers!OverLimit, Tiers!HotCount
  <2> QED
    BY <2>1, <2>3 DEF CeilingInv
<1>24. ASSUME Tiers!Finished PROVE CeilingInv'
  <2>1. UNCHANGED <<hot, rebal, spill, tierPc>>
    BY <1>24 DEF Tiers!Finished, Tiers!vars
  <2> QED
    BY <2>1, SameLimit DEF CeilingInv
<1>25. CASE UNCHANGED Tiers!vars
  <2>1. UNCHANGED <<hot, rebal, spill, tierPc>>
    BY <1>25 DEF Tiers!vars
  <2> QED
    BY <2>1, SameLimit DEF CeilingInv
<1> QED
  BY <1>1, <1>2, <1>3, <1>4, <1>5, <1>6, <1>7, <1>8, <1>9, <1>10, <1>11, <1>12, <1>13,
    <1>14, <1>15, <1>16, <1>17, <1>18, <1>19, <1>20, <1>21, <1>22, <1>23, <1>24, <1>25
  DEF Tiers!Next, Tiers!ThreadStep

\* An empty database satisfies it.
LEMMA InitTierInv ==
  ASSUME Tiers!Init
  PROVE  TierInv
<1>1. Tiers!Typed
  <2>1. Tiers!NoCmd \in Tiers!Command
    BY DEF Tiers!Init, Tiers!NoCmd, Tiers!Command
  <2>2. 0 \in 0..(nextVal - 1) /\ nextVal \in Nat \ {0}
    BY DEF Tiers!Init
  <2>3. cmd \in [Thread -> Tiers!Command] /\ tierPc \in [Thread -> Tiers!Label]
    BY <2>1 DEF Tiers!Init, Tiers!Label
  <2>4. used \in [ops : Nat, errors : Nat]
    BY DEF Tiers!Init
  <2> QED
    BY <2>2, <2>3, <2>4 DEF Tiers!Init, Tiers!Typed
<1>2. BoundaryInv /\ CommandKeyInv
  BY ThreadAssumption DEF Tiers!Init, BoundaryInv, Past, CommandKeyInv
<1>3. KeyGateInv /\ Tiers!OnePlace /\ PlaceInv
  BY ThreadAssumption DEF Tiers!Init, KeyGateInv, Tiers!OnePlace, PlaceInv
<1>4. CeilingInv
  <2>1. ~Tiers!OverLimit
    <3>1. {k \in TierKey : hot[k] # 0} = {}
      BY DEF Tiers!Init
    <3>2. Tiers!Cardinality({}) = 0
      BY FS_EmptySet DEF Cardinality, Tiers!Cardinality
    <3>3. Tiers!HotCount = 0
      BY <3>1, <3>2, Zenon DEF Tiers!HotCount
    <3> QED
      BY <3>3, LimitAssumption DEF Tiers!OverLimit
  <2> QED
    BY <2>1 DEF CeilingInv
<1> QED
  BY <1>1, <1>2, <1>3, <1>4 DEF TierInv

\* Every step of tiered placement keeps it.
LEMMA NextTierInv ==
  ASSUME TierInv, [Tiers!Next]_(Tiers!vars)
  PROVE  TierInv'
<1>1. Tiers!Typed' /\ BoundaryInv' /\ CommandKeyInv' /\ KeyGateInv'
  BY NextTiersTyped, NextBoundary, NextCommandKey, NextKeyGate DEF TierInv
<1>2. Tiers!OnePlace' /\ PlaceInv'
  BY NextPlace DEF TierInv
<1>3. CeilingInv'
  BY NextCeiling DEF TierInv
<1> QED
  BY <1>1, <1>2, <1>3 DEF TierInv

\* What FastReadsLatest says of a step.
AnsweredLatest ==
  \A t \in Thread : tierPc[t] \in {"fast", "batch"} /\ tierPc'[t] = "done"
    => hot[cmd[t].key] = latest[cmd[t].key]

\* The read path without a boundary: under a free gate OnePlace decides, and in a
\* batch a key that is hot outside EvictRemove's lock is not being moved.
LEMMA NextAnswersLatest ==
  ASSUME Tiers!Typed, CommandKeyInv, KeyGateInv, Tiers!OnePlace, PlaceInv, [Tiers!Next]_(Tiers!vars)
  PROVE  AnsweredLatest
<1>1. ASSUME NEW t \in Thread, NEW s \in Surface, NEW k \in TierKey, NEW w \in BOOLEAN,
             NEW n \in 1..MaxQueue, Tiers!Start(t, s, k, w, n)
      PROVE  AnsweredLatest
  <2>1. tierPc[t] = "idle" /\ \A u \in Thread \ {t} : tierPc'[u] = tierPc[u]
    BY <1>1 DEF Tiers!Start, Tiers!Goto, Tiers!Typed
  <2> QED
    BY <2>1 DEF AnsweredLatest
<1>2. ASSUME NEW t \in Thread, Tiers!Guard(t) PROVE AnsweredLatest
  BY <1>2 DEF Tiers!Guard, Tiers!Goto, Tiers!Typed, AnsweredLatest
<1>3. ASSUME NEW t \in Thread, Tiers!FastRead(t) PROVE AnsweredLatest
  <2> DEFINE k == cmd[t].key
  <2>1. /\ tierPc[t] = "fast" /\ k \in TierKey /\ gate[k] = Tiers!Nobody
        /\ tierPc'[t] = "done" => hot[k] # 0 \/ cold[k] = 0
    BY <1>3
    DEF Tiers!FastRead, Tiers!PlacementGuarded, Tiers!Goto, Tiers!Typed, CommandKeyInv
  <2>2. \A u \in Thread \ {t} : tierPc'[u] = tierPc[u]
    BY <1>3 DEF Tiers!FastRead, Tiers!Goto, Tiers!Typed
  <2> QED
    BY <2>1, <2>2 DEF Tiers!OnePlace, AnsweredLatest
<1>4. ASSUME NEW t \in Thread, Tiers!BatchRead(t) PROVE AnsweredLatest
  <2> DEFINE k == cmd[t].key
  <2>1. /\ tierPc[t] = "batch" /\ k \in TierKey
        /\ \A u \in Thread : ~(tierPc[u] = "remove" /\ cmd[u].key = k)
        /\ tierPc'[t] = "done" => hot[k] # 0
    BY <1>4 DEF Tiers!BatchRead, Tiers!Goto, Tiers!Typed, CommandKeyInv
  <2>2. \A u \in Thread \ {t} : tierPc'[u] = tierPc[u]
    BY <1>4 DEF Tiers!BatchRead, Tiers!Goto, Tiers!Typed
  <2>3. ASSUME hot[k] # 0
        PROVE  gate[k] = Tiers!Nobody
    <3>1. CASE gate[k] \in Thread
      BY <2>1, <2>3, <3>1 DEF KeyGateInv, PlaceInv
    <3> QED
      BY <2>1, <3>1 DEF Tiers!Typed
  <2> QED
    BY <2>1, <2>2, <2>3 DEF Tiers!OnePlace, AnsweredLatest
<1>5. ASSUME NEW t \in Thread, Tiers!Bid(t) PROVE AnsweredLatest
  BY <1>5 DEF Tiers!Bid, Tiers!Goto, Tiers!Typed, AnsweredLatest
<1>6. ASSUME NEW t \in Thread, Tiers!Drained(t) PROVE AnsweredLatest
  BY <1>6 DEF Tiers!Drained, Tiers!Goto, Tiers!Typed, AnsweredLatest
<1>7. ASSUME NEW t \in Thread, Tiers!Done(t) PROVE AnsweredLatest
  BY <1>7 DEF Tiers!Done, Tiers!Goto, Tiers!Typed, AnsweredLatest
<1>8. ASSUME NEW t \in Thread, Tiers!Spin(t) PROVE AnsweredLatest
  BY <1>8 DEF Tiers!Spin, Tiers!Goto, Tiers!Typed, AnsweredLatest
<1>9. ASSUME NEW t \in Thread, Tiers!CountIn(t) PROVE AnsweredLatest
  BY <1>9 DEF Tiers!CountIn, Tiers!Goto, Tiers!Typed, AnsweredLatest
<1>10. ASSUME NEW t \in Thread, Tiers!Recheck(t) PROVE AnsweredLatest
  BY <1>10 DEF Tiers!Recheck, Tiers!Goto, Tiers!Typed, AnsweredLatest
<1>11. ASSUME NEW t \in Thread, Tiers!CheckLimit(t) PROVE AnsweredLatest
  BY <1>11 DEF Tiers!CheckLimit, Tiers!Goto, Tiers!Typed, AnsweredLatest
<1>12. ASSUME NEW t \in Thread, Tiers!ClaimFlag(t) PROVE AnsweredLatest
  BY <1>12 DEF Tiers!ClaimFlag, Tiers!Goto, Tiers!Typed, AnsweredLatest
<1>13. ASSUME NEW t \in Thread, Tiers!CountOut(t) PROVE AnsweredLatest
  BY <1>13 DEF Tiers!CountOut, Tiers!Goto, Tiers!Typed, AnsweredLatest
<1>14. ASSUME NEW t \in Thread, Tiers!WaitInside(t) PROVE AnsweredLatest
  BY <1>14 DEF Tiers!WaitInside, Tiers!Goto, Tiers!Typed, AnsweredLatest
<1>15. ASSUME NEW t \in Thread, Tiers!EvictStop(t) PROVE AnsweredLatest
  BY <1>15 DEF Tiers!EvictStop, Tiers!Goto, Tiers!Typed, AnsweredLatest
<1>16. ASSUME NEW t \in Thread, Tiers!EvictGivesUp(t) PROVE AnsweredLatest
  BY <1>16 DEF Tiers!EvictGivesUp, Tiers!Goto, Tiers!Typed, AnsweredLatest
<1>17. ASSUME NEW t \in Thread, NEW k \in TierKey, Tiers!EvictPut(t, k)
       PROVE  AnsweredLatest
  BY <1>17 DEF Tiers!EvictPut, Tiers!Goto, Tiers!Typed, AnsweredLatest
<1>18. ASSUME NEW t \in Thread, Tiers!EvictRemove(t) PROVE AnsweredLatest
  BY <1>18 DEF Tiers!EvictRemove, Tiers!Goto, Tiers!Typed, AnsweredLatest
<1>19. ASSUME NEW t \in Thread, Tiers!Promote(t) PROVE AnsweredLatest
  BY <1>19 DEF Tiers!Promote, Tiers!Goto, Tiers!Typed, AnsweredLatest
<1>20. ASSUME NEW t \in Thread, Tiers!PromoteFails(t) PROVE AnsweredLatest
  BY <1>20 DEF Tiers!PromoteFails, Tiers!Goto, Tiers!Typed, AnsweredLatest
<1>21. ASSUME NEW t \in Thread, Tiers!Load(t) PROVE AnsweredLatest
  BY <1>21 DEF Tiers!Load, Tiers!Goto, Tiers!Typed, AnsweredLatest
<1>22. ASSUME NEW t \in Thread, Tiers!Operate(t) PROVE AnsweredLatest
  BY <1>22 DEF Tiers!Operate, Tiers!Goto, Tiers!Typed, AnsweredLatest
<1>23. ASSUME Tiers!Restart PROVE AnsweredLatest
  BY <1>23 DEF Tiers!Restart, AnsweredLatest
<1>24. ASSUME Tiers!Finished PROVE AnsweredLatest
  BY <1>24 DEF Tiers!Finished, Tiers!vars, AnsweredLatest
<1>25. CASE UNCHANGED Tiers!vars
  BY <1>25 DEF Tiers!vars, AnsweredLatest
<1> QED
  BY <1>1, <1>2, <1>3, <1>4, <1>5, <1>6, <1>7, <1>8, <1>9, <1>10, <1>11, <1>12, <1>13,
    <1>14, <1>15, <1>16, <1>17, <1>18, <1>19, <1>20, <1>21, <1>22, <1>23, <1>24, <1>25
  DEF Tiers!Next, Tiers!ThreadStep

\* Whatever part runs, tiered placement takes a step of its own or none.
LEMMA TiersStep ==
  ASSUME [StoreNext]_storeVars
  PROVE  [Tiers!Next]_(Tiers!vars)
  BY DEF StoreNext, storeVars, Tiers!vars, tiersVars

-----------------------------------------------------------------------------
(* Theorems                                                                *)

\* The boundary, the journal gates and the places of values fit together in every
\* behaviour (tiered_memory_boundary, evict_key, try_promote).
THEOREM TierInvariant == StoreSpec => []TierInv
<1>1. StoreInit => TierInv
  BY InitTierInv DEF StoreInit
<1>2. TierInv /\ [StoreNext]_storeVars => TierInv'
  BY TiersStep, NextTierInv
<1> QED
  BY <1>1, <1>2, PTL DEF StoreSpec

\* Tiered placement (store/mod.rs): the last value of a key is in exactly one place,
\* a promoted key stays in memory until its command ran, memory is back under the
\* limit when nobody is inside, and the fast read path answers the last value.
THEOREM TiersAlwaysSound == StoreSpec => TiersSound
<1>1. TierInv => Tiers!OnePlace
  BY DEF TierInv
<1>2. TierInv => Tiers!StaysPromoted
  BY DEF TierInv, CommandKeyInv, PlaceInv, Tiers!OnePlace, Tiers!StaysPromoted
<1>3. TierInv => Tiers!CeilingRestored
  BY DEF TierInv, BoundaryInv, Past, CeilingInv, Tiers!CeilingRestored
<1>4. TierInv =>
        (part = "tiers" => Tiers!OnePlace /\ Tiers!StaysPromoted /\ Tiers!CeilingRestored)
  BY <1>1, <1>2, <1>3
<1>5. TierInv /\ [StoreNext]_storeVars => [AnsweredLatest]_(Tiers!vars)
  BY TiersStep, NextAnswersLatest DEF TierInv
<1>6. StoreSpec => [][AnsweredLatest]_(Tiers!vars)
  BY <1>5, TierInvariant, PTL DEF StoreSpec
<1>7. [][AnsweredLatest]_(Tiers!vars) => Tiers!FastReadsLatest
  BY PTL DEF Tiers!FastReadsLatest, AnsweredLatest
<1> QED
  BY <1>4, <1>6, <1>7, TierInvariant, PTL DEF TiersSound

-----------------------------------------------------------------------------
(* Memory-mode eviction: the invariant                                     *)

EvValue == [ids : SUBSET Nat, vol : BOOLEAN]
EvFrame == [op : {"DEL", "resolved", "generic"}, key : MemKey, id : Nat, vol : BOOLEAN]
EvAt == {"idle", "gate", "append", "apply", "done", "evict", "victim", "del", "remove"}
EvCmd ==
  [surface : {"plain", "exec", "nobody"}, strategy : {"generic", "resolved", "nobody"},
   key : MemKey \cup {"nobody"}, vol : BOOLEAN, id : Nat, at : Nat,
   victim : MemKey \cup {"nobody"}, tries : Nat, todo : Int]

EvTyped ==
  /\ evictMem \in [MemKey -> EvValue] /\ evictJournal \in Seq(EvFrame) /\ buf \in Seq(EvFrame)
  /\ wal \in Thread \cup {"nobody"} /\ evictGate \in [MemKey -> Thread \cup {"nobody"}]
  /\ inside \subseteq Thread /\ exec \in Thread \cup {"nobody"}
  /\ evictPc \in [Thread -> EvAt] /\ evictCmd \in [Thread -> EvCmd]
  /\ evictId \in Nat \ {0} /\ \A k \in MemKey : evictMem[k].ids \subseteq 1..(evictId - 1)

\* A command knows its key, and the key it evicts, which is no key of a table; EXEC runs
\* resolved commands only; whoever is at work has joined the execution gate.
Resolved(t) == evictCmd[t].strategy = "resolved"
CommandOK(t) ==
  /\ evictPc[t] # "idle" => /\ evictCmd[t].key \in MemKey
                            /\ evictCmd[t].strategy \in {"generic", "resolved"}
                            /\ evictCmd[t].id \in 1..(evictId - 1)
  /\ exec = t => Resolved(t)
  /\ evictPc[t] \in {"victim", "del", "remove"} => evictCmd[t].victim \in MemKey \ Protected
  /\ evictPc[t] = "remove" => Resolved(t)
  /\ evictPc[t] = "idle" <=> t \notin inside /\ exec # t
ExecInv == (exec # "nobody" => inside = {}) /\ (exec = "nobody" => buf = <<>>)

\* The locks of a command, and who holds them.
KeepsJournal(t) ==
  evictCmd[t].strategy = "generic" /\ evictPc[t] \in {"evict", "victim", "del", "apply"}
Owns(t, k) ==
  \/ /\ k = evictCmd[t].key
     /\ evictPc[t] \in {"append", "apply"} \/ KeepsJournal(t)
  \/ k = evictCmd[t].victim /\ evictPc[t] \in {"del", "remove"}
LocksOK(t) ==
  /\ wal = t <=> KeepsJournal(t)
  /\ \A k \in MemKey : evictGate[k] = t <=> Owns(t, k)

\* What recovery rebuilds, what EXEC is about to append included.
Rebuilt == Evictions!Replayed(evictJournal \o buf)

\* A key without an owner is in memory what the journal rebuilds; the owner of a key
\* knows by what the two differ.
KeyOK(k) == evictGate[k] = "nobody" => Rebuilt[k] = evictMem[k]
MatchOK(t) ==
  LET k == evictCmd[t].key
      v == evictCmd[t].victim
  IN
  /\ evictPc[t] = "append" => Rebuilt[k] = evictMem[k]
  /\ evictPc[t] = "apply" /\ Resolved(t) =>
       Rebuilt[k] = Evictions!Effect(evictMem[k], Evictions!Frame(t))
  /\ evictPc[t] = "del" /\ Resolved(t) => Rebuilt[v] = evictMem[v]
  /\ evictPc[t] = "remove" => Rebuilt[v] = Evictions!Absent

\* The frame of a command that may take it back is the last, and without it the journal
\* rebuilds what is in memory.
LastOK(t) ==
  KeepsJournal(t) =>
    /\ Len(evictJournal) = evictCmd[t].at + 1 /\ buf = <<>>
    /\ evictJournal[Len(evictJournal)] = Evictions!Frame(t)
    /\ Evictions!Replayed(Evictions!FrameRemoved(t))[evictCmd[t].key] = evictMem[evictCmd[t].key]

\* Threads that found memory under the limit and have not written yet.
Ready ==
  {t \in Thread : evictPc[t] = "apply" \/ (Resolved(t) /\ evictPc[t] \in {"gate", "append"})}
BoundInv == Cardinality(Evictions!Present) + Cardinality(Ready) <= MaxMem + Cardinality(Thread)

ThreadOK(t) == CommandOK(t) /\ LocksOK(t) /\ MatchOK(t) /\ LastOK(t)
EvInv ==
  /\ EvTyped /\ ExecInv /\ BoundInv
  /\ \A t \in Thread : ThreadOK(t)
  /\ \A k \in MemKey : KeyOK(k)

-----------------------------------------------------------------------------
(* What a journal rebuilds                                                 *)

\* f holds what the first n frames rebuild, for every n up to m.
RunUpTo(frames, m, f) ==
  f = [n \in 0..m |->
         IF n = 0 THEN [k \in MemKey |-> Evictions!Absent]
         ELSE [f[n - 1] EXCEPT ![frames[n].key] = Evictions!Effect(@, frames[n])]]

\* There is such a function: the least m without one has a predecessor, whose function
\* extends to it.
LEMMA RunExists ==
  ASSUME NEW frames, NEW m \in Nat
  PROVE  \E f : RunUpTo(frames, m, f)
<1> DEFINE T == {n \in Nat : ~\E f : RunUpTo(frames, n, f)}
<1>1. SUFFICES ASSUME T # {} PROVE FALSE
  OBVIOUS
<1>2. PICK n \in T : \A j \in T : n <= j
  BY <1>1, LeastNumber
<1> DEFINE none == [k \in MemKey |-> Evictions!Absent]
           After(g, j) == [g EXCEPT ![frames[j].key] = Evictions!Effect(@, frames[j])]
<1>3. CASE n = 0
  <2> DEFINE f == [j \in 0..0 |-> none]
  <2> HIDE DEF none
  <2>1. f = [j \in 0..0 |-> IF j = 0 THEN none ELSE After(f[j - 1], j)]
    OBVIOUS
  <2>2. RunUpTo(frames, 0, f)
    BY <2>1 DEF RunUpTo, none
  <2> QED
    BY <1>2, <1>3, <2>2
<1>4. CASE n # 0
  <2>1. n - 1 \in Nat /\ n - 1 \notin T
    BY <1>2, <1>4
  <2>2. PICK f : RunUpTo(frames, n - 1, f)
    BY <2>1
  <2> DEFINE g == [j \in 0..n |-> IF j = n THEN After(f[n - 1], n) ELSE f[j]]
  <2>3. f = [j \in 0..(n - 1) |-> IF j = 0 THEN none ELSE After(f[j - 1], j)]
    BY <2>2 DEF RunUpTo
  <2> HIDE DEF After, none
  <2>4. \A j \in 0..(n - 1) : g[j] = f[j]
    BY <2>1
  <2>5. \A j \in 0..n : g[j] = IF j = 0 THEN none ELSE After(g[j - 1], j)
    <3>1. SUFFICES ASSUME NEW j \in 0..n
                   PROVE  g[j] = IF j = 0 THEN none ELSE After(g[j - 1], j)
      OBVIOUS
    <3>2. CASE j = n
      <4>1. g[n - 1] = f[n - 1] /\ g[n] = After(f[n - 1], n)
        BY <2>1, <2>4
      <4> HIDE DEF g
      <4> QED
        BY <1>4, <3>2, <4>1
    <3>3. CASE j # n
      <4>1. j \in 0..(n - 1) /\ g[j] = f[j]
        BY <3>3, <2>1, <2>4
      <4>2. f[j] = IF j = 0 THEN none ELSE After(f[j - 1], j)
        BY <2>3, <4>1
      <4>3. j # 0 => j - 1 \in 0..(n - 1)
        BY <4>1, <2>1
      <4> HIDE DEF g
      <4> QED
        BY <4>1, <4>2, <4>3, <2>4
    <3> QED
      BY <3>2, <3>3
  <2>6. DOMAIN g = 0..n /\ g = [j \in 0..n |-> g[j]]
    OBVIOUS
  <2> HIDE DEF g
  <2>7. g = [j \in 0..n |-> IF j = 0 THEN none ELSE After(g[j - 1], j)]
    BY <2>5, <2>6
  <2>8. RunUpTo(frames, n, g)
    BY <2>7 DEF RunUpTo, After, none
  <2> QED
    BY <1>2, <2>8
<1> QED
  BY <1>3, <1>4

\* What a run holds at the start and after a frame, and what recovery takes of it.
LEMMA RunSteps ==
  ASSUME NEW frames \in Seq(EvFrame)
  PROVE  \E f : /\ Evictions!Replayed(frames) = f[Len(frames)]
                /\ f[0] = [k \in MemKey |-> Evictions!Absent]
                /\ \A n \in 1..Len(frames) :
                     f[n] = [f[n - 1] EXCEPT ![frames[n].key] = Evictions!Effect(@, frames[n])]
<1> DEFINE f == CHOOSE g : RunUpTo(frames, Len(frames), g)
<1>0. Len(frames) \in Nat
  OBVIOUS
<1>1. RunUpTo(frames, Len(frames), f)
  BY <1>0, RunExists
<1>2. Evictions!Replayed(frames) = f[Len(frames)]
  BY DEF Evictions!Replayed, RunUpTo
<1> HIDE DEF f
<1>3. \A n \in 0..Len(frames) :
        f[n] = IF n = 0 THEN [k \in MemKey |-> Evictions!Absent]
               ELSE [f[n - 1] EXCEPT ![frames[n].key] = Evictions!Effect(@, frames[n])]
  BY <1>1 DEF RunUpTo
<1>4. f[0] = [k \in MemKey |-> Evictions!Absent]
  <2>1. 0 \in 0..Len(frames)
    BY <1>0
  <2> QED
    BY <1>3, <2>1, Zenon
<1>5. ASSUME NEW n \in 1..Len(frames)
      PROVE  f[n] = [f[n - 1] EXCEPT ![frames[n].key] = Evictions!Effect(@, frames[n])]
  <2>1. n \in 0..Len(frames) /\ n # 0
    BY <1>0
  <2> QED
    BY <1>3, <2>1
<1> QED
  BY <1>2, <1>4, <1>5

\* The value a frame makes.
LEMMA EffectValue ==
  ASSUME NEW v \in EvValue, NEW f \in EvFrame
  PROVE  /\ Evictions!Effect(v, f) \in EvValue
         /\ f.op = "DEL" => Evictions!Effect(v, f) = Evictions!Absent
         /\ f.op # "DEL" => Evictions!Effect(v, f) # Evictions!Absent
<1>1. CASE f.op = "DEL"
  BY <1>1 DEF Evictions!Effect, Evictions!Absent, EvValue
<1>2. CASE f.op = "resolved"
  <2>1. Evictions!Effect(v, f) = [ids |-> {f.id}, vol |-> f.vol]
    BY <1>2 DEF Evictions!Effect
  <2> QED
    BY <1>2, <2>1 DEF Evictions!Absent, EvValue, EvFrame
<1>3. CASE f.op = "generic"
  <2>1. Evictions!Effect(v, f) = [v EXCEPT !.ids = @ \cup {f.id}]
    BY <1>3 DEF Evictions!Effect
  <2>2. Evictions!Effect(v, f) \in EvValue
    BY <2>1 DEF EvValue, EvFrame
  <2>3. f.id \in Evictions!Effect(v, f).ids
    BY <2>1 DEF EvValue
  <2> QED
    BY <1>3, <2>2, <2>3 DEF Evictions!Absent
<1> QED
  BY <1>1, <1>2, <1>3 DEF EvFrame

\* Recovery rebuilds values.
LEMMA ReplayTyped ==
  ASSUME NEW frames \in Seq(EvFrame)
  PROVE  Evictions!Replayed(frames) \in [MemKey -> EvValue]
<1>1. PICK f : /\ Evictions!Replayed(frames) = f[Len(frames)]
               /\ f[0] = [k \in MemKey |-> Evictions!Absent]
               /\ \A n \in 1..Len(frames) :
                    f[n] = [f[n - 1] EXCEPT ![frames[n].key] = Evictions!Effect(@, frames[n])]
  BY RunSteps
<1> DEFINE T == {n \in 0..Len(frames) : f[n] \notin [MemKey -> EvValue]}
<1>2. SUFFICES ASSUME T # {} PROVE FALSE
  BY <1>1
<1>3. PICK n \in T : \A j \in T : n <= j
  <2>1. T \in SUBSET Nat
    OBVIOUS
  <2> QED
    BY <1>2, <2>1, LeastNumber
<1>4. f[0] \in [MemKey -> EvValue]
  BY <1>1 DEF Evictions!Absent, EvValue
<1>5. n # 0
  BY <1>3, <1>4
<1>6. n \in 1..Len(frames) /\ n - 1 \in 0..Len(frames) /\ n - 1 \notin T
  BY <1>3, <1>5
<1>7. f[n - 1] \in [MemKey -> EvValue] /\ frames[n] \in EvFrame
  BY <1>6
<1>8. frames[n].key \in MemKey
  BY <1>7 DEF EvFrame
<1>9. Evictions!Effect(f[n - 1][frames[n].key], frames[n]) \in EvValue
  BY <1>7, <1>8, EffectValue
<1>10. f[n] \in [MemKey -> EvValue]
  <2>1. f[n] = [f[n - 1] EXCEPT ![frames[n].key] = Evictions!Effect(@, frames[n])]
    BY <1>1, <1>6, Zenon
  <2> QED
    BY <2>1, <1>7, <1>8, <1>9
<1> QED
  BY <1>3, <1>10

\* One frame more.
LEMMA ReplayAppend ==
  ASSUME NEW frames \in Seq(EvFrame), NEW x \in EvFrame
  PROVE  Evictions!Replayed(Append(frames, x)) =
           [Evictions!Replayed(frames) EXCEPT ![x.key] = Evictions!Effect(@, x)]
<1> DEFINE more == Append(frames, x)
<1>1. /\ more \in Seq(EvFrame) /\ Len(more) = Len(frames) + 1 /\ more[Len(frames) + 1] = x
      /\ Len(frames) \in Nat /\ \A n \in 1..Len(frames) : more[n] = frames[n]
  OBVIOUS
<1> HIDE DEF more
<1>2. PICK f : /\ Evictions!Replayed(frames) = f[Len(frames)]
               /\ f[0] = [k \in MemKey |-> Evictions!Absent]
               /\ \A n \in 1..Len(frames) :
                    f[n] = [f[n - 1] EXCEPT ![frames[n].key] = Evictions!Effect(@, frames[n])]
  BY RunSteps
<1>3. PICK g : /\ Evictions!Replayed(more) = g[Len(more)]
               /\ g[0] = [k \in MemKey |-> Evictions!Absent]
               /\ \A n \in 1..Len(more) :
                    g[n] = [g[n - 1] EXCEPT ![more[n].key] = Evictions!Effect(@, more[n])]
  BY <1>1, RunSteps
<1>4. g[Len(frames)] = f[Len(frames)]
  <2> DEFINE T == {n \in 0..Len(frames) : g[n] # f[n]}
  <2>1. SUFFICES ASSUME T # {} PROVE FALSE
    BY <1>1
  <2>2. PICK n \in T : \A j \in T : n <= j
    <3>1. T \in SUBSET Nat
      OBVIOUS
    <3> QED
      BY <2>1, <3>1, LeastNumber
  <2>3. n # 0
    BY <1>2, <1>3, <2>2
  <2>4. /\ n \in 1..Len(frames) /\ n \in 1..Len(more) /\ n - 1 \in 0..Len(frames)
        /\ n - 1 \notin T
    BY <1>1, <2>2, <2>3
  <2>5. g[n - 1] = f[n - 1] /\ more[n] = frames[n]
    BY <1>1, <2>4
  <2>6. g[n] = f[n]
    <3>1. f[n] = [f[n - 1] EXCEPT ![frames[n].key] = Evictions!Effect(@, frames[n])]
      BY <1>2, <2>4, Zenon
    <3>2. g[n] = [g[n - 1] EXCEPT ![more[n].key] = Evictions!Effect(@, more[n])]
      BY <1>3, <2>4, Zenon
    <3> QED
      BY <2>5, <3>1, <3>2, Zenon
  <2> QED
    BY <2>2, <2>6
<1>5. Len(more) \in 1..Len(more) /\ Len(more) - 1 = Len(frames) /\ more[Len(more)] = x
  BY <1>1
<1>6. g[Len(more)] = [g[Len(frames)] EXCEPT ![x.key] = Evictions!Effect(@, x)]
  BY <1>3, <1>5
<1> QED
  BY <1>2, <1>3, <1>4, <1>6 DEF more

-----------------------------------------------------------------------------
(* What the steps share                                                    *)

\* The command and the frames of a thread have their types.
LEMMA Frames ==
  ASSUME EvTyped, NEW t \in Thread
  PROVE  /\ evictCmd[t] \in EvCmd /\ evictCmd[t].at \in Nat /\ evictCmd[t].tries \in Nat
         /\ evictCmd[t].todo \in Int /\ evictCmd[t].vol \in BOOLEAN /\ evictCmd[t].id \in Nat
         /\ Evictions!Frame(t).key = evictCmd[t].key
         /\ Evictions!Frame(t).op = evictCmd[t].strategy
         /\ Evictions!Frame(t).id = evictCmd[t].id
         /\ (/\ CommandOK(t)
             /\ evictPc[t] # "idle") => Evictions!Frame(t) \in EvFrame
         /\ \A k \in MemKey : /\ Evictions!DelFrame(k) \in EvFrame
                              /\ Evictions!DelFrame(k).key = k
                              /\ Evictions!DelFrame(k).op = "DEL"
<1>1. /\ evictCmd[t] \in EvCmd /\ evictCmd[t].at \in Nat /\ evictCmd[t].tries \in Nat
      /\ evictCmd[t].todo \in Int /\ evictCmd[t].vol \in BOOLEAN /\ evictCmd[t].id \in Nat
  BY DEF EvTyped, EvCmd
<1>2. (/\ CommandOK(t)
       /\ evictPc[t] # "idle") => Evictions!Frame(t) \in EvFrame
  BY <1>1 DEF Evictions!Frame, CommandOK, EvFrame
<1>3. \A k \in MemKey : Evictions!DelFrame(k) \in EvFrame
  BY DEF Evictions!DelFrame, EvFrame
<1> QED
  BY <1>1, <1>2, <1>3 DEF Evictions!Frame, Evictions!DelFrame

\* A frame is logged: in the journal, or in the buffer of EXEC.
Logs(f) ==
  \/ evictJournal' = Append(evictJournal, f) /\ buf = <<>> /\ buf' = buf
  \/ evictJournal' = evictJournal /\ buf' = Append(buf, f)

\* It changes what recovery rebuilds of its key, and of no other.
LEMMA Logged ==
  ASSUME EvTyped, NEW f \in EvFrame, Logs(f)
  PROVE  /\ \A k \in MemKey :
              Rebuilt'[k] = IF k = f.key THEN Evictions!Effect(Rebuilt[k], f) ELSE Rebuilt[k]
         /\ evictJournal' \in Seq(EvFrame) /\ buf' \in Seq(EvFrame)
<1>1. evictJournal \in Seq(EvFrame) /\ buf \in Seq(EvFrame)
  BY DEF EvTyped
<1>2. evictJournal \o buf \in Seq(EvFrame)
  BY <1>1
<1>3. evictJournal' \o buf' = Append(evictJournal \o buf, f)
  <2>1. CASE evictJournal' = Append(evictJournal, f) /\ buf = <<>> /\ buf' = buf
    BY <1>1, <2>1
  <2>2. CASE evictJournal' = evictJournal /\ buf' = Append(buf, f)
    BY <1>1, <2>2
  <2> QED
    BY <2>1, <2>2 DEF Logs
<1>4. Rebuilt' = [Rebuilt EXCEPT ![f.key] = Evictions!Effect(@, f)]
  BY <1>2, <1>3, ReplayAppend DEF Rebuilt
<1>5. Rebuilt \in [MemKey -> EvValue]
  BY <1>2, ReplayTyped DEF Rebuilt
<1>6. evictJournal' \in Seq(EvFrame) /\ buf' \in Seq(EvFrame)
  <2>1. Append(evictJournal, f) \in Seq(EvFrame) /\ Append(buf, f) \in Seq(EvFrame)
    BY <1>1
  <2> QED
    BY <1>1, <2>1 DEF Logs
<1> QED
  BY <1>4, <1>5, <1>6

\* The frame of a command that keeps the journal locked, and the journal without it.
LEMMA Undone ==
  ASSUME EvTyped, NEW t \in Thread, ThreadOK(t), KeepsJournal(t)
  PROVE  /\ Evictions!FrameRemoved(t) \in Seq(EvFrame) /\ buf = <<>>
         /\ Rebuilt[evictCmd[t].key] =
              Evictions!Effect(evictMem[evictCmd[t].key], Evictions!Frame(t))
         /\ Evictions!Replayed(Evictions!FrameRemoved(t))[evictCmd[t].key] =
              evictMem[evictCmd[t].key]
         /\ \A k \in MemKey \ {evictCmd[t].key} :
              Evictions!Replayed(Evictions!FrameRemoved(t))[k] = Rebuilt[k]
<1> DEFINE less == Evictions!FrameRemoved(t)
<1>1. /\ evictJournal \in Seq(EvFrame) /\ evictCmd[t].at \in Nat
      /\ Evictions!Frame(t) \in EvFrame /\ Evictions!Frame(t).key = evictCmd[t].key
      /\ evictCmd[t].key \in MemKey
  BY Frames DEF EvTyped, KeepsJournal, ThreadOK, CommandOK
<1>2. /\ Len(evictJournal) = evictCmd[t].at + 1 /\ buf = <<>>
      /\ evictJournal[Len(evictJournal)] = Evictions!Frame(t)
      /\ Evictions!Replayed(less)[evictCmd[t].key] = evictMem[evictCmd[t].key]
  BY DEF ThreadOK, LastOK
<1>3. less = SubSeq(evictJournal, 1, evictCmd[t].at)
  BY DEF Evictions!FrameRemoved
<1> HIDE DEF less
<1>4. less \in Seq(EvFrame)
  BY <1>1, <1>2, <1>3
<1>5. evictJournal \o buf = Append(less, Evictions!Frame(t))
  <2>1. evictJournal \o buf = evictJournal
    BY <1>1, <1>2
  <2>2. Len(Append(less, Evictions!Frame(t))) = Len(evictJournal)
    BY <1>1, <1>2, <1>3
  <2>3. ASSUME NEW i \in 1..Len(evictJournal)
        PROVE  evictJournal[i] = Append(less, Evictions!Frame(t))[i]
    BY <1>1, <1>2, <1>3, <1>4
  <2>4. /\ evictJournal \in Seq(EvFrame) /\ Append(less, Evictions!Frame(t)) \in Seq(EvFrame)
    BY <1>1, <1>4
  <2> QED
    BY <2>1, <2>2, <2>3, <2>4, SeqEqual
<1>6. Rebuilt = [Evictions!Replayed(less) EXCEPT ![evictCmd[t].key] =
                   Evictions!Effect(@, Evictions!Frame(t))]
  BY <1>1, <1>4, <1>5, ReplayAppend DEF Rebuilt
<1>7. Evictions!Replayed(less) \in [MemKey -> EvValue]
  BY <1>4, ReplayTyped
<1> QED
  BY <1>1, <1>2, <1>4, <1>6, <1>7 DEF less

\* EXEC runs alone, so the journal is free.
LEMMA ExecAlone ==
  ASSUME EvInv, exec # "nobody"
  PROVE  wal = "nobody"
<1>1. exec \in Thread /\ inside = {} /\ wal \in Thread \cup {"nobody"}
  BY DEF EvInv, EvTyped, ExecInv
<1>2. SUFFICES ASSUME wal \in Thread PROVE FALSE
  BY <1>1
<1>3. KeepsJournal(wal) /\ CommandOK(wal)
  BY <1>2 DEF EvInv, ThreadOK, LocksOK
<1> QED
  BY <1>1, <1>3 DEF KeepsJournal, CommandOK, Resolved

\* What a step of t leaves to thread u: its command, its locks, and the keys it owns.
Leaves(u) ==
  /\ evictPc'[u] = evictPc[u] /\ evictCmd'[u] = evictCmd[u]
  /\ (exec' = u) = (exec = u) /\ (u \in inside') = (u \in inside)
  /\ (wal' = u) = (wal = u)
  /\ \A k \in MemKey : (evictGate'[k] = u) = (evictGate[k] = u)
  /\ \A k \in MemKey : evictGate[k] = u => Rebuilt'[k] = Rebuilt[k] /\ evictMem'[k] = evictMem[k]
  /\ wal = u => evictJournal' = evictJournal /\ buf' = buf

\* Then the invariant of u is left alone, too.
LEMMA Others ==
  ASSUME NEW u \in Thread, ThreadOK(u), Leaves(u), evictId \in Nat, evictId' \in Nat,
         evictId' >= evictId
  PROVE  ThreadOK(u)'
<1>1. CommandOK(u)'
  BY DEF ThreadOK, CommandOK, Leaves, Resolved
<1>2. LocksOK(u)'
  BY DEF ThreadOK, LocksOK, Leaves, KeepsJournal, Owns
<1>3. /\ evictPc[u] \in {"append", "apply"} \/ KeepsJournal(u) => evictGate[evictCmd[u].key] = u
      /\ evictPc[u] \in {"del", "remove"} => evictGate[evictCmd[u].victim] = u
  BY DEF ThreadOK, LocksOK, CommandOK, Owns, KeepsJournal
<1>4. /\ evictPc[u] \in {"append", "apply"} \/ KeepsJournal(u) =>
           /\ Rebuilt'[evictCmd[u].key] = Rebuilt[evictCmd[u].key]
           /\ evictMem'[evictCmd[u].key] = evictMem[evictCmd[u].key]
      /\ evictPc[u] \in {"del", "remove"} =>
           /\ Rebuilt'[evictCmd[u].victim] = Rebuilt[evictCmd[u].victim]
           /\ evictMem'[evictCmd[u].victim] = evictMem[evictCmd[u].victim]
  BY <1>3 DEF Leaves, ThreadOK, CommandOK, KeepsJournal
<1>5. Evictions!Frame(u)' = Evictions!Frame(u)
  BY DEF Leaves, Evictions!Frame
<1>6. MatchOK(u)'
  BY <1>4, <1>5 DEF MatchOK, ThreadOK, Leaves, Resolved
<1>7. LastOK(u)'
  <2>1. SUFFICES ASSUME KeepsJournal(u)' PROVE LastOK(u)'
    BY DEF LastOK
  <2>2. KeepsJournal(u) /\ wal = u
    BY <2>1 DEF KeepsJournal, Leaves, ThreadOK, LocksOK
  <2>3. evictJournal' = evictJournal /\ buf' = buf /\ evictCmd'[u] = evictCmd[u]
    BY <2>2 DEF Leaves
  <2>4. Evictions!FrameRemoved(u)' = Evictions!FrameRemoved(u)
    BY <2>3 DEF Evictions!FrameRemoved
  <2>5. evictMem'[evictCmd[u].key] = evictMem[evictCmd[u].key]
    BY <2>2, <1>4
  <2> QED
    BY <2>2, <2>3, <2>4, <2>5, <1>5 DEF LastOK, ThreadOK
<1> QED
  BY <1>1, <1>2, <1>6, <1>7 DEF ThreadOK

\* The sets that are counted are finite.
LEMMA FiniteCounts ==
  ASSUME NEW P, P \subseteq MemKey, NEW R, R \subseteq Thread
  PROVE  /\ IsFiniteSet(P) /\ IsFiniteSet(R)
         /\ Cardinality(P) \in Nat /\ Cardinality(R) \in Nat
         /\ Cardinality(R) <= Cardinality(Thread) /\ Cardinality(Thread) \in Nat
  BY EvictionAssumption, FS_Subset, FS_CardinalityType

\* A step that brings no key into memory, and no thread closer to a write.
LEMMA BoundKept ==
  ASSUME BoundInv, Evictions!Present' \subseteq Evictions!Present, Ready' \subseteq Ready
  PROVE  BoundInv'
<1>1. /\ Evictions!Present \subseteq MemKey /\ Ready \subseteq Thread
      /\ Evictions!Present' \subseteq MemKey /\ Ready' \subseteq Thread
  BY DEF Evictions!Present, Ready
<1>2. /\ IsFiniteSet(Evictions!Present) /\ IsFiniteSet(Ready)
      /\ Cardinality(Evictions!Present) \in Nat /\ Cardinality(Ready) \in Nat
      /\ Cardinality(Evictions!Present') \in Nat /\ Cardinality(Ready') \in Nat
      /\ Cardinality(Thread) \in Nat
  BY <1>1, FiniteCounts
<1>3. Cardinality(Evictions!Present') <= Cardinality(Evictions!Present)
  BY <1>2, FS_Subset
<1>4. Cardinality(Ready') <= Cardinality(Ready)
  BY <1>2, FS_Subset
<1> QED
  BY <1>2, <1>3, <1>4, EvictionAssumption DEF BoundInv

\* A step of t keeps the invariant when it leaves the others alone and restores the rest.
LEMMA StepKeeps ==
  ASSUME EvInv, NEW t \in Thread, \A u \in Thread \ {t} : Leaves(u), evictId' >= evictId,
         EvTyped', ExecInv', ThreadOK(t)', \A k \in MemKey : KeyOK(k)',
         \/ BoundInv'
         \/ Evictions!Present' \subseteq Evictions!Present /\ (t \in Ready' => t \in Ready)
  PROVE  EvInv'
<1>1. evictId \in Nat /\ evictId' \in Nat
  BY DEF EvInv, EvTyped
<1>2. \A u \in Thread \ {t} : ThreadOK(u)'
  BY <1>1, Others DEF EvInv
<1>3. BoundInv'
  <2>1. CASE Evictions!Present' \subseteq Evictions!Present /\ (t \in Ready' => t \in Ready)
    <3>1. \A u \in Thread \ {t} : evictPc'[u] = evictPc[u] /\ evictCmd'[u] = evictCmd[u]
      BY DEF Leaves
    <3>2. Ready' \subseteq Ready
      BY <2>1, <3>1 DEF Ready, Resolved
    <3> QED
      BY <2>1, <3>2, BoundKept DEF EvInv
  <2> QED
    BY <2>1
<1> QED
  BY <1>2, <1>3 DEF EvInv

\* What does not change when the journal, the buffer and memory do not.
LEMMA Unwritten ==
  ASSUME evictJournal' = evictJournal, buf' = buf
  PROVE  /\ Rebuilt' = Rebuilt
         /\ evictMem' = evictMem => Evictions!Present' = Evictions!Present
  BY DEF Rebuilt, Evictions!Present

\* What a thread that is at a label holds.
LEMMA Holding ==
  ASSUME EvInv, NEW t \in Thread
  PROVE  /\ t # "nobody" /\ ThreadOK(t) /\ CommandOK(t) /\ (wal = t <=> KeepsJournal(t))
         /\ \A k \in MemKey : evictGate[k] = t <=> Owns(t, k)
         /\ evictPc[t] # "idle" =>
              /\ evictCmd[t].key \in MemKey
              /\ evictCmd[t].strategy = "generic" <=> ~Resolved(t)
              /\ evictCmd[t].id \in 1..(evictId - 1)
  BY ThreadAssumption DEF EvInv, ThreadOK, LocksOK, CommandOK, Resolved, Tiers!Nobody

-----------------------------------------------------------------------------
(* The steps of a command                                                  *)

\* Start.
LEMMA StartKeeps ==
  ASSUME EvInv, NEW t \in Thread, NEW s, NEW g, <<s, g>> \in SafeKinds, NEW k \in MemKey,
         NEW v \in BOOLEAN, NEW n \in Int, Evictions!Start(t, s, g, k, v, n)
  PROVE  EvInv'
<1> DEFINE c == [Evictions!NoCmd EXCEPT !.surface = s, !.strategy = g, !.key = k, !.vol = v,
                                        !.id = evictId, !.todo = n]
<1>1. /\ evictPc[t] = "idle" /\ exec = "nobody" /\ evictCmd' = [evictCmd EXCEPT ![t] = c]
      /\ evictPc' = [evictPc EXCEPT ![t] = Evictions!FirstStep(g)] /\ evictId' = evictId + 1
      /\ UNCHANGED <<evictMem, evictJournal, wal, evictGate, buf>>
      /\ \/ s = "exec" /\ inside = {} /\ exec' = t /\ inside' = inside
         \/ s # "exec" /\ inside' = inside \cup {t} /\ exec' = exec
  BY DEF Evictions!Start, Evictions!Goto, Evictions!Nobody
<1>2. /\ s \in {"plain", "exec"} /\ g \in {"generic", "resolved"} /\ (s = "exec" => g = "resolved")
  BY DEF SafeKinds
<1>3. EvTyped
  BY DEF EvInv
<1>4. /\ c \in EvCmd /\ c.key = k /\ c.strategy = g /\ c.id = evictId
  BY <1>2, <1>3 DEF Evictions!NoCmd, Evictions!Nobody, EvCmd, EvTyped
<1> HIDE DEF c
<1>5. Evictions!FirstStep(g) = IF g = "generic" THEN "gate" ELSE "evict"
  BY DEF Evictions!FirstStep
<1>6. /\ evictPc'[t] = Evictions!FirstStep(g) /\ evictCmd'[t] = c
      /\ \A u \in Thread \ {t} : evictPc'[u] = evictPc[u] /\ evictCmd'[u] = evictCmd[u]
  BY <1>1, <1>3 DEF EvTyped
<1>7. Rebuilt' = Rebuilt /\ Evictions!Present' = Evictions!Present
  BY <1>1, Unwritten
<1>8. EvTyped'
  <2>1. 1..(evictId - 1) \subseteq 1..(evictId' - 1) /\ evictId' \in Nat \ {0}
    BY <1>1, <1>3 DEF EvTyped
  <2>2. \A j \in MemKey : evictMem'[j].ids \subseteq 1..(evictId' - 1)
    BY <1>1, <1>3, <2>1 DEF EvTyped
  <2>3. evictPc' \in [Thread -> EvAt] /\ evictCmd' \in [Thread -> EvCmd]
    BY <1>1, <1>3, <1>4, <1>5 DEF EvTyped, EvAt
  <2> QED
    BY <1>1, <1>3, <2>1, <2>2, <2>3 DEF EvTyped
<1>9. ExecInv'
  BY <1>1, Holding DEF ExecInv, EvInv
<1>10. t \notin inside /\ wal # t /\ \A j \in MemKey : evictGate[j] # t
  BY <1>1, Holding DEF CommandOK, KeepsJournal, Owns
<1>11. ThreadOK(t)'
  <2>1. CommandOK(t)'
    <3>1. evictId \in 1..(evictId' - 1)
      BY <1>1, <1>3 DEF EvTyped
    <3>2. evictPc'[t] = "idle" <=> t \notin inside' /\ exec' # t
      BY <1>1, <1>5, <1>6
    <3>3. exec' = t => evictCmd'[t].strategy = "resolved"
      BY <1>1, <1>2, <1>4, <1>6, <1>10, ThreadAssumption DEF Tiers!Nobody
    <3>4. evictPc'[t] \notin {"victim", "del", "remove"}
      BY <1>5, <1>6
    <3>5. evictCmd'[t].key \in MemKey /\ evictCmd'[t].strategy \in {"generic", "resolved"}
      BY <1>2, <1>4, <1>6
    <3>6. evictCmd'[t].id \in 1..(evictId' - 1)
      BY <1>4, <1>6, <3>1
    <3> QED
      BY <3>2, <3>3, <3>4, <3>5, <3>6 DEF CommandOK, Resolved
  <2>2. LocksOK(t)'
    BY <1>1, <1>2, <1>4, <1>5, <1>6, <1>10 DEF LocksOK, KeepsJournal, Owns
  <2>3. MatchOK(t)' /\ LastOK(t)'
    BY <1>2, <1>4, <1>5, <1>6 DEF MatchOK, LastOK, KeepsJournal
  <2> QED
    BY <2>1, <2>2, <2>3 DEF ThreadOK
<1>12. \A u \in Thread \ {t} : Leaves(u)
  BY <1>1, <1>6, <1>7, <1>10, ThreadAssumption DEF Leaves, Tiers!Nobody
<1>13. \A j \in MemKey : KeyOK(j)'
  BY <1>1, <1>7 DEF EvInv, KeyOK
<1>14. t \notin Ready'
  BY <1>2, <1>4, <1>5, <1>6 DEF Ready, Resolved
<1>15. evictId' >= evictId
  BY <1>1, <1>3 DEF EvTyped
<1> QED
  BY <1>7, <1>8, <1>9, <1>11, <1>12, <1>13, <1>14, <1>15, StepKeeps

\* LockGate: the gate of the key, under which nothing differs yet.
LEMMA LockGateKeeps ==
  ASSUME EvInv, NEW t \in Thread, Evictions!LockGate(t)
  PROVE  EvInv'
<1> DEFINE k == evictCmd[t].key
<1>1. /\ evictPc[t] = "gate" /\ evictGate[k] = "nobody" /\ evictGate' = [evictGate EXCEPT ![k] = t]
      /\ evictPc' = [evictPc EXCEPT ![t] = "append"]
      /\ UNCHANGED <<evictMem, evictJournal, wal, inside, exec, buf, evictCmd, evictId>>
  BY DEF Evictions!LockGate, Evictions!Goto, Evictions!Nobody
<1>2. EvTyped /\ k \in MemKey
  BY <1>1, Holding DEF EvInv
<1>3. /\ evictPc'[t] = "append" /\ evictGate'[k] = t
      /\ \A u \in Thread \ {t} : evictPc'[u] = evictPc[u]
      /\ \A j \in MemKey \ {k} : evictGate'[j] = evictGate[j]
  BY <1>1, <1>2 DEF EvTyped
<1>4. Rebuilt' = Rebuilt /\ Evictions!Present' = Evictions!Present
  BY <1>1, Unwritten
<1>5. EvTyped'
  BY <1>1, <1>2 DEF EvTyped, EvAt
<1>6. ExecInv'
  BY <1>1 DEF ExecInv, EvInv
<1>7. wal # t /\ \A j \in MemKey : evictGate[j] # t
  BY <1>1, Holding DEF KeepsJournal, Owns
<1>8. ThreadOK(t)'
  <2>1. CommandOK(t)'
    BY <1>1, <1>3, Holding DEF CommandOK, Resolved
  <2>2. LocksOK(t)'
    BY <1>1, <1>2, <1>3, <1>7 DEF LocksOK, KeepsJournal, Owns
  <2>3. Rebuilt[k] = evictMem[k]
    BY <1>1, <1>2 DEF EvInv, KeyOK
  <2>4. MatchOK(t)' /\ LastOK(t)'
    BY <1>1, <1>3, <1>4, <2>3 DEF MatchOK, LastOK, KeepsJournal
  <2> QED
    BY <2>1, <2>2, <2>4 DEF ThreadOK
<1>9. \A u \in Thread \ {t} : Leaves(u)
  BY <1>1, <1>3, <1>4, ThreadAssumption DEF Leaves, Tiers!Nobody
<1>10. \A j \in MemKey : KeyOK(j)'
  BY <1>1, <1>3, <1>4, Holding DEF EvInv, KeyOK
<1>11. t \in Ready' => t \in Ready
  BY <1>1, <1>3 DEF Ready, Resolved
<1>12. evictId' >= evictId
  BY <1>1, <1>2 DEF EvTyped
<1> QED
  BY <1>4, <1>5, <1>6, <1>8, <1>9, <1>10, <1>11, <1>12, StepKeeps

\* AppendFrame: the frame of the command, by which the journal is now ahead of memory.
LEMMA AppendKeeps ==
  ASSUME EvInv, NEW t \in Thread, Evictions!AppendFrame(t)
  PROVE  EvInv'
<1> DEFINE k == evictCmd[t].key
           f == Evictions!Frame(t)
<1>1. /\ evictPc[t] = "append"
      /\ evictPc' = [evictPc EXCEPT ![t] = IF Evictions!Generic(t) THEN "evict" ELSE "apply"]
      /\ \/ /\ exec = t /\ buf' = Append(buf, f) /\ evictJournal' = evictJournal /\ wal' = wal
            /\ evictCmd' = [evictCmd EXCEPT ![t].at = Len(buf)]
         \/ /\ exec # t /\ wal = "nobody" /\ evictJournal' = Append(evictJournal, f) /\ buf' = buf
            /\ wal' = IF Evictions!Generic(t) THEN t ELSE "nobody"
            /\ evictCmd' = [evictCmd EXCEPT ![t].at = Len(evictJournal)]
      /\ UNCHANGED <<evictMem, evictGate, inside, exec, evictId>>
  BY DEF Evictions!AppendFrame, Evictions!Goto, Evictions!Nobody, Evictions!KeepsWal,
         Evictions!locks
<1>2. /\ EvTyped /\ k \in MemKey /\ f \in EvFrame /\ f.key = k /\ CommandOK(t)
      /\ Evictions!Generic(t) <=> ~Resolved(t)
      /\ f.op = evictCmd[t].strategy
  BY <1>1, Holding, Frames DEF EvInv, Evictions!Generic
<1>3. /\ evictCmd' \in [Thread -> EvCmd] /\ evictCmd'[t].key = k
      /\ evictCmd'[t].strategy = evictCmd[t].strategy /\ evictCmd'[t].victim = evictCmd[t].victim
      /\ evictCmd'[t].id = evictCmd[t].id /\ evictCmd'[t].vol = evictCmd[t].vol
      /\ \A u \in Thread \ {t} : evictCmd'[u] = evictCmd[u]
      /\ exec # t => evictCmd'[t].at = Len(evictJournal)
  <2>1. PICK a \in Nat : /\ evictCmd' = [evictCmd EXCEPT ![t] = [evictCmd[t] EXCEPT !.at = a]]
                         /\ exec # t => a = Len(evictJournal)
    <3>1. Len(buf) \in Nat /\ Len(evictJournal) \in Nat
      BY <1>2 DEF EvTyped
    <3> QED
      BY <1>1, <3>1
  <2> DEFINE d == [evictCmd[t] EXCEPT !.at = a]
  <2>2. evictCmd[t] \in EvCmd
    BY <1>2, Frames
  <2>3. /\ d \in EvCmd /\ d.key = k /\ d.strategy = evictCmd[t].strategy
        /\ d.victim = evictCmd[t].victim /\ d.id = evictCmd[t].id /\ d.vol = evictCmd[t].vol
        /\ d.at = a
    BY <2>2 DEF EvCmd
  <2> HIDE DEF d
  <2>4. evictCmd \in [Thread -> EvCmd] /\ evictCmd' = [evictCmd EXCEPT ![t] = d]
    BY <1>2, <2>1 DEF EvTyped, d
  <2> QED
    BY <2>1, <2>3, <2>4
<1>4. /\ evictPc'[t] = IF Resolved(t) THEN "apply" ELSE "evict"
      /\ \A u \in Thread \ {t} : evictPc'[u] = evictPc[u]
      /\ evictPc' \in [Thread -> EvAt]
  BY <1>1, <1>2 DEF EvTyped, EvAt
<1>5. Logs(f) /\ (exec = t => Resolved(t)) /\ Resolved(t)' = Resolved(t)
  BY <1>1, <1>2, <1>3, ThreadAssumption DEF Logs, EvInv, ExecInv, CommandOK, Resolved,
     Tiers!Nobody, EvTyped
<1>6. /\ \A j \in MemKey :
           Rebuilt'[j] = IF j = k THEN Evictions!Effect(Rebuilt[j], f) ELSE Rebuilt[j]
      /\ evictJournal' \in Seq(EvFrame) /\ buf' \in Seq(EvFrame)
  BY <1>2, <1>5, Logged
<1>7. Rebuilt[k] = evictMem[k] /\ evictGate[k] = t
  BY <1>1, <1>2, Holding DEF EvInv, ThreadOK, MatchOK, Owns
<1>8. (wal' = t) = ~Resolved(t) /\ (\A u \in Thread \ {t} : wal' = u <=> wal = u) /\ wal # t
  BY <1>1, <1>2, <1>5, Holding, ThreadAssumption DEF Tiers!Nobody, KeepsJournal
<1>9. EvTyped'
  <2>1. wal' \in Thread \cup {"nobody"}
    BY <1>1, <1>2 DEF EvTyped
  <2> QED
    BY <1>1, <1>2, <1>3, <1>4, <1>6, <2>1 DEF EvTyped
<1>10. ExecInv'
  BY <1>1, Holding DEF ExecInv, EvInv
<1>11. Evictions!Frame(t)' = f
  BY <1>3 DEF Evictions!Frame
<1>12. CommandOK(t)'
  BY <1>1, <1>2, <1>3, <1>4 DEF CommandOK, Resolved
<1>13. LocksOK(t)'
  <2>1. evictGate' = evictGate /\ \A j \in MemKey : evictGate[j] = t <=> j = k
    BY <1>1, Holding DEF Owns, KeepsJournal
  <2>2. KeepsJournal(t)' <=> ~Resolved(t)
    BY <1>1, <1>2, <1>3, <1>4, <1>5 DEF KeepsJournal, Resolved, CommandOK
  <2>3. \A j \in MemKey : Owns(t, j)' <=> j = k
    BY <1>3, <1>4, <2>2 DEF Owns
  <2> QED
    BY <1>8, <2>1, <2>2, <2>3 DEF LocksOK
<1>14. MatchOK(t)'
  <2>1. Rebuilt'[k] = Evictions!Effect(evictMem'[k], f)
    BY <1>1, <1>2, <1>6, <1>7
  <2> QED
    BY <1>3, <1>4, <1>11, <2>1 DEF MatchOK
<1>15. LastOK(t)'
  <2>1. SUFFICES ASSUME KeepsJournal(t)' PROVE LastOK(t)'
    BY DEF LastOK
  <2>2. exec # t /\ evictJournal' = Append(evictJournal, f) /\ buf' = buf
    BY <1>1, <1>2, <1>3, <1>5, <2>1 DEF KeepsJournal, Resolved
  <2>3. buf = <<>>
    BY <1>1, <2>2, Holding DEF EvInv, ExecInv, CommandOK, EvTyped
  <2>4. evictJournal \in Seq(EvFrame) /\ Len(evictJournal) \in Nat
    BY <1>2 DEF EvTyped
  <2>5. /\ Len(evictJournal') = Len(evictJournal) + 1
        /\ evictJournal'[Len(evictJournal')] = f
        /\ SubSeq(evictJournal', 1, Len(evictJournal)) = evictJournal
    BY <1>2, <2>2, <2>4
  <2>6. evictCmd'[t].at = Len(evictJournal)
    BY <1>3, <2>2
  <2>7. Evictions!FrameRemoved(t)' = evictJournal
    BY <2>5, <2>6 DEF Evictions!FrameRemoved
  <2>8. evictJournal \o buf = evictJournal
    BY <2>3, <2>4
  <2>9. Evictions!Replayed(evictJournal)[k] = evictMem[k]
    BY <1>7, <2>8 DEF Rebuilt
  <2> QED
    BY <1>1, <1>3, <1>11, <2>2, <2>3, <2>5, <2>6, <2>7, <2>9 DEF LastOK
<1>16. \A u \in Thread \ {t} : Leaves(u)
  <2>1. ASSUME NEW u \in Thread \ {t} PROVE wal # u
    BY <1>1, <2>1, ExecAlone, ThreadAssumption DEF Tiers!Nobody
  <2> QED
    BY <1>1, <1>3, <1>4, <1>6, <1>7, <1>8, <2>1 DEF Leaves
<1>17. \A j \in MemKey : KeyOK(j)'
  BY <1>1, <1>6, <1>7, Holding DEF EvInv, KeyOK
<1>18. t \in Ready' => t \in Ready
  BY <1>1, <1>3, <1>4 DEF Ready, Resolved
<1>19. evictId' >= evictId /\ Evictions!Present' \subseteq Evictions!Present
  BY <1>1, <1>2 DEF EvTyped, Evictions!Present
<1>20. ThreadOK(t)'
  BY <1>12, <1>13, <1>14, <1>15 DEF ThreadOK
<1> QED
  BY <1>9, <1>10, <1>16, <1>17, <1>18, <1>19, <1>20, StepKeeps

\* A command that ends lets go of its locks; what it owned is again what the journal
\* rebuilds.
LEMMA EndKeeps ==
  ASSUME EvInv, NEW t \in Thread, evictPc[t] # "idle", Evictions!Release(t),
         UNCHANGED <<inside, exec, evictId>>,
         evictCmd' \in [Thread -> EvCmd], \A u \in Thread \ {t} : evictCmd'[u] = evictCmd[u],
         evictCmd'[t].key = evictCmd[t].key, evictCmd'[t].strategy = evictCmd[t].strategy,
         evictCmd'[t].id = evictCmd[t].id,
         evictMem' \in [MemKey -> EvValue],
         \A k \in MemKey : evictMem'[k].ids \subseteq 1..(evictId - 1),
         evictJournal' \in Seq(EvFrame), buf' \in Seq(EvFrame),
         (evictJournal' = evictJournal /\ buf' = buf) \/ (wal = t /\ buf' = buf),
         \A k \in MemKey : IF evictGate[k] = t THEN Rebuilt'[k] = evictMem'[k]
                           ELSE Rebuilt'[k] = Rebuilt[k] /\ evictMem'[k] = evictMem[k],
         BoundInv' \/ Evictions!Present' \subseteq Evictions!Present
  PROVE  EvInv'
<1>1. /\ evictGate' = [k \in MemKey |-> IF evictGate[k] = t THEN "nobody" ELSE evictGate[k]]
      /\ wal' = IF wal = t THEN "nobody" ELSE wal
      /\ evictPc' = [evictPc EXCEPT ![t] = "done"]
  BY DEF Evictions!Release, Evictions!Goto, Evictions!Nobody
<1>2. EvTyped /\ CommandOK(t) /\ t # "nobody" /\ t \notin {"nobody"}
  BY Holding DEF EvInv
<1>3. /\ evictPc'[t] = "done" /\ evictPc' \in [Thread -> EvAt]
      /\ \A u \in Thread \ {t} : evictPc'[u] = evictPc[u]
      /\ evictGate' \in [MemKey -> Thread \cup {"nobody"}] /\ wal' \in Thread \cup {"nobody"}
  BY <1>1, <1>2 DEF EvTyped, EvAt
<1>4. EvTyped'
  BY <1>2, <1>3 DEF EvTyped
<1>5. ExecInv'
  BY DEF ExecInv, EvInv
<1>6. CommandOK(t)'
  BY <1>2, <1>3 DEF CommandOK, Resolved
<1>7. LocksOK(t)'
  BY <1>1, <1>2, <1>3 DEF LocksOK, KeepsJournal, Owns
<1>8. MatchOK(t)' /\ LastOK(t)'
  BY <1>3 DEF MatchOK, LastOK, KeepsJournal
<1>9. \A u \in Thread \ {t} : Leaves(u)
  BY <1>1, <1>2, <1>3, ThreadAssumption DEF Leaves, Tiers!Nobody
<1>10. \A k \in MemKey : KeyOK(k)'
  BY <1>1 DEF EvInv, KeyOK
<1>11. t \notin Ready' /\ evictId' >= evictId
  BY <1>2, <1>3 DEF Ready, EvTyped
<1>12. ThreadOK(t)'
  BY <1>6, <1>7, <1>8 DEF ThreadOK
<1> QED
  BY <1>4, <1>5, <1>9, <1>10, <1>11, <1>12, StepKeeps

\* Apply: memory catches up with the journal.  The key may be new, and the thread is no
\* longer one of those that are about to bring a key in.
LEMMA ApplyKeeps ==
  ASSUME EvInv, NEW t \in Thread, Evictions!Apply(t)
  PROVE  EvInv'
<1> DEFINE k == evictCmd[t].key
           f == Evictions!Frame(t)
<1>1. /\ evictPc[t] = "apply" /\ evictMem' = [evictMem EXCEPT ![k] = Evictions!Effect(@, f)]
      /\ Evictions!Release(t)
      /\ UNCHANGED <<evictJournal, inside, exec, buf, evictCmd, evictId>>
  BY DEF Evictions!Apply
<1>2. /\ EvTyped /\ k \in MemKey /\ f \in EvFrame /\ f.key = k /\ f.op # "DEL"
      /\ f.id = evictCmd[t].id /\ f.id \in 1..(evictId - 1) /\ evictMem[k] \in EvValue
      /\ evictMem \in [MemKey -> EvValue]
  BY <1>1, Holding, Frames DEF EvInv, CommandOK, EvTyped
<1>3. Evictions!Effect(evictMem[k], f) \in EvValue
  BY <1>2, EffectValue
<1>4. /\ evictMem' \in [MemKey -> EvValue] /\ evictMem'[k] = Evictions!Effect(evictMem[k], f)
      /\ \A j \in MemKey \ {k} : evictMem'[j] = evictMem[j]
  BY <1>1, <1>2, <1>3
<1>5. \A j \in MemKey : evictMem'[j].ids \subseteq 1..(evictId - 1)
  <2>1. \A j \in MemKey : evictMem[j].ids \subseteq 1..(evictId - 1)
    BY <1>2 DEF EvTyped
  <2>2. CASE f.op = "resolved"
    BY <1>2, <1>4, <2>1, <2>2 DEF Evictions!Effect
  <2>3. CASE f.op = "generic"
    <3>1. Evictions!Effect(evictMem[k], f).ids = evictMem[k].ids \cup {f.id}
      BY <1>2, <2>3 DEF Evictions!Effect, EvValue
    <3> QED
      BY <1>2, <1>4, <2>1, <3>1
  <2> QED
    BY <1>2, <2>2, <2>3 DEF EvFrame
<1>6. Rebuilt' = Rebuilt
  BY <1>1, Unwritten
<1>7. \A j \in MemKey : evictGate[j] = t <=> j = k
  BY <1>1, Holding DEF Owns, KeepsJournal
<1>8. Rebuilt[k] = Evictions!Effect(evictMem[k], f)
  <2>1. CASE Resolved(t)
    BY <1>1, <2>1 DEF EvInv, ThreadOK, MatchOK
  <2>2. CASE ~Resolved(t)
    <3>1. KeepsJournal(t) /\ ThreadOK(t)
      BY <1>1, <2>2, Holding DEF KeepsJournal
    <3> QED
      BY <1>2, <3>1, Undone
  <2> QED
    BY <2>1, <2>2
<1>9. BoundInv'
  <2> DEFINE P == Evictions!Present
             R == Ready
  <2>1. P \subseteq MemKey /\ P' \subseteq MemKey /\ R \subseteq Thread /\ R' \subseteq Thread
    BY DEF Evictions!Present, Ready
  <2>2. P' \subseteq P \cup {k}
    BY <1>4 DEF Evictions!Present
  <2>3. t \in R
    BY <1>1 DEF Ready
  <2>4. R' \subseteq R \ {t}
    <3>1. evictPc'[t] = "done" /\ \A u \in Thread \ {t} : evictPc'[u] = evictPc[u]
      BY <1>1, <1>2 DEF Evictions!Release, Evictions!Goto, EvTyped
    <3> QED
      BY <1>1, <3>1 DEF Ready, Resolved
  <2>5. BoundInv
    BY DEF EvInv
  <2>6. PICK A, B, Q, S : A = P /\ B = P' /\ Q = R /\ S = R'
    OBVIOUS
  <2>7. /\ A \subseteq MemKey /\ B \subseteq MemKey /\ Q \subseteq Thread /\ S \subseteq Thread
        /\ B \subseteq A \cup {k} /\ A \cup {k} \subseteq MemKey /\ t \in Q /\ S \subseteq Q \ {t}
        /\ Q \ {t} \subseteq Thread
    BY <1>2, <2>1, <2>2, <2>3, <2>4, <2>6
  <2>8. /\ IsFiniteSet(A) /\ IsFiniteSet(Q) /\ IsFiniteSet(A \cup {k}) /\ IsFiniteSet(Q \ {t})
        /\ Cardinality(A) \in Nat /\ Cardinality(Q) \in Nat
        /\ Cardinality(B) \in Nat /\ Cardinality(S) \in Nat /\ Cardinality(Thread) \in Nat
        /\ Cardinality(A \cup {k}) \in Nat /\ Cardinality(Q \ {t}) \in Nat
    BY <2>7, FiniteCounts
  <2>9. Cardinality(B) <= Cardinality(A) + 1
    <3>1. Cardinality(B) <= Cardinality(A \cup {k})
      BY <2>7, <2>8, FS_Subset
    <3>2. Cardinality(A \cup {k}) <= Cardinality(A) + 1
      <4>1. IsFiniteSet(A) /\ Cardinality(A) \in Nat
        BY <2>8
      <4>2. CASE k \in A
        <5>1. A \cup {k} = A
          BY <4>2
        <5>2. Cardinality(A \cup {k}) = Cardinality(A)
          BY <5>1, Zenon
        <5> QED
          BY <4>1, <5>2
      <4>3. CASE k \notin A
        <5>1. Cardinality(A \cup {k}) = Cardinality(A) + 1
          BY <4>1, <4>3, FS_AddElement
        <5> QED
          BY <4>1, <5>1
      <4> QED
        BY <4>2, <4>3
    <3> QED
      BY <2>8, <3>1, <3>2
  <2>10. Cardinality(S) <= Cardinality(Q) - 1
    <3>1. Cardinality(S) <= Cardinality(Q \ {t})
      BY <2>7, <2>8, FS_Subset
    <3>2. Cardinality(Q \ {t}) = Cardinality(Q) - 1
      BY <2>7, <2>8, FS_RemoveElement
    <3> QED
      BY <3>1, <3>2
  <2>11. Cardinality(A) + Cardinality(Q) <= MaxMem + Cardinality(Thread)
    BY <2>5, <2>6 DEF BoundInv
  <2>12. Cardinality(B) + Cardinality(S) <= MaxMem + Cardinality(Thread)
    BY <2>8, <2>9, <2>10, <2>11, EvictionAssumption
  <2> QED
    BY <2>6, <2>12 DEF BoundInv
<1>10. \A j \in MemKey : IF evictGate[j] = t THEN Rebuilt'[j] = evictMem'[j]
                         ELSE Rebuilt'[j] = Rebuilt[j] /\ evictMem'[j] = evictMem[j]
  BY <1>4, <1>6, <1>7, <1>8
<1>11. evictCmd' \in [Thread -> EvCmd] /\ evictJournal' \in Seq(EvFrame) /\ buf' \in Seq(EvFrame)
  BY <1>1, <1>2 DEF EvTyped
<1> QED
  BY <1>1, <1>4, <1>5, <1>9, <1>10, <1>11, EndKeeps

\* RejectFrame: a command that ends without a write.  A generic one takes its frame back,
\* which is the last of the journal; a resolved one owns nothing, or a key that is gone.
LEMMA RejectFrameKeeps ==
  ASSUME EvInv, NEW t \in Thread, Evictions!RejectFrame(t),
         evictPc[t] \in {"apply", "evict", "remove"}, evictPc[t] = "apply" => Evictions!Generic(t),
         evictPc[t] = "remove" => evictMem[evictCmd[t].victim] = Evictions!Absent,
         UNCHANGED <<evictMem, inside, exec, evictId>>,
         evictCmd' \in [Thread -> EvCmd], \A u \in Thread \ {t} : evictCmd'[u] = evictCmd[u],
         evictCmd'[t].key = evictCmd[t].key, evictCmd'[t].strategy = evictCmd[t].strategy,
         evictCmd'[t].id = evictCmd[t].id
  PROVE  EvInv'
<1> DEFINE k == evictCmd[t].key
<1>1. EvTyped /\ k \in MemKey /\ ThreadOK(t) /\ (Evictions!Generic(t) <=> ~Resolved(t))
  BY Holding DEF EvInv, Evictions!Generic
<1>2. /\ evictMem' \in [MemKey -> EvValue] /\ Evictions!Present' \subseteq Evictions!Present
      /\ \A j \in MemKey : evictMem'[j].ids \subseteq 1..(evictId - 1)
      /\ evictJournal \in Seq(EvFrame) /\ buf \in Seq(EvFrame)
  BY <1>1 DEF EvTyped, Evictions!Present
<1>3. Evictions!Release(t)
  BY DEF Evictions!RejectFrame
<1>4. CASE Resolved(t)
  <2>1. evictJournal' = evictJournal /\ buf' = buf /\ Rebuilt' = Rebuilt
    BY <1>1, <1>4, Unwritten DEF Evictions!RejectFrame
  <2>2. ASSUME NEW j \in MemKey, evictGate[j] = t PROVE Rebuilt[j] = evictMem[j]
    <3>1. Owns(t, j)
      BY <2>2, Holding
    <3>2. evictPc[t] = "remove" /\ j = evictCmd[t].victim
      BY <1>1, <1>4, <3>1 DEF Owns, KeepsJournal, Resolved
    <3> QED
      BY <1>1, <3>2 DEF ThreadOK, MatchOK
  <2>3. \A j \in MemKey : IF evictGate[j] = t THEN Rebuilt'[j] = evictMem'[j]
                          ELSE Rebuilt'[j] = Rebuilt[j] /\ evictMem'[j] = evictMem[j]
    BY <2>1, <2>2
  <2> QED
    BY <1>2, <1>3, <2>1, <2>3, EndKeeps
<1>5. CASE ~Resolved(t)
  <2>1. exec # t /\ KeepsJournal(t) /\ wal = t
    BY <1>1, <1>5, Holding DEF CommandOK, KeepsJournal, Evictions!Generic, Resolved
  <2>2. evictJournal' = Evictions!FrameRemoved(t) /\ buf' = buf
    BY <1>1, <1>5, <2>1 DEF Evictions!RejectFrame
  <2>3. /\ evictJournal' \in Seq(EvFrame) /\ buf = <<>>
        /\ Evictions!Replayed(evictJournal')[k] = evictMem[k]
        /\ \A j \in MemKey \ {k} : Evictions!Replayed(evictJournal')[j] = Rebuilt[j]
    BY <1>1, <2>1, <2>2, Undone
  <2>4. Rebuilt' = Evictions!Replayed(evictJournal')
    <3>1. evictJournal' \o buf' = evictJournal'
      BY <2>2, <2>3
    <3> QED
      BY <3>1 DEF Rebuilt
  <2>5. \A j \in MemKey : evictGate[j] = t <=> j = k
    BY <1>1, <1>5, <2>1, Holding DEF Owns, KeepsJournal, CommandOK
  <2>6. \A j \in MemKey : IF evictGate[j] = t THEN Rebuilt'[j] = evictMem'[j]
                          ELSE Rebuilt'[j] = Rebuilt[j] /\ evictMem'[j] = evictMem[j]
    BY <2>3, <2>4, <2>5
  <2>7. buf' \in Seq(EvFrame)
    BY <1>2, <2>2
  <2> QED
    BY <1>2, <1>3, <2>1, <2>2, <2>3, <2>6, <2>7, EndKeeps
<1> QED
  BY <1>4, <1>5

\* Reject, EvictRefused and EvictKeyGone: by itself, for want of a victim, or because
\* somebody else evicted it.
LEMMA RefusalsKeep ==
  ASSUME EvInv, NEW t \in Thread,
         Evictions!Reject(t) \/ Evictions!EvictRefused(t) \/ Evictions!EvictKeyGone(t)
  PROVE  EvInv'
<1>0. EvTyped /\ evictCmd \in [Thread -> EvCmd] /\ evictCmd[t] \in EvCmd
  BY DEF EvInv, EvTyped
<1>1. CASE Evictions!Reject(t)
  BY <1>0, <1>1, RejectFrameKeeps DEF Evictions!Reject
<1>2. CASE Evictions!EvictRefused(t)
  BY <1>0, <1>2, RejectFrameKeeps DEF Evictions!EvictRefused
<1>3. CASE Evictions!EvictKeyGone(t)
  <2> DEFINE c == [evictCmd[t] EXCEPT !.victim = "nobody"]
  <2>1. /\ evictPc[t] = "remove" /\ evictMem[evictCmd[t].victim] = Evictions!Absent
        /\ Evictions!RejectFrame(t) /\ evictCmd' = [evictCmd EXCEPT ![t] = c]
        /\ UNCHANGED <<evictMem, inside, exec, evictId>>
    BY <1>0, <1>3 DEF Evictions!EvictKeyGone, Evictions!Nobody
  <2>2. /\ c \in EvCmd /\ c.key = evictCmd[t].key /\ c.strategy = evictCmd[t].strategy
        /\ c.id = evictCmd[t].id
    BY <1>0 DEF EvCmd
  <2> HIDE DEF c
  <2>3. /\ evictCmd' \in [Thread -> EvCmd] /\ evictCmd'[t] = c
        /\ \A u \in Thread \ {t} : evictCmd'[u] = evictCmd[u]
    BY <1>0, <2>1, <2>2
  <2> QED
    BY <2>1, <2>2, <2>3, RejectFrameKeeps
<1> QED
  BY <1>1, <1>2, <1>3

\* The end of a command, or of EXEC, whose buffer becomes part of the journal.
LEMMA LastDoneKeeps ==
  ASSUME EvInv, NEW t \in Thread, evictPc[t] = "done",
         evictJournal' = IF exec = t THEN evictJournal \o buf ELSE evictJournal,
         buf' = IF exec = t THEN <<>> ELSE buf,
         exec' = IF exec = t THEN "nobody" ELSE exec,
         inside' = inside \ {t},
         evictCmd' = [evictCmd EXCEPT ![t] = Evictions!NoCmd],
         evictPc' = [evictPc EXCEPT ![t] = "idle"],
         UNCHANGED <<evictMem, wal, evictGate, evictId>>
  PROVE  EvInv'
<1>1. /\ EvTyped /\ evictJournal \in Seq(EvFrame) /\ buf \in Seq(EvFrame) /\ t # "nobody"
      /\ <<>> \in Seq(EvFrame)
  BY Holding DEF EvInv, EvTyped
<1>2. evictJournal' \in Seq(EvFrame) /\ buf' \in Seq(EvFrame)
  BY <1>1
<1>3. Rebuilt' = Rebuilt
  <2>1. evictJournal' \o buf' = evictJournal \o buf
    <3>1. (evictJournal \o buf) \o <<>> = evictJournal \o buf
      BY <1>1
    <3> QED
      BY <3>1
  <2> QED
    BY <2>1 DEF Rebuilt
<1>4. Evictions!NoCmd \in EvCmd /\ Evictions!NoCmd.strategy = "nobody"
  BY DEF Evictions!NoCmd, Evictions!Nobody, EvCmd
<1>5. /\ evictPc'[t] = "idle" /\ evictCmd'[t] = Evictions!NoCmd
      /\ evictPc' \in [Thread -> EvAt] /\ evictCmd' \in [Thread -> EvCmd]
      /\ \A u \in Thread \ {t} : evictPc'[u] = evictPc[u] /\ evictCmd'[u] = evictCmd[u]
  BY <1>1, <1>4 DEF EvTyped, EvAt
<1>6. EvTyped'
  BY <1>1, <1>2, <1>5 DEF EvTyped
<1>7. ExecInv'
  BY <1>1 DEF ExecInv, EvInv
<1>8. wal # t /\ \A k \in MemKey : evictGate[k] # t
  BY Holding DEF KeepsJournal, Owns
<1>9. ThreadOK(t)'
  <2>1. CommandOK(t)'
    BY <1>1, <1>5 DEF CommandOK
  <2>2. LocksOK(t)'
    BY <1>5, <1>8 DEF LocksOK, KeepsJournal, Owns
  <2>3. MatchOK(t)' /\ LastOK(t)'
    BY <1>5 DEF MatchOK, LastOK, KeepsJournal
  <2> QED
    BY <2>1, <2>2, <2>3 DEF ThreadOK
<1>10. \A u \in Thread \ {t} : Leaves(u)
  <2>1. ASSUME NEW u \in Thread \ {t}, wal = u PROVE exec # t
    BY <2>1, <1>1, ExecAlone, ThreadAssumption DEF Tiers!Nobody
  <2> QED
    BY <1>1, <1>3, <1>5, <2>1, ThreadAssumption DEF Leaves, Tiers!Nobody
<1>11. \A k \in MemKey : KeyOK(k)'
  BY <1>3 DEF EvInv, KeyOK
<1>12. t \notin Ready' /\ evictId' >= evictId /\ Evictions!Present' \subseteq Evictions!Present
  BY <1>1, <1>4, <1>5 DEF Ready, Resolved, EvTyped, Evictions!Present
<1> QED
  BY <1>6, <1>7, <1>9, <1>10, <1>11, <1>12, StepKeeps

\* The next command of EXEC.
LEMMA NextDoneKeeps ==
  ASSUME EvInv, NEW t \in Thread, evictPc[t] = "done", NEW k \in MemKey, NEW v \in BOOLEAN,
         evictCmd' = [evictCmd EXCEPT ![t] =
                        [evictCmd[t] EXCEPT !.key = k, !.vol = v, !.id = evictId, !.tries = 0,
                                            !.todo = evictCmd[t].todo - 1]],
         evictId' = evictId + 1,
         evictPc' = [evictPc EXCEPT ![t] = Evictions!FirstStep(evictCmd[t].strategy)],
         UNCHANGED <<evictJournal, buf, inside, exec, evictMem, wal, evictGate>>
  PROVE  EvInv'
<1> DEFINE n == evictCmd[t].todo - 1
           c == [evictCmd[t] EXCEPT !.key = k, !.vol = v, !.id = evictId, !.tries = 0, !.todo = n]
           g == evictCmd[t].strategy
<1>1. EvTyped /\ evictCmd \in [Thread -> EvCmd] /\ evictCmd[t] \in EvCmd /\ evictId \in Nat
  BY DEF EvInv, EvTyped
<1>2. c \in EvCmd /\ c.key = k /\ c.strategy = g /\ c.id = evictId
  <2>1. n \in Int
    BY <1>1 DEF EvCmd
  <2> HIDE DEF n
  <2> QED
    BY <1>1, <2>1 DEF EvCmd
<1>3. evictCmd' = [evictCmd EXCEPT ![t] = c]
  BY <1>1, Zenon
<1> HIDE DEF c
<1>4. Evictions!FirstStep(g) = IF g = "generic" THEN "gate" ELSE "evict"
  BY DEF Evictions!FirstStep
<1>5. /\ evictPc'[t] = Evictions!FirstStep(g) /\ evictCmd'[t] = c
      /\ evictPc' \in [Thread -> EvAt] /\ evictCmd' \in [Thread -> EvCmd]
      /\ \A u \in Thread \ {t} : evictPc'[u] = evictPc[u] /\ evictCmd'[u] = evictCmd[u]
  BY <1>1, <1>2, <1>3, <1>4 DEF EvTyped, EvAt
<1>6. Rebuilt' = Rebuilt /\ Evictions!Present' = Evictions!Present
  BY Unwritten
<1>7. EvTyped'
  <2>1. 1..(evictId - 1) \subseteq 1..(evictId' - 1) /\ evictId' \in Nat \ {0}
    BY <1>1
  <2>2. \A j \in MemKey : evictMem'[j].ids \subseteq 1..(evictId' - 1)
    BY <1>1, <2>1 DEF EvTyped
  <2> QED
    BY <1>1, <1>5, <2>1, <2>2 DEF EvTyped
<1>8. ExecInv'
  BY DEF ExecInv, EvInv
<1>9. wal # t /\ \A j \in MemKey : evictGate[j] # t
  BY Holding DEF KeepsJournal, Owns
<1>10. ThreadOK(t)'
  <2>1. CommandOK(t)'
    <3>1. evictId \in 1..(evictId' - 1)
      BY <1>1 DEF EvTyped
    <3>2. CommandOK(t)
      BY Holding
    <3>3. evictPc'[t] \in {"gate", "evict"}
      BY <1>4, <1>5
    <3>4. evictCmd'[t].key \in MemKey /\ evictCmd'[t].id \in 1..(evictId' - 1)
          /\ evictCmd'[t].strategy = evictCmd[t].strategy
      BY <1>2, <1>5, <3>1
    <3> QED
      BY <3>2, <3>3, <3>4 DEF CommandOK, Resolved
  <2>2. LocksOK(t)'
    BY <1>2, <1>4, <1>5, <1>9 DEF LocksOK, KeepsJournal, Owns
  <2>3. MatchOK(t)' /\ LastOK(t)'
    BY <1>2, <1>4, <1>5 DEF MatchOK, LastOK, KeepsJournal
  <2> QED
    BY <2>1, <2>2, <2>3 DEF ThreadOK
<1>11. \A u \in Thread \ {t} : Leaves(u)
  BY <1>5, <1>6 DEF Leaves
<1>12. \A j \in MemKey : KeyOK(j)'
  BY <1>6 DEF EvInv, KeyOK
<1>13. t \notin Ready' /\ evictId' >= evictId
  BY <1>1, <1>2, <1>4, <1>5 DEF Ready, Resolved
<1> QED
  BY <1>6, <1>7, <1>8, <1>10, <1>11, <1>12, <1>13, StepKeeps

\* Done.
LEMMA DoneKeeps ==
  ASSUME EvInv, NEW t \in Thread, Evictions!Done(t)
  PROVE  EvInv'
<1>1. CASE exec = t /\ evictCmd[t].todo > 1
  <2>1. PICK k \in MemKey, v \in Evictions!TtlChoice :
          evictCmd' = [evictCmd EXCEPT ![t] =
                         [evictCmd[t] EXCEPT !.key = k, !.vol = v, !.id = evictId, !.tries = 0,
                                             !.todo = evictCmd[t].todo - 1]]
    BY <1>1 DEF Evictions!Done
  <2>2. v \in BOOLEAN
    BY DEF Evictions!TtlChoice
  <2>3. /\ evictPc[t] = "done" /\ evictId' = evictId + 1
        /\ evictPc' = [evictPc EXCEPT ![t] = Evictions!FirstStep(evictCmd[t].strategy)]
        /\ UNCHANGED <<evictJournal, buf, inside, exec, evictMem, wal, evictGate>>
    BY <1>1 DEF Evictions!Done, Evictions!Goto
  <2> QED
    BY <2>1, <2>2, <2>3, NextDoneKeeps
<1>2. CASE ~(exec = t /\ evictCmd[t].todo > 1)
  <2>1. /\ evictPc[t] = "done"
        /\ evictJournal' = IF exec = t THEN evictJournal \o buf ELSE evictJournal
        /\ buf' = IF exec = t THEN <<>> ELSE buf
        /\ exec' = IF exec = t THEN "nobody" ELSE exec
        /\ inside' = inside \ {t}
        /\ evictCmd' = [evictCmd EXCEPT ![t] = Evictions!NoCmd]
        /\ evictPc' = [evictPc EXCEPT ![t] = "idle"]
        /\ UNCHANGED <<evictMem, wal, evictGate, evictId>>
    BY <1>2 DEF Evictions!Done, Evictions!Goto, Evictions!Nobody
  <2> QED
    BY <2>1, LastDoneKeeps
<1> QED
  BY <1>1, <1>2

-----------------------------------------------------------------------------
(* The steps of an eviction                                                *)

\* EvictEnough: memory is under the limit, so that every thread may be on its way to a
\* write of its own.
LEMMA EnoughKeeps ==
  ASSUME EvInv, NEW t \in Thread, Evictions!EvictEnough(t)
  PROVE  EvInv'
<1>1. /\ evictPc[t] = "evict" /\ ~Evictions!OverLimit
      /\ evictPc' = [evictPc EXCEPT ![t] = IF Evictions!Generic(t) THEN "apply" ELSE "gate"]
      /\ UNCHANGED <<evictMem, evictJournal, wal, evictGate, inside, exec, buf, evictCmd, evictId>>
  BY DEF Evictions!EvictEnough, Evictions!UnderLimit, Evictions!Goto, Evictions!locks
<1>2. EvTyped /\ ThreadOK(t) /\ (Evictions!Generic(t) <=> ~Resolved(t))
  BY <1>1, Holding DEF EvInv, Evictions!Generic
<1>3. /\ evictPc'[t] = IF Resolved(t) THEN "gate" ELSE "apply"
      /\ \A u \in Thread \ {t} : evictPc'[u] = evictPc[u]
      /\ evictPc' \in [Thread -> EvAt]
  BY <1>1, <1>2 DEF EvTyped, EvAt
<1>4. Rebuilt' = Rebuilt /\ Evictions!Present' = Evictions!Present
  BY <1>1, Unwritten
<1>5. EvTyped'
  BY <1>1, <1>2, <1>3 DEF EvTyped
<1>6. ExecInv'
  BY <1>1 DEF ExecInv, EvInv
<1>7. CommandOK(t)'
  BY <1>1, <1>2, <1>3 DEF ThreadOK, CommandOK, Resolved
<1>8. /\ KeepsJournal(t)' <=> KeepsJournal(t)
      /\ \A k \in MemKey : Owns(t, k)' <=> Owns(t, k)
  BY <1>1, <1>2, <1>3 DEF KeepsJournal, Owns, Resolved, ThreadOK, CommandOK
<1>9. LocksOK(t)'
  BY <1>1, <1>2, <1>8 DEF LocksOK, ThreadOK
<1>10. MatchOK(t)' /\ LastOK(t)'
  <2>1. MatchOK(t)'
    BY <1>1, <1>3 DEF MatchOK, Resolved
  <2>2. /\ Evictions!Frame(t)' = Evictions!Frame(t)
        /\ Evictions!FrameRemoved(t)' = Evictions!FrameRemoved(t)
    BY <1>1 DEF Evictions!Frame, Evictions!FrameRemoved
  <2> QED
    BY <1>1, <1>2, <1>8, <2>1, <2>2 DEF ThreadOK, LastOK
<1>11. \A u \in Thread \ {t} : Leaves(u)
  BY <1>1, <1>3, <1>4 DEF Leaves
<1>12. \A k \in MemKey : KeyOK(k)'
  BY <1>1, <1>4 DEF EvInv, KeyOK
<1>13. BoundInv'
  <2>1. Evictions!Present' \subseteq MemKey /\ Ready' \subseteq Thread
    BY DEF Evictions!Present, Ready
  <2>2. /\ Cardinality(Evictions!Present') \in Nat /\ Cardinality(Ready') \in Nat
        /\ Cardinality(Ready') <= Cardinality(Thread) /\ Cardinality(Thread) \in Nat
    BY <2>1, FiniteCounts
  <2>3. Evictions!Cardinality(Evictions!Present) = Cardinality(Evictions!Present)
    BY DEF Cardinality, Evictions!Cardinality
  <2>4. ~(Cardinality(Evictions!Present') > MaxMem)
    BY <1>1, <1>4, <2>3 DEF Evictions!OverLimit
  <2> QED
    BY <2>2, <2>4, EvictionAssumption DEF BoundInv
<1>14. evictId' >= evictId
  BY <1>1, <1>2 DEF EvTyped
<1>15. ThreadOK(t)'
  BY <1>7, <1>9, <1>10 DEF ThreadOK
<1> QED
  BY <1>5, <1>6, <1>11, <1>12, <1>13, <1>14, <1>15, StepKeeps

\* ChooseVictim: no key of a table.
LEMMA ChooseKeeps ==
  ASSUME EvInv, NEW t \in Thread, NEW k \in MemKey, Evictions!ChooseVictim(t, k)
  PROVE  EvInv'
<1> DEFINE n == evictCmd[t].tries + 1
           c == [evictCmd[t] EXCEPT !.victim = k, !.tries = n]
<1>1. /\ evictPc[t] = "evict" /\ k \in MemKey \ Protected
      /\ evictCmd' = [evictCmd EXCEPT ![t].victim = k, ![t].tries = @ + 1]
      /\ evictPc' = [evictPc EXCEPT ![t] = "victim"]
      /\ UNCHANGED <<evictMem, evictJournal, wal, evictGate, inside, exec, buf, evictId>>
  BY DEF Evictions!ChooseVictim, Evictions!Victims, Evictions!Goto, Evictions!locks
<1>2. EvTyped /\ ThreadOK(t) /\ evictCmd \in [Thread -> EvCmd] /\ evictCmd[t] \in EvCmd
  BY Holding DEF EvInv, EvTyped
<1>3. evictCmd' = [evictCmd EXCEPT ![t] = c]
  BY <1>1, <1>2
<1>4. /\ c \in EvCmd /\ c.key = evictCmd[t].key /\ c.strategy = evictCmd[t].strategy
      /\ c.victim = k /\ c.id = evictCmd[t].id /\ c.at = evictCmd[t].at /\ c.vol = evictCmd[t].vol
  <2>1. n \in Nat
    BY <1>2 DEF EvCmd
  <2> HIDE DEF n
  <2> QED
    BY <1>2, <2>1 DEF EvCmd
<1> HIDE DEF c
<1>5. /\ evictPc'[t] = "victim" /\ evictCmd'[t] = c
      /\ evictPc' \in [Thread -> EvAt] /\ evictCmd' \in [Thread -> EvCmd]
      /\ \A u \in Thread \ {t} : evictPc'[u] = evictPc[u] /\ evictCmd'[u] = evictCmd[u]
  <2>1. /\ evictPc'[t] = "victim" /\ evictPc' \in [Thread -> EvAt]
        /\ \A u \in Thread \ {t} : evictPc'[u] = evictPc[u]
    <3>1. evictPc' = [evictPc EXCEPT ![t] = "victim"] /\ evictPc \in [Thread -> EvAt]
      BY <1>1, <1>2 DEF EvTyped
    <3> QED
      BY <3>1 DEF EvAt
  <2>2. /\ evictCmd'[t] = c /\ evictCmd' \in [Thread -> EvCmd]
        /\ \A u \in Thread \ {t} : evictCmd'[u] = evictCmd[u]
    BY <1>2, <1>3, <1>4
  <2> QED
    BY <2>1, <2>2
<1>6. Rebuilt' = Rebuilt /\ Evictions!Present' = Evictions!Present
  BY <1>1, Unwritten
<1>7. EvTyped'
  BY <1>1, <1>2, <1>5 DEF EvTyped
<1>8. ExecInv'
  BY <1>1 DEF ExecInv, EvInv
<1>9. CommandOK(t)'
  BY <1>1, <1>2, <1>4, <1>5 DEF ThreadOK, CommandOK, Resolved
<1>10. /\ KeepsJournal(t)' <=> KeepsJournal(t)
       /\ \A j \in MemKey : Owns(t, j)' <=> Owns(t, j)
  BY <1>1, <1>4, <1>5 DEF KeepsJournal, Owns
<1>11. LocksOK(t)'
  BY <1>1, <1>2, <1>10 DEF LocksOK, ThreadOK
<1>12. MatchOK(t)' /\ LastOK(t)'
  <2>1. MatchOK(t)'
    BY <1>5 DEF MatchOK
  <2>2. /\ Evictions!Frame(t)' = Evictions!Frame(t)
        /\ Evictions!FrameRemoved(t)' = Evictions!FrameRemoved(t)
    BY <1>1, <1>4, <1>5 DEF Evictions!Frame, Evictions!FrameRemoved
  <2> QED
    BY <1>1, <1>2, <1>4, <1>5, <1>10, <2>1, <2>2 DEF ThreadOK, LastOK
<1>13. \A u \in Thread \ {t} : Leaves(u)
  BY <1>1, <1>5, <1>6 DEF Leaves
<1>14. \A j \in MemKey : KeyOK(j)'
  BY <1>1, <1>6 DEF EvInv, KeyOK
<1>15. t \notin Ready' /\ evictId' >= evictId
  BY <1>1, <1>2, <1>5 DEF Ready, EvTyped
<1>16. ThreadOK(t)'
  BY <1>9, <1>11, <1>12 DEF ThreadOK
<1> QED
  BY <1>6, <1>7, <1>8, <1>13, <1>14, <1>15, <1>16, StepKeeps

\* VictimGate: the gate of the victim, which a generic command may hold for its own key.
LEMMA VictimGateKeeps ==
  ASSUME EvInv, NEW t \in Thread, Evictions!VictimGate(t)
  PROVE  EvInv'
<1> DEFINE v == evictCmd[t].victim
<1>1. /\ evictPc[t] = "victim" /\ evictGate[v] \in {"nobody", t}
      /\ evictGate' = [evictGate EXCEPT ![v] = t] /\ evictPc' = [evictPc EXCEPT ![t] = "del"]
      /\ UNCHANGED <<evictMem, evictJournal, wal, inside, exec, buf, evictCmd, evictId>>
  BY DEF Evictions!VictimGate, Evictions!Goto, Evictions!Nobody
<1>2. EvTyped /\ ThreadOK(t) /\ v \in MemKey
  BY <1>1, Holding DEF EvInv, CommandOK
<1>3. /\ evictPc'[t] = "del" /\ evictGate'[v] = t
      /\ evictPc' \in [Thread -> EvAt] /\ evictGate' \in [MemKey -> Thread \cup {"nobody"}]
      /\ \A u \in Thread \ {t} : evictPc'[u] = evictPc[u]
      /\ \A j \in MemKey \ {v} : evictGate'[j] = evictGate[j]
  BY <1>1, <1>2 DEF EvTyped, EvAt
<1>4. Rebuilt' = Rebuilt /\ Evictions!Present' = Evictions!Present
  BY <1>1, Unwritten
<1>5. EvTyped'
  BY <1>1, <1>2, <1>3 DEF EvTyped
<1>6. ExecInv'
  BY <1>1 DEF ExecInv, EvInv
<1>7. CommandOK(t)'
  BY <1>1, <1>2, <1>3 DEF ThreadOK, CommandOK, Resolved
<1>8. /\ KeepsJournal(t)' <=> KeepsJournal(t)
      /\ \A j \in MemKey : Owns(t, j)' <=> (Owns(t, j) \/ j = v)
  BY <1>1, <1>3 DEF KeepsJournal, Owns
<1>9. LocksOK(t)'
  <2>1. \A j \in MemKey : evictGate'[j] = t <=> (evictGate[j] = t \/ j = v)
    BY <1>3
  <2> QED
    BY <1>1, <1>2, <1>8, <2>1 DEF LocksOK, ThreadOK
<1>10. Resolved(t) => Rebuilt[v] = evictMem[v]
  <2>1. Resolved(t) => ~Owns(t, v)
    BY <1>1 DEF Owns, KeepsJournal, Resolved
  <2>2. Resolved(t) => evictGate[v] = "nobody"
    BY <1>1, <1>2, <2>1, Holding
  <2> QED
    BY <1>2, <2>2 DEF EvInv, KeyOK
<1>11. MatchOK(t)' /\ LastOK(t)'
  <2>1. MatchOK(t)'
    BY <1>1, <1>3, <1>4, <1>10 DEF MatchOK, Resolved
  <2>2. /\ Evictions!Frame(t)' = Evictions!Frame(t)
        /\ Evictions!FrameRemoved(t)' = Evictions!FrameRemoved(t)
    BY <1>1 DEF Evictions!Frame, Evictions!FrameRemoved
  <2> QED
    BY <1>1, <1>2, <1>8, <2>1, <2>2 DEF ThreadOK, LastOK
<1>12. \A u \in Thread \ {t} : Leaves(u)
  <2>1. \A u \in Thread \ {t} : \A k \in MemKey : (evictGate'[k] = u) = (evictGate[k] = u)
    BY <1>1, <1>3, ThreadAssumption DEF Tiers!Nobody
  <2> QED
    BY <1>1, <1>3, <1>4, <2>1 DEF Leaves
<1>13. \A j \in MemKey : KeyOK(j)'
  BY <1>1, <1>3, <1>4, Holding DEF EvInv, KeyOK
<1>14. t \notin Ready' /\ evictId' >= evictId
  BY <1>1, <1>2, <1>3 DEF Ready, EvTyped
<1>15. ThreadOK(t)'
  BY <1>7, <1>9, <1>11 DEF ThreadOK
<1> QED
  BY <1>4, <1>5, <1>6, <1>12, <1>13, <1>14, <1>15, StepKeeps

\* VictimAppend: the DEL of the victim.  A generic command keeps the journal locked and
\* cannot append: it does not get here.
LEMMA VictimAppendKeeps ==
  ASSUME EvInv, NEW t \in Thread, Evictions!VictimAppend(t)
  PROVE  EvInv'
<1> DEFINE v == evictCmd[t].victim
           f == Evictions!DelFrame(v)
<1>1. /\ evictPc[t] = "del" /\ evictPc' = [evictPc EXCEPT ![t] = "remove"]
      /\ \/ exec = t /\ buf' = Append(buf, f) /\ evictJournal' = evictJournal
         \/ exec # t /\ wal = "nobody" /\ evictJournal' = Append(evictJournal, f) /\ buf' = buf
      /\ UNCHANGED <<evictMem, wal, evictGate, inside, exec, evictCmd, evictId>>
  BY DEF Evictions!VictimAppend, Evictions!JournaledDel, Evictions!Goto, Evictions!Nobody,
         Evictions!locks
<1>2. /\ EvTyped /\ ThreadOK(t) /\ CommandOK(t) /\ v \in MemKey /\ t # "nobody"
  BY <1>1, Holding DEF EvInv, CommandOK
<1>3. f \in EvFrame /\ f.key = v /\ f.op = "DEL"
  BY <1>2, Frames
<1>4. Resolved(t)
  BY <1>1, <1>2, Holding DEF KeepsJournal, CommandOK, Resolved
<1>5. Logs(f)
  BY <1>1, <1>2 DEF Logs, EvInv, ExecInv, CommandOK, EvTyped
<1>6. /\ \A j \in MemKey :
           Rebuilt'[j] = IF j = v THEN Evictions!Effect(Rebuilt[j], f) ELSE Rebuilt[j]
      /\ evictJournal' \in Seq(EvFrame) /\ buf' \in Seq(EvFrame)
  BY <1>2, <1>3, <1>5, Logged
<1>7. Rebuilt'[v] = Evictions!Absent
  BY <1>2, <1>3, <1>6 DEF Evictions!Effect
<1>8. /\ evictPc'[t] = "remove" /\ evictPc' \in [Thread -> EvAt]
      /\ \A u \in Thread \ {t} : evictPc'[u] = evictPc[u]
  BY <1>1, <1>2 DEF EvTyped, EvAt
<1>9. EvTyped'
  BY <1>1, <1>2, <1>6, <1>8 DEF EvTyped
<1>10. ExecInv'
  BY <1>1, <1>2 DEF ExecInv, EvInv
<1>11. CommandOK(t)'
  BY <1>1, <1>2, <1>4, <1>8 DEF CommandOK, Resolved
<1>12. LocksOK(t)'
  BY <1>1, <1>2, <1>4, <1>8 DEF ThreadOK, LocksOK, KeepsJournal, Owns, Resolved
<1>13. MatchOK(t)' /\ LastOK(t)'
  BY <1>1, <1>7, <1>8 DEF MatchOK, LastOK, KeepsJournal
<1>14. \A u \in Thread \ {t} : Leaves(u)
  <2>1. ASSUME NEW u \in Thread \ {t} PROVE wal # u
    BY <1>1, <1>2, <2>1, ExecAlone, ThreadAssumption DEF Tiers!Nobody
  <2>2. evictGate[v] = t
    BY <1>1, <1>2, Holding DEF Owns
  <2> QED
    BY <1>1, <1>6, <1>8, <2>1, <2>2 DEF Leaves
<1>15. \A j \in MemKey : KeyOK(j)'
  <2>1. evictGate[v] = t
    BY <1>1, <1>2, Holding DEF Owns
  <2> QED
    BY <1>1, <1>2, <1>6, <2>1 DEF EvInv, KeyOK
<1>16. t \notin Ready' /\ evictId' >= evictId /\ Evictions!Present' \subseteq Evictions!Present
  BY <1>1, <1>2, <1>8 DEF Ready, EvTyped, Evictions!Present
<1>17. ThreadOK(t)'
  BY <1>11, <1>12, <1>13 DEF ThreadOK
<1> QED
  BY <1>9, <1>10, <1>14, <1>15, <1>16, <1>17, StepKeeps

\* EvictKey: the victim leaves memory, as its DEL says.
LEMMA EvictKeyKeeps ==
  ASSUME EvInv, NEW t \in Thread, Evictions!EvictKey(t)
  PROVE  EvInv'
<1> DEFINE v == evictCmd[t].victim
           c == [evictCmd[t] EXCEPT !.victim = "nobody"]
<1>1. /\ EvTyped /\ ThreadOK(t) /\ CommandOK(t) /\ t # "nobody"
      /\ evictCmd \in [Thread -> EvCmd] /\ evictCmd[t] \in EvCmd
  BY Holding DEF EvInv, EvTyped
<1>2. /\ evictPc[t] = "remove" /\ evictMem' = [evictMem EXCEPT ![v] = Evictions!Absent]
      /\ Evictions!ReleaseVictim(t) /\ evictCmd' = [evictCmd EXCEPT ![t] = c]
      /\ evictPc' = [evictPc EXCEPT ![t] = "evict"]
      /\ UNCHANGED <<evictJournal, wal, inside, exec, buf, evictId>>
  BY <1>1 DEF Evictions!EvictKey, Evictions!Goto, Evictions!Nobody
<1>3. /\ c \in EvCmd /\ c.key = evictCmd[t].key /\ c.strategy = evictCmd[t].strategy
      /\ c.id = evictCmd[t].id
  BY <1>1 DEF EvCmd
<1> HIDE DEF c
<1>4. Resolved(t) /\ v \in MemKey
  BY <1>1, <1>2 DEF CommandOK
<1>5. evictGate' = [evictGate EXCEPT ![v] = "nobody"]
  BY <1>2, <1>4 DEF Evictions!ReleaseVictim, Evictions!Generic, Resolved, Evictions!Nobody
<1>6. /\ evictPc'[t] = "evict" /\ evictCmd'[t] = c /\ evictGate'[v] = "nobody"
      /\ evictPc' \in [Thread -> EvAt] /\ evictCmd' \in [Thread -> EvCmd]
      /\ evictGate' \in [MemKey -> Thread \cup {"nobody"}]
      /\ \A u \in Thread \ {t} : evictPc'[u] = evictPc[u] /\ evictCmd'[u] = evictCmd[u]
      /\ \A j \in MemKey \ {v} : evictGate'[j] = evictGate[j]
  BY <1>1, <1>2, <1>3, <1>4, <1>5 DEF EvTyped, EvAt
<1>7. Evictions!Absent \in EvValue /\ Evictions!Absent.ids = {}
  BY DEF Evictions!Absent, EvValue
<1>8. /\ evictMem' \in [MemKey -> EvValue] /\ evictMem'[v] = Evictions!Absent
      /\ \A j \in MemKey \ {v} : evictMem'[j] = evictMem[j]
  <2>1. evictMem \in [MemKey -> EvValue]
    BY <1>1 DEF EvTyped
  <2> HIDE DEF v
  <2> QED
    BY <1>2, <1>4, <1>7, <2>1
<1>9. EvTyped'
  <2>1. \A j \in MemKey : evictMem'[j].ids \subseteq 1..(evictId' - 1)
    BY <1>1, <1>2, <1>7, <1>8 DEF EvTyped
  <2> QED
    BY <1>1, <1>2, <1>6, <1>8, <2>1 DEF EvTyped
<1>10. ExecInv'
  BY <1>2 DEF ExecInv, EvInv
<1>11. Rebuilt' = Rebuilt
  BY <1>2, Unwritten
<1>12. \A j \in MemKey : evictGate[j] = t <=> j = v
  BY <1>2, <1>4, Holding DEF Owns, KeepsJournal, Resolved
<1>13. Rebuilt[v] = Evictions!Absent
  BY <1>1, <1>2 DEF ThreadOK, MatchOK
<1>14. CommandOK(t)'
  BY <1>1, <1>2, <1>3, <1>6 DEF CommandOK, Resolved
<1>15. LocksOK(t)'
  <2>1. ~KeepsJournal(t) /\ wal # t
    BY <1>2, Holding DEF KeepsJournal
  <2>2. ~KeepsJournal(t)'
    BY <1>3, <1>4, <1>6 DEF KeepsJournal, Resolved
  <2>3. \A j \in MemKey : ~Owns(t, j)' /\ evictGate'[j] # t
    BY <1>1, <1>6, <1>12, <2>2 DEF Owns
  <2> QED
    BY <1>2, <2>1, <2>2, <2>3 DEF LocksOK
<1>16. MatchOK(t)' /\ LastOK(t)'
  BY <1>3, <1>4, <1>6 DEF MatchOK, LastOK, KeepsJournal, Resolved
<1>17. \A u \in Thread \ {t} : Leaves(u)
  <2>1. \A u \in Thread \ {t} : \A j \in MemKey : (evictGate'[j] = u) = (evictGate[j] = u)
    BY <1>4, <1>6, <1>12, ThreadAssumption DEF Tiers!Nobody
  <2>2. \A u \in Thread \ {t} : \A j \in MemKey : evictGate[j] = u => evictMem'[j] = evictMem[j]
    BY <1>4, <1>8, <1>12
  <2> QED
    BY <1>2, <1>6, <1>11, <2>1, <2>2 DEF Leaves
<1>18. \A j \in MemKey : KeyOK(j)'
  BY <1>6, <1>8, <1>11, <1>13 DEF EvInv, KeyOK
<1>19. t \notin Ready' /\ evictId' >= evictId
  BY <1>1, <1>2, <1>6 DEF Ready, EvTyped
<1>20. Evictions!Present' \subseteq Evictions!Present
  BY <1>8 DEF Evictions!Present
<1>21. ThreadOK(t)'
  BY <1>14, <1>15, <1>16 DEF ThreadOK
<1> QED
  BY <1>9, <1>10, <1>17, <1>18, <1>19, <1>20, <1>21, StepKeeps

-----------------------------------------------------------------------------
(* The theorems                                                            *)

\* Nothing is in memory, and nothing in the journal.
LEMMA InitEvInv ==
  ASSUME Evictions!Init
  PROVE  EvInv
<1>1. /\ evictMem = [k \in MemKey |-> Evictions!Absent] /\ evictJournal = <<>> /\ buf = <<>>
      /\ wal = "nobody" /\ exec = "nobody" /\ inside = {}
      /\ evictGate = [k \in MemKey |-> "nobody"] /\ evictPc = [t \in Thread |-> "idle"]
      /\ evictCmd = [t \in Thread |-> Evictions!NoCmd] /\ evictId = 1
  BY DEF Evictions!Init, Evictions!Nobody
<1>2. Evictions!NoCmd \in EvCmd /\ Evictions!Absent \in EvValue /\ Evictions!Absent.ids = {}
  BY DEF Evictions!NoCmd, Evictions!Nobody, EvCmd, Evictions!Absent, EvValue
<1>3. EvTyped /\ ExecInv
  BY <1>1, <1>2 DEF EvTyped, ExecInv, EvAt
<1>4. Rebuilt = [k \in MemKey |-> Evictions!Absent]
  <2>1. evictJournal \o buf = <<>> /\ <<>> \in Seq(EvFrame) /\ Len(<<>>) = 0
    BY <1>1
  <2>2. PICK f : /\ Evictions!Replayed(<<>>) = f[Len(<<>>)]
                 /\ f[0] = [k \in MemKey |-> Evictions!Absent]
    BY <2>1, RunSteps
  <2> QED
    BY <2>1, <2>2 DEF Rebuilt
<1>5. ASSUME NEW t \in Thread PROVE ThreadOK(t)
  <2>1. evictPc[t] = "idle" /\ t # "nobody"
    BY <1>1, ThreadAssumption DEF Tiers!Nobody
  <2> QED
    BY <1>1, <2>1 DEF ThreadOK, CommandOK, LocksOK, MatchOK, LastOK, KeepsJournal, Owns
<1>6. \A k \in MemKey : KeyOK(k)
  BY <1>1, <1>4 DEF KeyOK
<1>7. BoundInv
  <2>1. Evictions!Present = {} /\ Ready = {}
    BY <1>1 DEF Evictions!Present, Ready
  <2>2. Cardinality({}) = 0 /\ Cardinality(Thread) \in Nat
    BY FS_EmptySet, FS_CardinalityType, EvictionAssumption
  <2> QED
    BY <2>1, <2>2, EvictionAssumption DEF BoundInv
<1> QED
  BY <1>3, <1>5, <1>6, <1>7 DEF EvInv

\* Every step keeps the invariant.
LEMMA NextEvInv ==
  ASSUME EvInv, [Evictions!Next]_(Evictions!vars)
  PROVE  EvInv'
<1>1. CASE UNCHANGED Evictions!vars
  <2>1. UNCHANGED <<evictMem, evictJournal, wal, evictGate, inside, exec, buf, evictPc, evictCmd,
                    evictId>>
    BY <1>1 DEF Evictions!vars
  <2>2. Rebuilt' = Rebuilt /\ Evictions!Present' = Evictions!Present
    BY <2>1, Unwritten
  <2>3. EvTyped' /\ ExecInv' /\ evictId \in Nat
    BY <2>1 DEF EvInv, EvTyped, ExecInv
  <2>4. \A u \in Thread : Leaves(u)
    BY <2>1, <2>2 DEF Leaves
  <2>5. \A u \in Thread : ThreadOK(u)'
    BY <2>1, <2>3, <2>4, Others DEF EvInv
  <2>6. \A k \in MemKey : KeyOK(k)'
    BY <2>1, <2>2 DEF EvInv, KeyOK
  <2>7. BoundInv'
    <3>1. Ready' = Ready
      BY <2>1 DEF Ready, Resolved
    <3> QED
      BY <2>2, <3>1, BoundKept DEF EvInv
  <2> QED
    BY <2>3, <2>5, <2>6, <2>7 DEF EvInv
<1>2. ASSUME NEW t \in Thread, NEW kd \in SafeKinds, NEW k \in MemKey,
             NEW v \in Evictions!TtlChoice, NEW n \in 1..MaxQueue,
             Evictions!Start(t, kd[1], kd[2], k, v, n)
      PROVE  EvInv'
  <2>0. n \in Int
    BY QueueAssumption
  <2>1. v \in BOOLEAN
    BY DEF Evictions!TtlChoice
  <2>2. kd = <<kd[1], kd[2]>>
    BY DEF SafeKinds
  <2>3. <<kd[1], kd[2]>> \in SafeKinds
    BY <2>2
  <2> QED
    BY <1>2, <2>0, <2>1, <2>3, StartKeeps
<1>3. ASSUME NEW t \in Thread, Evictions!ThreadStep(t) PROVE EvInv'
  BY <1>3, LockGateKeeps, AppendKeeps, ApplyKeeps, RefusalsKeep, DoneKeeps, EnoughKeeps,
     ChooseKeeps, VictimGateKeeps, VictimAppendKeeps, EvictKeyKeeps DEF Evictions!ThreadStep
<1> QED
  BY <1>1, <1>2, <1>3 DEF Evictions!Next

\* While eviction runs, a step of the suite is one of its steps.
LEMMA EvictionStep ==
  ASSUME [StoreNext]_storeVars, part = "eviction" \/ part' = "eviction"
  PROVE  part' = part /\ [Evictions!Next]_(Evictions!vars)
  BY DEF StoreNext, storeVars, evictionVars, Evictions!vars

\* Locks, frames and memory in every behaviour of commands that evict, alone and within
\* EXEC (eviction.rs: evict_if_needed).
THEOREM EvictionInvariant == StoreSpec => [](part = "eviction" => EvInv)
<1>1. StoreInit => (part = "eviction" => EvInv)
  BY InitEvInv DEF StoreInit
<1>2. (part = "eviction" => EvInv) /\ [StoreNext]_storeVars => (part = "eviction" => EvInv)'
  BY EvictionStep, NextEvInv
<1> QED
  BY <1>1, <1>2, PTL DEF StoreSpec

\* A step takes no key of a table away: a write leaves a value, and an evicted key is none
\* of theirs.
LEMMA NextKeepsTables ==
  ASSUME EvInv, [Evictions!Next]_(Evictions!vars)
  PROVE  Evictions!TablesKept
<1>1. SUFFICES ASSUME NEW k \in Protected, evictMem[k] # Evictions!Absent
               PROVE  evictMem'[k] # Evictions!Absent
  BY DEF Evictions!TablesKept
<1>2. k \in MemKey /\ EvTyped /\ evictMem \in [MemKey -> EvValue]
  BY EvictionAssumption DEF EvInv, EvTyped
<1>3. ASSUME evictMem' = evictMem PROVE evictMem'[k] # Evictions!Absent
  BY <1>1, <1>3
<1>4. ASSUME NEW t \in Thread, Evictions!Apply(t) PROVE evictMem'[k] # Evictions!Absent
  <2> DEFINE j == evictCmd[t].key
             f == Evictions!Frame(t)
  <2>1. evictPc[t] = "apply" /\ evictMem' = [evictMem EXCEPT ![j] = Evictions!Effect(@, f)]
    BY <1>4 DEF Evictions!Apply
  <2>2. j \in MemKey /\ f \in EvFrame /\ f.op # "DEL"
    BY <1>2, <2>1, Holding, Frames DEF CommandOK
  <2>3. Evictions!Effect(evictMem[j], f) # Evictions!Absent
    BY <1>2, <2>2, EffectValue
  <2> HIDE DEF f
  <2> QED
    BY <1>1, <1>2, <2>1, <2>2, <2>3
<1>5. ASSUME NEW t \in Thread, Evictions!EvictKey(t) PROVE evictMem'[k] # Evictions!Absent
  <2>1. /\ evictPc[t] = "remove"
        /\ evictMem' = [evictMem EXCEPT ![evictCmd[t].victim] = Evictions!Absent]
    BY <1>5 DEF Evictions!EvictKey
  <2>2. evictCmd[t].victim \in MemKey \ Protected
    BY <2>1, Holding DEF CommandOK
  <2> QED
    BY <1>1, <1>2, <2>1, <2>2
<1>6. CASE UNCHANGED Evictions!vars
  BY <1>3, <1>6 DEF Evictions!vars
<1>7. ASSUME NEW t \in Thread, NEW s, NEW g, NEW j \in MemKey, NEW v, NEW n,
             Evictions!Start(t, s, g, j, v, n)
      PROVE  evictMem' = evictMem
  BY <1>7 DEF Evictions!Start
<1>8. ASSUME NEW t \in Thread, \/ Evictions!LockGate(t) \/ Evictions!AppendFrame(t)
                               \/ Evictions!Reject(t) \/ Evictions!Done(t)
      PROVE  evictMem' = evictMem
  BY <1>8 DEF Evictions!LockGate, Evictions!AppendFrame, Evictions!Reject, Evictions!Done
<1>9. ASSUME NEW t \in Thread, \/ Evictions!EvictEnough(t) \/ Evictions!EvictRefused(t)
                               \/ Evictions!VictimGate(t) \/ Evictions!VictimAppend(t)
                               \/ Evictions!EvictKeyGone(t)
                               \/ \E j \in MemKey : Evictions!ChooseVictim(t, j)
      PROVE  evictMem' = evictMem
  BY <1>9 DEF Evictions!EvictEnough, Evictions!EvictRefused, Evictions!ChooseVictim,
     Evictions!VictimGate, Evictions!VictimAppend, Evictions!EvictKeyGone
<1>10. ASSUME NEW t \in Thread, Evictions!ThreadStep(t) PROVE evictMem'[k] # Evictions!Absent
  BY <1>3, <1>4, <1>5, <1>8, <1>9, <1>10 DEF Evictions!ThreadStep
<1> QED
  BY <1>3, <1>6, <1>7, <1>10 DEF Evictions!Next

\* What the invariant says of a state.
LEMMA EvictionStates ==
  ASSUME EvInv
  PROVE  Evictions!ReplayMatchesMemory /\ Evictions!MemoryBounded
<1>1. Evictions!ReplayMatchesMemory
  <2>1. SUFFICES ASSUME exec = "nobody", NEW k \in MemKey, evictGate[k] = "nobody"
                 PROVE  Evictions!Replayed(evictJournal)[k] = evictMem[k]
    BY DEF Evictions!ReplayMatchesMemory, Evictions!Nobody
  <2>2. evictJournal \o buf = evictJournal
    <3>1. evictJournal \in Seq(EvFrame) /\ buf = <<>>
      BY <2>1 DEF EvInv, EvTyped, ExecInv
    <3> QED
      BY <3>1
  <2> QED
    BY <2>1, <2>2 DEF EvInv, KeyOK, Rebuilt
<1>2. Evictions!MemoryBounded
  <2>1. Evictions!Present \subseteq MemKey /\ Ready \subseteq Thread
    BY DEF Evictions!Present, Ready
  <2>2. /\ Cardinality(Evictions!Present) \in Nat /\ Cardinality(Ready) \in Nat
        /\ Cardinality(Thread) \in Nat
    BY <2>1, FiniteCounts
  <2>3. /\ Evictions!Cardinality(Evictions!Present) = Cardinality(Evictions!Present)
        /\ Evictions!Cardinality(Thread) = Cardinality(Thread)
    BY DEF Cardinality, Evictions!Cardinality
  <2>4. Cardinality(Evictions!Present) <= MaxMem + Cardinality(Thread)
    BY <2>2, EvictionAssumption DEF EvInv, BoundInv
  <2> QED
    BY <2>3, <2>4 DEF Evictions!MemoryBounded
<1> QED
  BY <1>1, <1>2

\* Memory-mode eviction (eviction.rs: evict_if_needed, evict_selected_key): the journal
\* rebuilds what is in memory, evictions included; memory passes the limit by at most a key
\* per thread; and no key of a table is taken away.
THEOREM EvictionAlwaysSound == StoreSpec => EvictionSound
<1>1. (part = "eviction" => EvInv) =>
        (part = "eviction" => Evictions!ReplayMatchesMemory /\ Evictions!MemoryBounded)
  BY EvictionStates
<1>2. (part = "eviction" => EvInv) /\ [StoreNext]_storeVars =>
        [part = "eviction" => Evictions!TablesKept]_evictionVars
  BY EvictionStep, NextKeepsTables
<1> QED
  BY <1>1, <1>2, EvictionInvariant, PTL DEF StoreSpec, EvictionSound

\* Every variable of the store has its type, and: nobody spills keys while it is counted
\* in (tiered_memory_boundary), a channel is reserved exactly while one drain works for it
\* (try_reserve_owned), and only a generic command keeps the journal locked from one step
\* to the next (commit_journaled_checked).
THEOREM StoreTypes == StoreSpec => []StoreTypeOK
<1>1. TransactionInv => TypeOK
  BY DEF TransactionInv
<1>2. TierInv => Tiers!TypeOK
  BY DEF TierInv, BoundaryInv, Tiers!TypeOK
<1>3. ASSUME EvInv PROVE Evictions!TypeOK
  <2>1. /\ evictMem \in [MemKey -> [ids : SUBSET (1..(evictId - 1)), vol : BOOLEAN]]
        /\ evictGate \in [MemKey -> Thread \cup {"nobody"}]
        /\ inside \subseteq Thread /\ exec \in Thread \cup {"nobody"}
        /\ exec # "nobody" => inside = {}
    <3>1. \A k \in MemKey : evictMem[k] \in [ids : SUBSET (1..(evictId - 1)), vol : BOOLEAN]
      BY <1>3 DEF EvInv, EvTyped, EvValue
    <3> QED
      BY <1>3, <3>1 DEF EvInv, EvTyped, ExecInv
  <2>2. ASSUME wal # "nobody" PROVE wal \in inside /\ Evictions!Generic(wal)
    <3>1. wal \in Thread
      BY <1>3, <2>2 DEF EvInv, EvTyped
    <3>2. KeepsJournal(wal) /\ CommandOK(wal)
      BY <1>3, <3>1, Holding
    <3> QED
      BY <3>2 DEF KeepsJournal, CommandOK, Resolved, Evictions!Generic
  <2> QED
    BY <2>1, <2>2 DEF Evictions!TypeOK, Evictions!Nobody
<1>4. /\ TransactionInv /\ TierInv
      /\ part = "eviction" => EvInv
      /\ part = "lists" => ReservedInv /\ Lists!TypeOK
      => StoreTypeOK
  BY <1>1, <1>2, <1>3 DEF StoreTypeOK
<1> QED
  BY <1>4, StoreImplements, TransactionInvariant, TierInvariant, EvictionInvariant, PermitsKept, PTL

=============================================================================
