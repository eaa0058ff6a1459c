------------------------- MODULE JournalPowerProofs -------------------------
(***************************************************************************)
(* Power-loss safety of the journal: JournalInv and PowerInv are inductive *)
(* for every step as long as names are safe (SafeNames), and imply what a  *)
(* start after a crash or a power loss promises.                           *)
(***************************************************************************)
EXTENDS JournalProofs, FiniteSetTheorems

-----------------------------------------------------------------------------
(* One snapshot and one journal file                                       *)

\* Snapshot s and journal file w as a start accepts them, whichever of their
\* names is stale.
Fits(s, w) ==
  /\ s.gen = NoGen \/ s.gen = w.gen \/ s.succ = w.gen
  /\ s.gen # w.gen => \A f \in w.frames : f.id >= s.offset
  /\ s.offset <= w.end
  /\ \A k \in Key : \A i \in s.image[k] : i < s.offset
  /\ \A f \in w.frames : Bad(f) =>
       f.id >= s.offset /\ (\A g \in w.frames : g.id <= f.id) /\ (f.doomed => f.checked)

\* The replay of files that fit starts, in effect, where the snapshot ends.
LEMMA FitsRecovers ==
  ASSUME NEW s \in SnapshotFile, NEW w \in WalFile, Fits(s, w), NEW k \in Key, NEW i
  PROVE  i \in Recovered(s, w)[k] <=> Rebuilt(s, w, s.offset, k, i)
<1>1. i \in Recovered(s, w)[k] <=> Rebuilt(s, w, ReplayOffset(s, w), k, i)
  BY RecoveredIs DEF Fits
<1>2. ASSUME NEW f \in w.frames
      PROVE  f.id >= ReplayOffset(s, w) <=> f.id >= s.offset
  <2>1. f.id \in Nat
    BY DEF WalFile, Frame
  <2> QED
    BY <2>1 DEF ReplayOffset, Fits
<1> QED
  BY <1>1, <1>2 DEF Rebuilt

\* Files that fit pass every check of the startup.
LEMMA FitsNotRefused ==
  ASSUME NEW s \in SnapshotFile, NEW w \in WalFile, Fits(s, w)
  PROVE  ~Refused(s, w)
<1>1. ~(s.gen # NoGen /\ w.gen \notin {s.gen, s.succ})
  BY DEF Fits
<1>2. ~(s.gen = w.gen /\ s.offset > w.end)
  BY DEF Fits, WalFile, SnapshotFile
<1>3. ~(\E f \in w.frames : ~f.whole /\ ~IsLast(f, w))
  BY DEF Fits, Bad, IsLast
<1>4. ~(\E f \in ReplayFrames(s, w) \ RejectedTail(s, w) : f.doomed)
  BY DEF Fits, Bad, IsLast, ReplayFrames, RejectedTail
<1> QED
  BY <1>1, <1>2, <1>3, <1>4 DEF Refused

\* The replay of files that fit repeats nothing that the image contains.
LEMMA FitsOnce ==
  ASSUME NEW s \in SnapshotFile, NEW w \in WalFile, Fits(s, w), NEW k \in Key
  PROVE  s.image[k] \cap Ids({f \in ReplayFrames(s, w) : k \in f.keys}) = {}
<1>1. ASSUME NEW f \in ReplayFrames(s, w), f.id \in s.image[k] PROVE FALSE
  <2>1. f \in w.frames /\ f.id >= ReplayOffset(s, w)
    BY DEF ReplayFrames
  <2>2. f.id \in Nat /\ f.id < s.offset /\ s.offset \in Nat
    BY <1>1, <2>1 DEF Fits, WalFile, Frame, SnapshotFile
  <2> QED
    BY <2>1, <2>2 DEF ReplayOffset, Fits
<1> QED
  BY <1>1 DEF Ids

\* Recovery rebuilds issue numbers.
LEMMA RecoversNumbers ==
  ASSUME NEW s \in SnapshotFile, NEW w \in WalFile, NEW k \in Key
  PROVE  Recovered(s, w)[k] \subseteq Nat
<1>1. Recovered(s, w)[k] =
        s.image[k] \cup {f.id : f \in {g \in ReplayFrames(s, w) \ RejectedTail(s, w) : k \in g.keys}}
  BY DEF Recovered, Ids
<1>2. ReplayFrames(s, w) \subseteq w.frames
  BY DEF ReplayFrames
<1>3. s.image[k] \subseteq Nat /\ \A f \in w.frames : f.id \in Nat
  BY DEF SnapshotFile, WalFile, Frame
<1> QED
  BY <1>1, <1>2, <1>3

\* All that a restart rebuilds is below the end of the journal.
BelowEnd == \A k \in Key : \A i \in Recoverable[k] : i \in Nat /\ i < wal.end

\* The files as they are now fit, and what they rebuild ends with the journal.
LEMMA PresentFits ==
  TypeOK /\ FrameInv /\ SnapInv
    => Fits(snap, wal) /\ BelowEnd
<1> SUFFICES ASSUME TypeOK, FrameInv, SnapInv PROVE Fits(snap, wal) /\ BelowEnd
  OBVIOUS
<1>1. Fits(snap, wal)
  BY DEF FrameInv, SnapInv, Fits
<1>2. ASSUME NEW k \in Key, NEW i \in Recoverable[k] PROVE i \in Nat /\ i < wal.end
  <2>1. snap.offset \in Nat /\ wal.end \in Nat /\ i \in Nat
    BY RecoversNumbers DEF TypeOK, SnapshotFile, WalFile, Recoverable
  <2>2. i < snap.offset \/ \E f \in wal.frames : f.id = i
    BY RecoverableIs DEF Rebuilt, SnapInv
  <2>3. CASE i < snap.offset
    BY <2>1, <2>3 DEF SnapInv
  <2>4. CASE \E f \in wal.frames : f.id = i
    BY <2>4, <2>1 DEF FrameInv
  <2> QED
    BY <2>2, <2>3, <2>4
<1> QED
  BY <1>1, <1>2 DEF BelowEnd

\* Journal file w by itself.
Sound(w) ==
  /\ w.synced <= w.end
  /\ \A f \in w.frames : f.id < w.end
  /\ \A f, g \in w.frames : f.id = g.id => f = g
  /\ \A f \in w.frames : Bad(f) => (\A g \in w.frames : g.id <= f.id) /\ (f.doomed => f.checked)

\* What a power loss leaves of a journal file: n is where it cut the history,
\* the good frames before n are there, and a frame it tore is the last.
LEMMA CutIs ==
  ASSUME NEW w \in WalFile, Sound(w), NEW c \in PowerCut(w)
  PROVE  /\ c \in WalFile /\ Sound(c) /\ c.gen = w.gen /\ c.synced = c.end /\ c.end <= w.end
         /\ w.synced <= c.end
         /\ \A g \in c.frames : \E f \in w.frames : f.id = g.id
         /\ \A g \in c.frames : Bad(g) => g.id >= w.synced \/ g \in w.frames
         /\ \E n \in Nat :
              /\ w.synced <= n /\ n <= c.end
              /\ \A g : g \in c.frames /\ ~Bad(g) <=> g \in w.frames /\ ~Bad(g) /\ g.id < n
<1>1. /\ w.synced \in Nat /\ w.end \in Nat /\ w.gen \in Nat /\ w.frames \subseteq Frame
      /\ \A f \in w.frames : f.id \in Nat
  BY DEF WalFile, Frame
<1>2. ASSUME NEW m \in Nat, w.synced <= m, m <= w.end
      PROVE  /\ KeptUpTo(w, m).frames = {f \in w.frames : f.id < m}
             /\ KeptUpTo(w, m).gen = w.gen
             /\ KeptUpTo(w, m).synced = m /\ KeptUpTo(w, m).end = m
             /\ KeptUpTo(w, m) \in WalFile
  BY <1>1, <1>2 DEF KeptUpTo, SetLen, WalFile
<1>3. ASSUME NEW m \in Nat, w.synced <= m, m <= w.end, c = KeptUpTo(w, m)
      PROVE  /\ c \in WalFile /\ Sound(c) /\ c.gen = w.gen /\ c.synced = c.end /\ c.end <= w.end
             /\ w.synced <= c.end
             /\ c.frames \subseteq w.frames
             /\ w.synced <= m /\ m <= c.end
             /\ \A g : g \in c.frames /\ ~Bad(g) <=> g \in w.frames /\ ~Bad(g) /\ g.id < m
  <2>1. /\ c.gen = w.gen /\ c.frames = {f \in w.frames : f.id < m} /\ c.synced = m /\ c.end = m
        /\ c \in WalFile
    BY <1>1, <1>2, <1>3 DEF WalFile
  <2> QED
    BY <1>1, <1>3, <2>1 DEF Sound
<1>4. ASSUME NEW f \in w.frames, f.id >= w.synced, c = TornAt(w, f)
      PROVE  /\ c \in WalFile /\ Sound(c) /\ c.gen = w.gen /\ c.synced = c.end /\ c.end <= w.end
             /\ w.synced <= c.end
             /\ \A g \in c.frames : g \in w.frames \/ g.id = f.id
             /\ w.synced <= f.id /\ f.id <= c.end
             /\ \A g : g \in c.frames /\ ~Bad(g) <=> g \in w.frames /\ ~Bad(g) /\ g.id < f.id
  <2> DEFINE torn == [f EXCEPT !.whole = FALSE]
             m == f.id + 1
  <2>0. m \in Nat /\ w.synced <= m /\ m <= w.end
    BY <1>1, <1>4 DEF Sound
  <2>1. /\ c.gen = w.gen /\ c.synced = m /\ c.end = m
        /\ c.frames = ({g \in w.frames : g.id < m} \ {f}) \cup {torn}
    <3> DEFINE kept == KeptUpTo(w, m)
    <3>1. /\ kept.frames = {g \in w.frames : g.id < m} /\ kept.gen = w.gen
          /\ kept.synced = m /\ kept.end = m /\ kept \in WalFile
      BY <1>2, <2>0
    <3>2. c = [kept EXCEPT !.frames = (kept.frames \ {f}) \cup {torn}]
      BY <1>4 DEF TornAt
    <3> HIDE DEF kept, torn, m
    <3> QED
      BY <3>1, <3>2 DEF WalFile
  <2>2. torn.id = f.id /\ ~torn.whole /\ torn.doomed = f.doomed /\ torn.checked = f.checked
        /\ torn \in Frame
    BY <1>1 DEF Frame
  <2>3. c \in WalFile
    <3> DEFINE kept == KeptUpTo(w, m)
    <3>1. kept \in WalFile
      BY <1>2, <2>0
    <3>2. c = [kept EXCEPT !.frames = (kept.frames \ {f}) \cup {torn}]
      BY <1>4 DEF TornAt
    <3> HIDE DEF kept, torn
    <3> QED
      BY <2>2, <3>1, <3>2 DEF WalFile
  <2> HIDE DEF torn
  <2>4. ASSUME NEW g \in w.frames PROVE g.id < m /\ g # f <=> g.id < f.id
    BY <1>1 DEF Sound
  <2>5. \A g : g \in c.frames <=> (g \in w.frames /\ g.id < f.id) \/ g = torn
    BY <2>1, <2>4
  <2>6. f.doomed => f.checked
    BY DEF Sound, Bad
  <2>7. \A g \in w.frames : Bad(g) => f.id <= g.id
    BY DEF Sound
  <2>8. Bad(torn)
    BY <2>2 DEF Bad
  <2>9. ASSUME NEW g \in c.frames PROVE g.id \in Nat /\ g.id <= f.id /\ g.id < c.end
    BY <1>1, <2>1, <2>2, <2>5
  <2>10. ASSUME NEW g \in c.frames, Bad(g) PROVE g = torn
    BY <1>1, <2>5, <2>7, <2>10
  <2>11. \A g, h \in c.frames : g.id = h.id => g = h
    BY <1>1, <2>2, <2>5 DEF Sound
  <2>12. Sound(c)
    BY <1>1, <2>1, <2>2, <2>6, <2>9, <2>10, <2>11 DEF Sound
  <2>13. \A g : g \in c.frames /\ ~Bad(g) <=> g \in w.frames /\ ~Bad(g) /\ g.id < f.id
    BY <2>5, <2>8
  <2> QED
    BY <1>1, <1>4, <2>0, <2>1, <2>2, <2>3, <2>5, <2>12, <2>13
<1>5. CASE c = KeptUpTo(w, w.synced)
  <2>1. w.synced <= w.synced /\ w.synced <= w.end
    BY <1>1 DEF Sound
  <2> QED
    BY <1>1, <1>3, <1>5, <2>1
<1>6. ASSUME NEW f \in w.frames, f.id >= w.synced, c = KeptUpTo(w, f.id + 1)
      PROVE  \E m \in Nat : w.synced <= m /\ m <= w.end /\ c = KeptUpTo(w, m)
  <2>1. f.id + 1 \in Nat /\ w.synced <= f.id + 1 /\ f.id + 1 <= w.end
    BY <1>1, <1>6 DEF Sound
  <2> QED
    BY <1>6, <2>1
<1>7. CASE \E m \in Nat : w.synced <= m /\ m <= w.end /\ c = KeptUpTo(w, m)
  BY <1>3, <1>7
<1>8. CASE \E f \in w.frames : f.id >= w.synced /\ c = TornAt(w, f)
  <2>1. PICK f \in w.frames : f.id >= w.synced /\ c = TornAt(w, f)
    BY <1>8
  <2>2. f.id \in Nat
    BY <1>1
  <2> QED
    BY <1>4, <2>1, <2>2
<1> QED
  BY <1>5, <1>6, <1>7, <1>8 DEF PowerCut

-----------------------------------------------------------------------------
(* What a power loss leaves of the present files                           *)

\* The files of an invariant state are well typed and sound.
LEMMA FilesTyped ==
  ASSUME TypeOK, PairsInv
  PROVE  /\ Snaps \subseteq SnapshotFile /\ Wals \subseteq WalFile
         /\ \A w \in Wals : Sound(w)
         /\ \A s \in Snaps, w \in Wals : Fits(s, w)
<1>1. Snaps \subseteq SnapshotFile /\ Wals \subseteq WalFile
  BY DEF TypeOK, Snaps, Wals
<1>2. \A w \in Wals : Sound(w)
  BY DEF PairsInv, WalOK, Sound
<1>3. ASSUME NEW s \in Snaps, NEW w \in Wals PROVE Fits(s, w)
  <2>1. s.offset \in Nat /\ snap.offset \in Nat /\ w.synced \in Nat /\ w.end \in Nat
        /\ \A f \in w.frames : f.id \in Nat
    BY <1>1 DEF TypeOK, SnapshotFile, WalFile, Frame
  <2>2. s.offset <= snap.offset /\ WalOK(w) /\ PairOK(s, w)
    BY DEF PairsInv
  <2>3. \A k \in Key : \A i \in s.image[k] : i < s.offset
    BY DEF PairsInv
  <2>4. s.offset <= w.end
    BY <2>1, <2>2 DEF WalOK
  <2>5. \A f \in w.frames : Bad(f) =>
           f.id >= s.offset /\ (\A g \in w.frames : g.id <= f.id) /\ (f.doomed => f.checked)
    BY <2>1, <2>2 DEF WalOK
  <2> QED
    BY <2>2, <2>3, <2>4, <2>5 DEF Fits, PairOK
<1> QED
  BY <1>1, <1>2, <1>3

\* A power loss brings back files that fit and rebuild a prefix of the history,
\* not shorter than what was synced of the journal file it left.
LEMMA CutFits ==
  ASSUME TypeOK, PairsInv, NEW s \in Snaps, NEW w \in Wals, NEW c \in PowerCut(w)
  PROVE  /\ Fits(s, c)
         /\ \E n \in Nat :
              /\ w.synced <= n /\ n <= nextId
              /\ \A k \in Key : Recovered(s, c)[k] = {i \in Recoverable[k] : i < n}
<1>1. s \in SnapshotFile /\ w \in WalFile /\ Sound(w) /\ Fits(s, w)
  BY FilesTyped
<1>2. /\ c \in WalFile /\ Sound(c) /\ c.gen = w.gen /\ c.synced = c.end /\ c.end <= w.end
      /\ w.synced <= c.end
      /\ \A g \in c.frames : \E f \in w.frames : f.id = g.id
      /\ \A g \in c.frames : Bad(g) => g.id >= w.synced \/ g \in w.frames
      /\ \E n \in Nat :
           /\ w.synced <= n /\ n <= c.end
           /\ \A g : g \in c.frames /\ ~Bad(g) <=> g \in w.frames /\ ~Bad(g) /\ g.id < n
  BY <1>1, CutIs
<1>3. /\ s.offset \in Nat /\ snap.offset \in Nat /\ w.synced \in Nat /\ w.end \in Nat
      /\ c.end \in Nat /\ nextId \in Nat
      /\ \A f \in w.frames \cup c.frames : f.id \in Nat
  BY <1>1, <1>2 DEF TypeOK, SnapshotFile, WalFile, Frame
<1>4. s.offset <= w.synced /\ w.end <= nextId
  BY <1>3 DEF PairsInv, WalOK
<1>5. Fits(s, c)
  <2>1. s.gen = NoGen \/ s.gen = c.gen \/ s.succ = c.gen
    BY <1>1, <1>2 DEF Fits
  <2>2. s.gen # c.gen => \A f \in c.frames : f.id >= s.offset
    BY <1>1, <1>2 DEF Fits
  <2>3. s.offset <= c.end
    BY <1>2, <1>3, <1>4
  <2>4. \A k \in Key : \A i \in s.image[k] : i < s.offset
    BY <1>1 DEF Fits
  <2>5. ASSUME NEW f \in c.frames, Bad(f)
        PROVE  f.id >= s.offset /\ (\A g \in c.frames : g.id <= f.id) /\ (f.doomed => f.checked)
    <3>1. (\A g \in c.frames : g.id <= f.id) /\ (f.doomed => f.checked)
      BY <1>2, <2>5 DEF Sound
    <3>2. CASE f.id >= w.synced
      BY <1>3, <1>4, <3>1, <3>2
    <3>3. CASE f \in w.frames
      BY <1>1, <2>5, <3>1, <3>3 DEF Fits
    <3> QED
      BY <1>2, <2>5, <3>2, <3>3
  <2> QED
    BY <2>1, <2>2, <2>3, <2>4, <2>5 DEF Fits
<1>6. PICK n \in Nat :
        /\ w.synced <= n /\ n <= c.end
        /\ \A g : g \in c.frames /\ ~Bad(g) <=> g \in w.frames /\ ~Bad(g) /\ g.id < n
  BY <1>2
<1>7. n <= nextId /\ n <= w.end
  BY <1>2, <1>3, <1>4, <1>6
<1>8. ASSUME NEW k \in Key PROVE Recovered(s, c)[k] = {i \in Recoverable[k] : i < n}
  <2>1. Recoverable[k] \subseteq Nat
    BY RecoversNumbers DEF Recoverable, TypeOK
  <2>2. ASSUME NEW i PROVE i \in Recovered(s, w)[k] <=> i \in Recoverable[k] /\ i < w.end
    <3>1. Recovered(s, w) = UpTo(Recoverable, w.end)
      BY DEF PairsInv, PairOK
    <3> QED
      BY <3>1 DEF UpTo
  <2>3. ASSUME NEW i \in s.image[k] PROVE i < n
    <3>1. i \in Nat /\ i < s.offset
      BY <1>1 DEF Fits, SnapshotFile
    <3> QED
      BY <1>3, <1>4, <1>6, <3>1
  <2>4. ASSUME NEW i
        PROVE  Rebuilt(s, c, s.offset, k, i) <=> Rebuilt(s, w, s.offset, k, i) /\ i < n
    BY <1>6, <2>3 DEF Rebuilt
  <2>5. ASSUME NEW i PROVE i \in Recovered(s, c)[k] <=> i \in Recoverable[k] /\ i < n
    <3>1. i \in Recovered(s, c)[k] <=> i \in Recovered(s, w)[k] /\ i < n
      BY <1>1, <1>2, <1>5, <2>4, FitsRecovers
    <3>2. i \in Nat /\ i < n => i < w.end
      BY <1>3, <1>7
    <3> QED
      BY <2>1, <2>2, <3>1, <3>2
  <2> QED
    BY <2>5
<1> QED
  BY <1>5, <1>6, <1>7, <1>8

-----------------------------------------------------------------------------
(* PairsInv                                                                *)

\* The journal and the snapshot that the names denote now are one of the pairs.
LEMMA PresentPair ==
  TypeOK /\ FrameInv /\ SnapInv /\ snap.offset <= wal.synced /\ wal.synced <= wal.end
    => /\ WalOK(wal) /\ PairOK(snap, wal)
       /\ \A k \in Key : \A i \in snap.image[k] : i < snap.offset
<1> SUFFICES ASSUME TypeOK, FrameInv, SnapInv, snap.offset <= wal.synced, wal.synced <= wal.end
             PROVE  /\ WalOK(wal) /\ PairOK(snap, wal)
                    /\ \A k \in Key : \A i \in snap.image[k] : i < snap.offset
  OBVIOUS
<1>1. WalOK(wal)
  BY DEF WalOK, FrameInv, SnapInv
<1>2. Recovered(snap, wal) = UpTo(Recoverable, wal.end)
  <2>1. \A k \in Key : Recoverable[k] = {i \in Recoverable[k] : i < wal.end}
    BY PresentFits DEF BelowEnd
  <2> QED
    BY <2>1 DEF UpTo, Recoverable, Recovered
<1> QED
  BY <1>1, <1>2 DEF PairOK, SnapInv

\* The same of the next state.
LEMMA PresentPairNext ==
  ASSUME TypeOK', FrameInv', SnapInv', (snap.offset <= wal.synced)', (wal.synced <= wal.end)'
  PROVE  /\ WalOK(wal)' /\ PairOK(snap, wal)'
         /\ (\A k \in Key : \A i \in snap.image[k] : i < snap.offset)'
  BY PresentPair, PTL

\* What the files rebuild in the next state, by frames.
LEMMA RecoverableNext ==
  ASSUME TypeOK', FrameInv', SnapInv', NEW k \in Key
  PROVE  /\ \A i : i \in Recoverable'[k] <=> Rebuilt(snap', wal', snap'.offset, k, i)
         /\ \A i \in Recoverable'[k] : i \in Nat /\ i < wal'.end
<1>1. Fits(snap', wal') /\ snap' \in SnapshotFile /\ wal' \in WalFile
  BY DEF FrameInv, SnapInv, Fits, TypeOK
<1>2. \A i : i \in Recoverable'[k] <=> Rebuilt(snap', wal', snap'.offset, k, i)
  BY <1>1, FitsRecovers DEF Recoverable
<1>3. BelowEnd'
  BY PresentFits, PTL
<1> QED
  BY <1>2, <1>3 DEF BelowEnd

\* A step that at most syncs the journal or drops stale names.
LEMMA PairsQuiet ==
  ASSUME TypeOK, TypeOK', PairsInv, Recoverable' = Recoverable,
         UNCHANGED <<snap, nextId>>, nextGen' >= nextGen, Snaps' \subseteq Snaps,
         staleWals' \subseteq staleWals,
         wal'.frames = wal.frames, wal'.gen = wal.gen, wal'.end = wal.end,
         wal.synced <= wal'.synced, wal'.synced <= wal'.end,
         \A v \in Writer : Holding(v)' => Holding(v) /\ job'[v] = job[v]
  PROVE  PairsInv'
<1>1. ASSUME NEW x \in Wals'
      PROVE  \E w \in Wals : /\ x.frames = w.frames /\ x.gen = w.gen /\ x.end = w.end
                             /\ w.synced <= x.synced /\ x.synced <= x.end
  <2>1. CASE x = wal'
    BY <2>1 DEF Wals
  <2>2. CASE x \in staleWals
    <3>1. x.synced <= x.end /\ x.synced \in Nat
      BY <2>2 DEF PairsInv, Wals, WalOK, TypeOK, WalFile
    <3> QED
      BY <2>2, <3>1 DEF Wals
  <2> QED
    BY <1>1, <2>1, <2>2 DEF Wals
<1>2. ASSUME NEW x \in Wals' PROVE WalOK(x)' /\ \A s \in Snaps' : PairOK(s, x)'
  <2>1. PICK w \in Wals : /\ x.frames = w.frames /\ x.gen = w.gen /\ x.end = w.end
                          /\ w.synced <= x.synced /\ x.synced <= x.end
    BY <1>1
  <2>2. WalOK(w) /\ \A s \in Snaps : PairOK(s, w)
    BY DEF PairsInv
  <2>3. x.synced \in Nat /\ w.synced \in Nat /\ snap.offset \in Nat /\ x.gen \in Nat
        /\ nextGen \in Nat /\ nextGen' \in Nat
    BY DEF TypeOK, Wals, WalFile, SnapshotFile
  <2>4. snap.offset <= x.synced /\ x.gen < nextGen'
    BY <2>1, <2>2, <2>3 DEF WalOK
  <2>5. WalOK(x)'
    BY <2>1, <2>2, <2>4 DEF WalOK
  <2>6. ASSUME NEW s \in Snaps' PROVE PairOK(s, x)'
    <3>1. Recovered(s, x) = Recovered(s, w)
      BY <2>1, SameRecovered
    <3>2. PairOK(s, w)
      BY <2>2, <2>6
    <3> QED
      BY <2>1, <3>1, <3>2 DEF PairOK, UpTo
  <2> QED
    BY <2>5, <2>6
<1>3. \A s \in Snaps' :
        s.offset <= snap'.offset /\ \A k \in Key : \A i \in s.image[k] : i < s.offset
  BY DEF PairsInv
<1>4. \A w \in staleWals' : \A v \in Writer : Holding(v)' => job'[v].id >= w.end
  BY DEF PairsInv
<1> QED
  BY <1>2, <1>3, <1>4 DEF PairsInv

\* A step that changes the journal at one offset d behind every stale file: a
\* frame starts, is completed or is rolled back, or a bad tail is dropped.
LEMMA PairsChange ==
  ASSUME TypeOK, TypeOK', FrameInv, SnapInv, FrameInv', SnapInv', PairsInv,
         UNCHANGED <<snap, staleSnaps, nextGen>>, wal'.gen = wal.gen, nextId' >= nextId,
         NEW d \in Nat, snap.offset <= d,
         \A f : f.id # d => (f \in wal.frames /\ ~Bad(f) <=> f \in wal'.frames /\ ~Bad(f)),
         \A f \in wal'.frames : f.id = d \/ f \in wal.frames,
         snap.offset <= wal'.synced, wal'.synced <= wal'.end,
         staleWals' \subseteq staleWals, \A w \in staleWals' : w.end <= d,
         \A v \in Writer : Holding(v)' => (Holding(v) /\ job'[v] = job[v]) \/ job'[v].id = d
  PROVE  PairsInv'
<1>1. /\ Snaps' = Snaps /\ Snaps \subseteq SnapshotFile /\ Wals \subseteq WalFile
      /\ \A s \in Snaps, w \in Wals : Fits(s, w)
  BY FilesTyped DEF Snaps
<1>2. /\ d \in Nat /\ snap.offset \in Nat /\ nextId \in Nat /\ nextId' \in Nat
      /\ wal' \in WalFile /\ wal'.end \in Nat /\ wal'.synced \in Nat
      /\ \A f \in wal'.frames : f.id \in Nat
  BY DEF TypeOK, WalFile, SnapshotFile, Frame
<1>3. /\ WalOK(wal)'
      /\ (\A k \in Key : \A i \in snap.image[k] : i < snap.offset)'
  BY PresentPairNext
<1>4. ASSUME NEW k \in Key, NEW i, i # d PROVE i \in Recoverable'[k] <=> i \in Recoverable[k]
  <2>1. i \in Recoverable'[k] <=> Rebuilt(snap, wal', snap.offset, k, i)
    BY RecoverableNext
  <2>2. i \in Recoverable[k] <=> Rebuilt(snap, wal, snap.offset, k, i)
    BY RecoverableIs
  <2> QED
    BY <1>4, <2>1, <2>2 DEF Rebuilt
<1>5. ASSUME NEW s \in Snaps PROVE PairOK(s, wal)'
  <2>1. s \in SnapshotFile /\ s.offset \in Nat /\ s.offset <= snap.offset
    BY <1>1 DEF PairsInv, SnapshotFile
  <2>2. Fits(s, wal) /\ PairOK(s, wal) /\ wal \in WalFile
    BY <1>1 DEF PairsInv, Wals
  <2>3. s.gen # wal'.gen => \A f \in wal'.frames : f.id >= s.offset
    BY <1>2, <2>1, <2>2 DEF Fits
  <2>4. \A f \in wal'.frames : Bad(f) =>
          f.id >= s.offset /\ (\A g \in wal'.frames : g.id <= f.id) /\ (f.doomed => f.checked)
    <3>1. \A f \in wal'.frames : Bad(f) =>
            f.id >= snap.offset /\ (\A g \in wal'.frames : g.id <= f.id) /\ (f.doomed => f.checked)
      BY DEF FrameInv, Bad
    <3> QED
      BY <1>2, <2>1, <3>1
  <2>5. s.offset <= wal'.end
    BY <1>2, <2>1
  <2>6. Fits(s, wal')
    BY <2>2, <2>3, <2>4, <2>5 DEF Fits
  <2>7. ASSUME NEW k \in Key, NEW i PROVE i \in Recovered(s, wal')[k] <=> i \in Recoverable'[k]
    <3>1. i \in Recovered(s, wal')[k] <=> Rebuilt(s, wal', s.offset, k, i)
      BY <1>2, <2>1, <2>6, FitsRecovers
    <3>2. i \in Recoverable'[k] <=> Rebuilt(snap, wal', snap.offset, k, i)
      BY RecoverableNext
    <3>3. CASE i = d
      <4>1. d \notin s.image[k] /\ d \notin snap.image[k]
        <5>1. \A j \in s.image[k] : j < s.offset
          BY <2>2 DEF Fits
        <5>2. \A j \in snap.image[k] : j < snap.offset
          BY DEF SnapInv
        <5> QED
          BY <1>2, <2>1, <5>1, <5>2
      <4>2. d >= s.offset /\ d >= snap.offset
        BY <1>2, <2>1
      <4> QED
        BY <3>1, <3>2, <3>3, <4>1, <4>2 DEF Rebuilt
    <3>4. CASE i # d
      <4>1. Rebuilt(s, wal', s.offset, k, i) <=> Rebuilt(s, wal, s.offset, k, i)
        BY <3>4 DEF Rebuilt
      <4>2. Rebuilt(s, wal, s.offset, k, i) <=> i \in Recovered(s, wal)[k]
        BY <2>1, <2>2, FitsRecovers
      <4>3. i \in Recovered(s, wal)[k] <=> i \in Recoverable[k]
        <5>1. Recovered(s, wal) = UpTo(Recoverable, wal.end)
          BY <2>2 DEF PairOK
        <5>2. \A j \in Recoverable[k] : j < wal.end
          BY PresentFits DEF BelowEnd
        <5> QED
          BY <5>1, <5>2 DEF UpTo
      <4> QED
        BY <1>4, <3>1, <3>4, <4>1, <4>2, <4>3
    <3> QED
      BY <3>3, <3>4
  <2>8. Recovered(s, wal') = UpTo(Recoverable', wal'.end)
    <3>1. ASSUME NEW k \in Key
          PROVE  Recovered(s, wal')[k] = {i \in Recoverable'[k] : i < wal'.end}
      BY <2>7, RecoverableNext
    <3> QED
      BY <3>1 DEF UpTo, Recovered
  <2> QED
    BY <2>2, <2>3, <2>8 DEF PairOK
<1>6. ASSUME NEW w \in staleWals' PROVE WalOK(w)' /\ \A s \in Snaps : PairOK(s, w)'
  <2>1. w \in Wals /\ w.end <= d /\ w.end \in Nat
    BY <1>1, <1>6 DEF Wals, WalFile
  <2>2. WalOK(w) /\ \A s \in Snaps : PairOK(s, w)
    BY <2>1 DEF PairsInv
  <2>3. w.end <= nextId'
    BY <1>2, <2>1, <2>2 DEF WalOK
  <2>4. WalOK(w)'
    BY <2>2, <2>3 DEF WalOK
  <2>5. UpTo(Recoverable, w.end) = UpTo(Recoverable', w.end)
    <3>1. ASSUME NEW k \in Key
          PROVE  {i \in Recoverable[k] : i < w.end} = {i \in Recoverable'[k] : i < w.end}
      <4>1. ~(d < w.end)
        BY <1>2, <2>1
      <4> QED
        BY <1>4, <4>1
    <3> QED
      BY <3>1 DEF UpTo
  <2> QED
    BY <2>2, <2>4, <2>5 DEF PairOK
<1>7. ASSUME NEW w \in staleWals', NEW v \in Writer, Holding(v)' PROVE job'[v].id >= w.end
  <2>1. w.end <= d /\ w.end \in Nat
    BY <1>1, <1>7 DEF Wals, WalFile
  <2>2. CASE job'[v].id = d
    BY <1>2, <2>1, <2>2
  <2>3. CASE Holding(v) /\ job'[v] = job[v]
    BY <1>7, <2>3 DEF PairsInv
  <2> QED
    BY <1>7, <2>2, <2>3
<1>8. \A s \in Snaps' :
        s.offset <= snap'.offset /\ \A k \in Key : \A i \in s.image[k] : i < s.offset
  BY <1>1 DEF PairsInv
<1>9. ASSUME NEW w \in Wals' PROVE WalOK(w)' /\ \A s \in Snaps' : PairOK(s, w)'
  BY <1>1, <1>3, <1>5, <1>6 DEF Wals
<1> QED
  BY <1>7, <1>8, <1>9 DEF PairsInv

-----------------------------------------------------------------------------
(* What most steps have in common                                          *)

\* Neither a process crash nor a failed file operation has happened.
Undisturbed == faults.proc = 0 /\ faults.io = 0

\* A step that leaves files and history alone: locks, memory and replies.
LEMMA CalmStep ==
  ASSUME TypeOK, TypeOK', NamesInv, PairsInv, HardenedInv, VisibleInv,
         Recoverable' = Recoverable,
         UNCHANGED <<wal, staleWals, snap, staleSnaps, nextId, hardened>>, nextGen' >= nextGen,
         \A v \in Writer : (pc'[v] = pc[v] /\ job'[v] = job[v]) \/ ~Active(v)',
         \A k \in Key : \A i \in acked'[k] :
           i \in acked[k] \/ \E v \in Writer : pc[v] = "applying" /\ i = job[v].id,
         \A k \in Key : \A i \in mem'[k] :
           \/ i \in mem[k]
           \/ i \in Recoverable[k] /\ \E v \in Writer : pc[v] = "applying" /\ i = job[v].id,
         Capturing' => Capturing /\ cap' = cap,
         spc' \in {"durable", "rotate"} => spc \in {"durable", "rotate"},
         spc' = "renamed" => spc = "renamed",
         spc = "renamed" => spc' = "renamed" \/ (FsyncPersistsName /\ ~Undisturbed'),
         Undisturbed' =>
           /\ Undisturbed
           /\ phase' = "up" \/ phase' = phase \/ wal.synced = wal.end
           /\ cpc' # "unsynced" \/ cpc' = cpc
  PROVE  NamesInv' /\ PairsInv' /\ HardenedInv' /\ VisibleInv'
<1>1. Wals' = Wals /\ Snaps' = Snaps
  BY DEF Wals, Snaps
<1>2. NamesInv'
  BY DEF NamesInv, Capturing
<1>3. PairsInv'
  <2>1. \A v \in Writer : Holding(v)' => Holding(v) /\ job'[v] = job[v]
    BY DEF Holding, Active
  <2>2. wal.synced <= wal.synced /\ wal.synced <= wal.end
    BY DEF PairsInv, WalOK, Wals, TypeOK, WalFile
  <2> QED
    BY <1>1, <2>1, <2>2, PairsQuiet
<1>4. HardenedInv'
  <2>1. \A w \in Writer : pc'[w] = "appending" => job'[w].id \notin hardened
    BY DEF HardenedInv, Active
  <2>2. ASSUME AlwaysSync
        PROVE  /\ \A k \in Key : acked'[k] \subseteq hardened
               /\ \A w \in Writer : pc'[w] = "applying" => job'[w].id \in hardened
    BY <2>2 DEF HardenedInv, Active
  <2> QED
    BY <1>1, <2>1, <2>2 DEF HardenedInv
<1>5. VisibleInv'
  <2> SUFFICES ASSUME AlwaysSync, Undisturbed'
               PROVE  /\ \A w \in Wals, k \in Key : \A i \in mem'[k] : i < w.synced
                      /\ staleWals # {} => spc' = "renamed"
                      /\ phase' = "down" => wal.synced = wal.end
                      /\ cpc' # "unsynced"
    BY <1>1 DEF VisibleInv, Undisturbed
  <2>1. /\ \A w \in Wals, k \in Key : \A i \in mem[k] : i < w.synced
        /\ staleWals # {} => spc = "renamed"
        /\ phase = "down" => wal.synced = wal.end
        /\ cpc # "unsynced"
    BY DEF VisibleInv, Undisturbed
  <2>2. ASSUME NEW w \in Wals, NEW k \in Key, NEW i \in mem'[k] PROVE i < w.synced
    <3>1. CASE i \in mem[k]
      BY <2>1, <3>1
    <3>2. CASE i \in Recoverable[k] /\ \E v \in Writer : pc[v] = "applying" /\ i = job[v].id
      <4>1. i \in hardened
        BY <3>2 DEF HardenedInv
      <4> QED
        BY <3>2, <4>1 DEF HardenedInv
    <3> QED
      BY <2>2, <3>1, <3>2
  <2> QED
    BY <2>1, <2>2
<1> QED
  BY <1>2, <1>3, <1>4, <1>5

\* A successful sync of the journal by somebody who has locked it, and who is
\* not the saver between rename and directory sync.
LEMMA SyncStep ==
  ASSUME TypeOK, TypeOK', LockInv, FrameInv, SnapInv, LiveInv, NamesInv, PairsInv, HardenedInv,
         VisibleInv, SyncWal, jlock # Saver, Recoverable' = Recoverable,
         UNCHANGED <<phase, snap, staleSnaps, nextId, mem, acked, job>>, nextGen' >= nextGen,
         phase = "up",
         \A v \in Writer : /\ pc[v] # "appending"
                           /\ pc'[v] = pc[v] \/ (pc[v] = "syncing" /\ pc'[v] = "applying"),
         Capturing' => (Capturing /\ cap' = cap) \/ cap'.offset = wal.end,
         spc' \in {"durable", "rotate", "renamed"} => spc' = spc,
         Undisturbed' => Undisturbed,
         cpc' # "unsynced" \/ cpc' = cpc
  PROVE  NamesInv' /\ PairsInv' /\ HardenedInv' /\ VisibleInv'
<1>1. /\ wal'.frames = wal.frames /\ wal'.gen = wal.gen /\ wal'.end = wal.end /\ wal'.synced = wal.end
      /\ hardened' = hardened \cup Ids(wal.frames)
  BY DEF SyncWal, Synced, TypeOK, WalFile
<1>2. staleWals' = {}
  BY DEF SyncWal, StaleAfterSync, NamesInv, LockInv
<1>3. Wals' = {wal'} /\ Snaps' = Snaps
  BY <1>2 DEF Wals, Snaps
<1>4. /\ wal.synced \in Nat /\ wal.end \in Nat /\ wal.synced <= wal.end /\ snap.offset \in Nat
      /\ cap.offset \in Nat /\ snap.offset <= wal.end /\ nextId \in Nat /\ wal.end <= nextId
  BY DEF PairsInv, WalOK, Wals, TypeOK, WalFile, SnapshotFile, SnapInv, FrameInv
<1>5. NamesInv'
  <2>1. Capturing' => snap'.offset <= cap'.offset /\ cap'.offset <= wal'.synced
    BY <1>1, <1>4 DEF NamesInv
  <2>2. spc' \in {"durable", "rotate", "renamed"} => staleSnaps' = {}
    BY DEF NamesInv
  <2> QED
    BY <1>1, <1>2, <2>1, <2>2 DEF NamesInv
<1>6. PairsInv'
  <2>1. \A v \in Writer : Holding(v)' => Holding(v) /\ job'[v] = job[v]
    BY DEF Holding
  <2> QED
    BY <1>1, <1>2, <1>3, <1>4, <2>1, PairsQuiet
<1>7. ASSUME NEW k \in Key, NEW i \in Recoverable[k] PROVE i < wal'.synced
  BY <1>1, PresentFits DEF BelowEnd
<1>8. HardenedInv'
  <2>1. ASSUME NEW i \in hardened' PROVE i < nextId'
    <3>1. CASE i \in hardened
      BY <3>1 DEF HardenedInv
    <3>2. CASE i \in Ids(wal.frames)
      <4>1. PICK f \in wal.frames : i = f.id
        BY <3>2 DEF Ids
      <4>2. f.id < wal.end /\ f.id \in Nat
        BY DEF FrameInv, TypeOK, WalFile, Frame
      <4> QED
        BY <1>4, <4>1, <4>2
    <3> QED
      BY <1>1, <2>1, <3>1, <3>2
  <2>2. ASSUME AlwaysSync, NEW w \in Writer, pc'[w] = "applying" PROVE job'[w].id \in hardened'
    <3>1. CASE pc[w] = "applying"
      BY <1>1, <2>2, <3>1 DEF HardenedInv
    <3>2. CASE pc[w] = "syncing"
      <4>1. FrameOf(job[w], TRUE) \in wal.frames /\ FrameOf(job[w], TRUE).id = job[w].id
        BY <3>2 DEF FrameInv, FrameOf
      <4> QED
        BY <1>1, <4>1 DEF Ids
    <3> QED
      BY <2>2, <3>1, <3>2
  <2>3. \A w \in Writer : pc'[w] # "appending"
    OBVIOUS
  <2>4. AlwaysSync => \A k \in Key : acked'[k] \subseteq hardened'
    BY <1>1 DEF HardenedInv
  <2> QED
    BY <1>3, <1>7, <2>1, <2>2, <2>3, <2>4 DEF HardenedInv
<1>9. VisibleInv'
  <2>1. \A k \in Key : \A i \in mem'[k] : i < wal'.synced
    BY <1>7 DEF LiveInv
  <2> QED
    BY <1>2, <1>3, <2>1 DEF VisibleInv, Undisturbed
<1> QED
  BY <1>5, <1>6, <1>8, <1>9

\* A step that changes the tail of the journal: the synced part grows, or ends
\* with the file.
LEMMA ChangeStep ==
  ASSUME TypeOK, TypeOK', FrameInv', SnapInv', CaptureInv', LiveInv',
         NamesInv, HardenedInv, PairsInv,
         UNCHANGED <<spc, cap, snap, staleSnaps, hardened, acked>>, spc # "renamed",
         nextId' >= nextId, staleWals' \subseteq staleWals,
         wal'.synced = wal.synced \/ wal'.synced = wal'.end,
         \A k \in Key : \A i \in hardened : i \in Recoverable'[k] => i \in Recoverable[k],
         \A v \in Writer : pc'[v] = "appending" =>
           (pc[v] = "appending" /\ job'[v] = job[v]) \/ job'[v].id = nextId,
         \A v \in Writer : AlwaysSync /\ pc'[v] = "applying" => pc[v] = "applying" /\ job'[v] = job[v]
  PROVE  /\ NamesInv' /\ HardenedInv' /\ snap.offset <= wal'.synced
         /\ \A x \in Wals' : x \in staleWals \/ x.synced = wal.synced
              \/ \A k \in Key : \A i \in Recoverable'[k] : i < x.synced
<1>1. /\ snap.offset \in Nat /\ cap.offset \in Nat /\ wal.synced \in Nat /\ wal'.synced \in Nat
      /\ wal'.end \in Nat /\ nextId \in Nat /\ nextId' \in Nat
  BY DEF TypeOK, SnapshotFile, WalFile
<1>2. ASSUME NEW x \in Wals'
      PROVE  x \in staleWals \/ x.synced = wal.synced
              \/ \A k \in Key : \A i \in Recoverable'[k] : i < x.synced
  <2>1. CASE x \in staleWals'
    BY <2>1
  <2>2. CASE x = wal' /\ wal'.synced = wal.synced
    BY <2>2
  <2>3. CASE x = wal' /\ wal'.synced = wal'.end
    BY <2>3, RecoverableNext
  <2> QED
    BY <1>2, <2>1, <2>2, <2>3 DEF Wals
<1>3. snap.offset <= wal'.synced
  <2>1. snap.offset <= wal.synced
    BY DEF PairsInv, WalOK, Wals
  <2>2. snap.offset <= wal'.end
    BY DEF SnapInv
  <2> QED
    BY <2>1, <2>2
<1>4. NamesInv'
  <2>1. Capturing => cap.offset <= wal'.synced
    <3>1. Capturing => cap.offset <= wal.synced
      BY DEF NamesInv
    <3>2. Capturing => cap.offset <= wal'.end
      BY DEF CaptureInv, Capturing
    <3> QED
      BY <3>1, <3>2
  <2> QED
    BY <2>1 DEF NamesInv, Capturing
<1>5. HardenedInv'
  <2>1. ASSUME NEW i \in hardened PROVE i < nextId' /\ i # nextId
    <3>1. i \in Nat /\ i < nextId
      BY DEF HardenedInv, TypeOK
    <3> QED
      BY <1>1, <3>1
  <2>2. \A w \in Writer : pc'[w] = "appending" => job'[w].id \notin hardened
    BY <2>1 DEF HardenedInv
  <2>3. ASSUME NEW k \in Key, NEW i \in hardened \cap Recoverable'[k], NEW x \in Wals'
        PROVE  i < x.synced
    <3>1. i \in Recoverable[k]
      BY <2>3
    <3>2. \A w \in Wals : i < w.synced
      BY <2>3, <3>1 DEF HardenedInv
    <3> QED
      BY <1>2, <2>3, <3>2 DEF Wals
  <2> QED
    BY <2>1, <2>2, <2>3 DEF HardenedInv
<1> QED
  BY <1>2, <1>3, <1>4, <1>5

\* What is visible stays synced when the tail of the journal changes.
LEMMA VisibleChange ==
  ASSUME VisibleInv, LiveInv', UNCHANGED <<mem, cpc, spc>>, phase' = "up",
         staleWals' \subseteq staleWals, Undisturbed' => Undisturbed,
         \A x \in Wals' : x \in staleWals \/ x.synced = wal.synced
           \/ \A k \in Key : \A i \in Recoverable'[k] : i < x.synced
  PROVE  VisibleInv'
<1> SUFFICES ASSUME AlwaysSync, Undisturbed'
             PROVE  /\ \A x \in Wals', k \in Key : \A i \in mem'[k] : i < x.synced
                    /\ staleWals' # {} => spc' = "renamed"
                    /\ cpc' # "unsynced"
  BY DEF VisibleInv, Undisturbed
<1>1. /\ \A w \in Wals, k \in Key : \A i \in mem[k] : i < w.synced
      /\ staleWals # {} => spc = "renamed"
      /\ cpc # "unsynced"
  BY DEF VisibleInv, Undisturbed
<1>2. ASSUME NEW x \in Wals', NEW k \in Key, NEW i \in mem'[k] PROVE i < x.synced
  <2>1. i \in Recoverable'[k]
    BY <1>2 DEF LiveInv
  <2>2. \A w \in Wals : i < w.synced
    BY <1>1, <1>2
  <2> QED
    BY <1>2, <2>1, <2>2 DEF Wals
<1> QED
  BY <1>1, <1>2

-----------------------------------------------------------------------------
(* One mutation                                                            *)

\* The part of PowerInv about files.
FilesPowerInv == NamesInv /\ PairsInv /\ HardenedInv /\ VisibleInv

\* A writer that is inside the journal lock excludes the others and the saver.
LEMMA HolderAlone ==
  ASSUME LockInv, NEW w \in Writer, Holding(w)
  PROVE  /\ jlock = w /\ jlock # Saver /\ spc # "renamed"
         /\ \A v \in Writer : v # w => ~Holding(v)
  BY WriterAssumption DEF LockInv

\* A writer waits for its gates or gives up before it appended.
LEMMA BeforeAppendPower ==
  ASSUME JournalInv, TypeOK', FilesPowerInv, Undisturbed' => Undisturbed, NEW w \in Writer,
         \/ \E k \in Key : LockGate(w, k)
         \/ PrepareJournaled(w)
         \/ AppendStart(w) /\ poisoned
  PROVE  FilesPowerInv'
<1>1. Recoverable' = Recoverable
  BY BeforeAppendFiles DEF JournalInv, FileInv
<1>2. UNCHANGED <<wal, staleWals, snap, staleSnaps, nextId, nextGen, hardened, acked, mem, spc, cap,
                  phase, cpc>>
  BY DEF LockGate, PrepareJournaled, AppendStart, lifeVars, saverVars, walVars, snapVars, counters
<1>3. \A v \in Writer : (pc'[v] = pc[v] /\ job'[v] = job[v]) \/ ~Active(v)'
  BY ReplyMoves DEF JournalInv, LockGate, PrepareJournaled, AppendStart, writerVars, TypeOK, Active
<1>4. nextGen' >= nextGen
  BY <1>2 DEF JournalInv, TypeOK
<1> QED
  BY <1>1, <1>2, <1>3, <1>4, CalmStep DEF JournalInv, FilesPowerInv, Capturing

\* A writer applies a key: its mutation is rebuilt by a restart, and synced
\* under always_sync.
LEMMA ApplyPower ==
  ASSUME JournalInv, TypeOK', FilesPowerInv, Undisturbed' => Undisturbed, NEW w \in Writer,
         NEW k \in Key, Apply(w, k)
  PROVE  FilesPowerInv'
<1>1. Recoverable' = Recoverable
  BY ApplyFiles DEF JournalInv, FileInv
<1>2. UNCHANGED <<wal, staleWals, snap, staleSnaps, nextId, nextGen, hardened, acked, spc, cap,
                  phase, cpc, pc, job>>
  BY DEF Apply, lifeVars, saverVars, walVars, snapVars, counters, writerVars
<1>3. ASSUME NEW j \in Key, NEW i \in mem'[j]
      PROVE  \/ i \in mem[j]
             \/ i \in Recoverable[j] /\ \E v \in Writer : pc[v] = "applying" /\ i = job[v].id
  <2>1. /\ pc[w] = "applying" /\ ~job[w].doomed /\ k \in job[w].keys
        /\ mem' = [mem EXCEPT ![k] = @ \cup {job[w].id}] /\ mem \in [Key -> SUBSET Nat]
    BY DEF Apply, JournalInv, TypeOK
  <2>2. job[w].id \in Recoverable[k]
    BY <2>1, AppliedIsRecoverable DEF JournalInv
  <2>3. CASE j = k
    BY <1>3, <2>1, <2>2, <2>3
  <2>4. CASE j # k
    BY <1>3, <2>1, <2>4
  <2> QED
    BY <2>3, <2>4
<1>4. nextGen' >= nextGen
  BY <1>2 DEF JournalInv, TypeOK
<1> QED
  BY <1>1, <1>2, <1>3, <1>4, CalmStep DEF JournalInv, FilesPowerInv, Capturing

\* A writer answers its client, or gives up after the apply failed.
LEMMA ReplyPower ==
  ASSUME JournalInv, TypeOK', FilesPowerInv, Undisturbed' => Undisturbed, NEW w \in Writer,
         Complete(w) \/ ApplyFails(w)
  PROVE  FilesPowerInv'
<1>1. Recoverable' = Recoverable
  BY DEF Complete, ApplyFails, Recoverable, walVars, snapVars
<1>2. UNCHANGED <<wal, staleWals, snap, staleSnaps, nextId, nextGen, hardened, mem, spc, cap,
                  phase, cpc>>
  BY DEF Complete, ApplyFails, lifeVars, saverVars, walVars, snapVars, counters
<1>3. \A v \in Writer : (pc'[v] = pc[v] /\ job'[v] = job[v]) \/ ~Active(v)'
  BY ReplyMoves DEF JournalInv, Complete, ApplyFails
<1>4. ASSUME NEW k \in Key, NEW i \in acked'[k]
      PROVE  i \in acked[k] \/ \E v \in Writer : pc[v] = "applying" /\ i = job[v].id
  BY <1>4 DEF Complete, ApplyFails
<1>5. nextGen' >= nextGen
  BY <1>2 DEF JournalInv, TypeOK
<1> QED
  BY <1>1, <1>2, <1>3, <1>4, <1>5, CalmStep DEF JournalInv, FilesPowerInv, Capturing

\* A writer syncs its frame.
LEMMA SyncDonePower ==
  ASSUME JournalInv, TypeOK', FilesPowerInv, Undisturbed' => Undisturbed, NEW w \in Writer,
         SyncDone(w)
  PROVE  FilesPowerInv'
<1>1. Recoverable' = Recoverable
  BY SyncDoneFiles DEF JournalInv, FileInv
<1>2. /\ UNCHANGED <<snap, staleSnaps, nextId, nextGen, acked, mem, spc, cap, phase, cpc, job>>
      /\ SyncWal /\ phase = "up" /\ pc[w] = "syncing" /\ pc' = [pc EXCEPT ![w] = "applying"]
  BY DEF SyncDone, lifeVars, saverVars, snapVars, counters
<1>3. Holding(w)
  BY <1>2 DEF Holding
<1>4. jlock # Saver /\ \A v \in Writer : v # w => ~Holding(v)
  BY <1>3, HolderAlone DEF JournalInv
<1>5. \A v \in Writer : /\ pc[v] # "appending"
                        /\ pc'[v] = pc[v] \/ (pc[v] = "syncing" /\ pc'[v] = "applying")
  BY <1>2, <1>4 DEF Holding, JournalInv, TypeOK
<1>6. nextGen' >= nextGen
  BY <1>2 DEF JournalInv, TypeOK
<1>7. NamesInv' /\ PairsInv' /\ HardenedInv' /\ VisibleInv'
  BY <1>1, <1>2, <1>4, <1>5, <1>6, SyncStep DEF JournalInv, FilesPowerInv, Capturing
<1> QED
  BY <1>7 DEF FilesPowerInv

\* A writer starts a frame at the end of the journal.
LEMMA AppendStartPower ==
  ASSUME JournalInv, JournalInv', FilesPowerInv, Undisturbed' => Undisturbed, NEW w \in Writer,
         AppendStart(w), ~poisoned
  PROVE  FilesPowerInv'
<1>1. TypeOK /\ TypeOK' /\ FrameInv /\ SnapInv /\ FrameInv' /\ SnapInv' /\ CaptureInv' /\ LiveInv'
  BY DEF JournalInv
<1>2. Recoverable' = Recoverable
  BY AppendStartFiles DEF JournalInv, FileInv
<1>3. /\ pc' = [pc EXCEPT ![w] = "appending"]
      /\ job' = [job EXCEPT ![w].id = nextId]
      /\ wal' = [wal EXCEPT !.frames = @ \cup {FrameOf(job'[w], FALSE)}, !.end = nextId + 1]
      /\ nextId' = nextId + 1 /\ jlock = Nobody /\ phase = "up"
      /\ UNCHANGED <<mem, spc, cap, staleWals, snap, staleSnaps, nextGen, hardened, acked, phase, cpc>>
  BY DEF AppendStart, saverVars, snapVars, lifeVars
<1>4. /\ wal'.frames = wal.frames \cup {FrameOf(job'[w], FALSE)} /\ wal'.gen = wal.gen
      /\ wal'.synced = wal.synced /\ wal'.end = nextId + 1
      /\ FrameOf(job'[w], FALSE).id = nextId /\ job'[w].id = nextId
      /\ Bad(FrameOf(job'[w], FALSE))
      /\ pc'[w] = "appending"
      /\ \A v \in Writer : v # w => pc'[v] = pc[v] /\ job'[v] = job[v]
  BY <1>1, <1>3 DEF TypeOK, WalFile, FrameOf, Job, Bad
<1>5. /\ nextId \in Nat /\ wal.synced \in Nat /\ wal.end \in Nat /\ snap.offset \in Nat
      /\ wal.synced <= wal.end /\ wal.end <= nextId /\ snap.offset <= wal.end
  BY <1>1 DEF TypeOK, WalFile, SnapshotFile, FrameInv, SnapInv, FilesPowerInv, PairsInv, Wals, WalOK
<1>6. spc # "renamed"
  BY <1>3, WriterAssumption DEF JournalInv, LockInv, Nobody, Saver
<1>7. /\ NamesInv' /\ HardenedInv' /\ snap.offset <= wal'.synced
      /\ \A x \in Wals' : x \in staleWals \/ x.synced = wal.synced
           \/ \A k \in Key : \A i \in Recoverable'[k] : i < x.synced
  <2>1. nextId' >= nextId
    BY <1>3, <1>5
  <2>2. \A v \in Writer : pc'[v] = "appending" =>
           (pc[v] = "appending" /\ job'[v] = job[v]) \/ job'[v].id = nextId
    BY <1>4
  <2>3. \A v \in Writer : pc'[v] = "applying" => pc[v] = "applying" /\ job'[v] = job[v]
    BY <1>4
  <2> QED
    BY <1>1, <1>2, <1>3, <1>4, <1>6, <2>1, <2>2, <2>3, ChangeStep DEF FilesPowerInv
<1>8. VisibleInv'
  BY <1>1, <1>3, <1>7, VisibleChange DEF FilesPowerInv
<1>9. PairsInv'
  <2>1. \A f : f.id # nextId => (f \in wal.frames /\ ~Bad(f) <=> f \in wal'.frames /\ ~Bad(f))
    BY <1>4
  <2>2. \A f \in wal'.frames : f.id = nextId \/ f \in wal.frames
    BY <1>4
  <2>3. wal'.synced <= wal'.end /\ nextId' >= nextId /\ snap.offset <= nextId
    BY <1>3, <1>4, <1>5
  <2>4. \A x \in staleWals' : x.end <= nextId
    BY <1>3 DEF FilesPowerInv, PairsInv, Wals, WalOK
  <2>5. \A v \in Writer : Holding(v)' => (Holding(v) /\ job'[v] = job[v]) \/ job'[v].id = nextId
    BY <1>4 DEF Holding
  <2> QED
    BY <1>1, <1>3, <1>4, <1>5, <1>7, <2>1, <2>2, <2>3, <2>4, <2>5, PairsChange DEF FilesPowerInv
<1> QED
  BY <1>7, <1>8, <1>9 DEF FilesPowerInv

\* A writer completes its frame.
LEMMA AppendDonePower ==
  ASSUME JournalInv, JournalInv', FilesPowerInv, Undisturbed' => Undisturbed, NEW w \in Writer,
         AppendDone(w)
  PROVE  FilesPowerInv'
<1>1. TypeOK /\ TypeOK' /\ FrameInv /\ SnapInv /\ FrameInv' /\ SnapInv' /\ CaptureInv' /\ LiveInv'
  BY DEF JournalInv
<1>2. \A k \in Key : \A i : i \in Recoverable'[k] <=>
         i \in Recoverable[k] \/ (i = job[w].id /\ k \in job[w].keys /\ ~job[w].doomed)
  BY AppendDoneFiles DEF JournalInv, FileInv
<1>3. /\ pc[w] = "appending" /\ pc' = [pc EXCEPT ![w] = NextAfterAppend]
      /\ wal' = [wal EXCEPT !.frames = (@ \ {FrameOf(job[w], FALSE)}) \cup {FrameOf(job[w], TRUE)}]
      /\ phase = "up"
      /\ UNCHANGED <<job, nextId, mem, spc, cap, staleWals, snap, staleSnaps, nextGen, hardened,
                     acked, phase, cpc>>
  BY DEF AppendDone, saverVars, snapVars, lifeVars, counters
<1>4. /\ wal'.frames = (wal.frames \ {FrameOf(job[w], FALSE)}) \cup {FrameOf(job[w], TRUE)}
      /\ wal'.gen = wal.gen /\ wal'.synced = wal.synced /\ wal'.end = wal.end
      /\ FrameOf(job[w], FALSE).id = job[w].id /\ FrameOf(job[w], TRUE).id = job[w].id
      /\ pc'[w] = NextAfterAppend
      /\ \A v \in Writer : v # w => pc'[v] = pc[v]
  BY <1>1, <1>3 DEF TypeOK, WalFile, FrameOf
<1>5. /\ nextId \in Nat /\ job[w].id \in Nat
      /\ wal'.synced <= wal'.end /\ snap.offset <= job[w].id
  BY <1>1, <1>3, <1>4 DEF TypeOK, Job, SnapshotFile, FrameInv, Active, FilesPowerInv, PairsInv, Wals,
                         WalOK
<1>6. Holding(w) /\ spc # "renamed"
  BY <1>3, HolderAlone DEF JournalInv, Holding
<1>7. /\ NamesInv' /\ HardenedInv' /\ snap.offset <= wal'.synced
      /\ \A x \in Wals' : x \in staleWals \/ x.synced = wal.synced
           \/ \A k \in Key : \A i \in Recoverable'[k] : i < x.synced
  <2>1. job[w].id \notin hardened
    BY <1>3 DEF FilesPowerInv, HardenedInv
  <2>2. \A k \in Key : \A i \in hardened : i \in Recoverable'[k] => i \in Recoverable[k]
    BY <1>2, <2>1
  <2>3. \A v \in Writer : pc'[v] = "appending" => pc[v] = "appending"
    BY <1>3, <1>4
  <2>4. \A v \in Writer : AlwaysSync /\ pc'[v] = "applying" => pc[v] = "applying"
    BY <1>4 DEF NextAfterAppend
  <2>5. nextId' >= nextId
    BY <1>3, <1>5
  <2> QED
    BY <1>1, <1>3, <1>4, <1>6, <2>2, <2>3, <2>4, <2>5, ChangeStep DEF FilesPowerInv
<1>8. VisibleInv'
  BY <1>1, <1>3, <1>7, VisibleChange DEF FilesPowerInv
<1>9. PairsInv'
  <2>1. \A f : f.id # job[w].id => (f \in wal.frames /\ ~Bad(f) <=> f \in wal'.frames /\ ~Bad(f))
    BY <1>4
  <2>2. \A f \in wal'.frames : f.id = job[w].id \/ f \in wal.frames
    BY <1>4
  <2>3. nextId' >= nextId
    BY <1>3, <1>5
  <2>4. \A x \in staleWals' : x.end <= job[w].id
    <3>1. ASSUME NEW x \in staleWals PROVE x.end <= job[w].id
      <4>1. job[w].id >= x.end /\ x.end \in Nat
        BY <1>1, <1>6 DEF FilesPowerInv, PairsInv, TypeOK, WalFile
      <4> QED
        BY <1>5, <4>1
    <3> QED
      BY <1>3, <3>1
  <2>5. \A v \in Writer : Holding(v)' => (Holding(v) /\ job'[v] = job[v]) \/ job'[v].id = job[w].id
    BY <1>3, <1>4 DEF Holding
  <2> QED
    BY <1>1, <1>3, <1>4, <1>5, <1>7, <2>1, <2>2, <2>3, <2>4, <2>5, PairsChange DEF FilesPowerInv
<1> QED
  BY <1>7, <1>8, <1>9 DEF FilesPowerInv

\* A writer takes its frame back, or poisons the journal because it cannot.
LEMMA UndoPower ==
  ASSUME JournalInv, JournalInv', FilesPowerInv, Undisturbed' => Undisturbed, NEW w \in Writer,
         AppendFails(w) \/ Reject(w)
  PROVE  FilesPowerInv'
<1>1. TypeOK /\ TypeOK' /\ FrameInv /\ SnapInv /\ FrameInv' /\ SnapInv' /\ CaptureInv' /\ LiveInv'
  BY DEF JournalInv
<1>2. /\ UNCHANGED <<nextId, mem, spc, cap, snap, staleSnaps, nextGen, hardened, acked, phase, cpc>>
      /\ Reply(w) /\ phase = "up"
      /\ RollbackDone(w) \/ RollbackFails(w)
      /\ pc[w] \in {"appending", "syncing"} \/ (pc[w] = "applying" /\ job[w].doomed)
  BY DEF AppendFails, Reject, saverVars, snapVars, lifeVars, counters
<1>3. Holding(w) /\ Active(w) /\ spc # "renamed"
  BY <1>2, HolderAlone DEF JournalInv, LockInv, Holding, Active
<1>4. /\ nextId \in Nat /\ nextGen \in Nat /\ job[w].id \in Nat /\ wal.synced \in Nat
      /\ snap.offset <= job[w].id /\ \A f \in wal.frames : f.id \in Nat /\ f.id <= job[w].id
  BY <1>1, <1>3 DEF TypeOK, Job, WalFile, Frame, FrameInv
<1>5. \A v \in Writer : v # w => pc'[v] = pc[v] /\ job'[v] = job[v]
  BY <1>1, <1>2, ReplyMoves
<1>6. pc'[w] = "idle"
  BY <1>1, <1>2, ReplyMoves
<1>7. CASE wal' = wal /\ staleWals' = staleWals
  <2>1. Recoverable' = Recoverable
    BY <1>2, <1>7 DEF Recoverable
  <2>2. \A v \in Writer : (pc'[v] = pc[v] /\ job'[v] = job[v]) \/ ~Active(v)'
    BY <1>5, <1>6 DEF Active
  <2>3. nextGen' >= nextGen
    BY <1>2, <1>4
  <2> QED
    BY <1>1, <1>2, <1>7, <2>1, <2>2, <2>3, CalmStep DEF FilesPowerInv, Capturing
<1>8. CASE wal' = SetLen(wal, job[w].id) \/ wal' = RollbackTo(wal, job[w].id)
  <2>1. /\ wal'.frames = {f \in wal.frames : f.id < job[w].id} /\ wal'.gen = wal.gen
        /\ wal'.end = job[w].id
        /\ (wal'.synced = wal.synced /\ wal.synced < job[w].id) \/ wal'.synced = job[w].id
    BY <1>1, <1>8 DEF SetLen, RollbackTo, TypeOK, WalFile
  <2>2. staleWals' \subseteq staleWals
    BY <1>2 DEF RollbackDone, RollbackFails, StaleAfterSync
  <2>3. \A k \in Key : \A i : i \in Recoverable'[k] => i \in Recoverable[k]
    BY UndoFiles DEF JournalInv, FileInv
  <2>4. wal'.synced <= wal'.end /\ nextId' >= nextId
    BY <1>2, <1>4, <2>1
  <2>5. /\ NamesInv' /\ HardenedInv' /\ snap.offset <= wal'.synced
        /\ \A x \in Wals' : x \in staleWals \/ x.synced = wal.synced
             \/ \A k \in Key : \A i \in Recoverable'[k] : i < x.synced
    <3>1. \A v \in Writer : pc'[v] = "appending" => pc[v] = "appending" /\ job'[v] = job[v]
      BY <1>5, <1>6
    <3>2. \A v \in Writer : pc'[v] = "applying" => pc[v] = "applying" /\ job'[v] = job[v]
      BY <1>5, <1>6
    <3>3. wal'.synced = wal.synced \/ wal'.synced = wal'.end
      BY <2>1
    <3> QED
      BY <1>1, <1>2, <1>3, <2>2, <2>3, <2>4, <3>1, <3>2, <3>3, ChangeStep DEF FilesPowerInv
  <2>6. VisibleInv'
    BY <1>1, <1>2, <2>2, <2>5, VisibleChange DEF FilesPowerInv
  <2>7. PairsInv'
    <3>1. \A f : f.id # job[w].id => (f \in wal.frames /\ ~Bad(f) <=> f \in wal'.frames /\ ~Bad(f))
      BY <1>4, <2>1
    <3>2. \A f \in wal'.frames : f.id = job[w].id \/ f \in wal.frames
      BY <2>1
    <3>3. ASSUME NEW x \in staleWals' PROVE x.end <= job[w].id
      <4>1. job[w].id >= x.end /\ x.end \in Nat
        BY <1>1, <1>3, <2>2, <3>3 DEF FilesPowerInv, PairsInv, TypeOK, WalFile
      <4> QED
        BY <1>4, <4>1
    <3>4. \A v \in Writer : Holding(v)' => Holding(v) /\ job'[v] = job[v]
      BY <1>5, <1>6 DEF Holding
    <3> QED
      BY <1>1, <1>2, <1>4, <2>1, <2>2, <2>4, <2>5, <3>1, <3>2, <3>3, <3>4, PairsChange
         DEF FilesPowerInv
  <2> QED
    BY <2>5, <2>6, <2>7 DEF FilesPowerInv
<1> QED
  BY <1>2, <1>7, <1>8 DEF RollbackDone, RollbackFails

\* Every step of a mutation keeps the files safe against a power loss.
LEMMA WriterStepPower ==
  ASSUME JournalInv, JournalInv', FilesPowerInv, Undisturbed' => Undisturbed, NEW w \in Writer,
         WriterStep(w)
  PROVE  FilesPowerInv'
<1>1. TypeOK'
  BY DEF JournalInv
<1> QED
  BY <1>1, BeforeAppendPower, ApplyPower, ReplyPower, SyncDonePower, AppendStartPower,
     AppendDonePower, UndoPower DEF WriterStep

-----------------------------------------------------------------------------
(* Saves                                                                   *)

\* The steps of a save that leave the files alone: locking the gates, giving
\* up, and checking before the rotation.
LEMMA SaverCalmPower ==
  ASSUME JournalInv, JournalInv', FilesPowerInv, SafeNames', Undisturbed' => Undisturbed, SaverStep,
         UNCHANGED <<wal, staleWals, snap, staleSnaps, hardened, nextGen>>,
         spc # "renamed" \/ spc' = "failed",
         spc = "renamed" => DirSyncMayFail /\ faults'.io # 0,
         spc' = spc \/ spc' \in {"idle", "failed"} \/ (spc = "durable" /\ spc' = "rotate"),
         spc' \in {"write", "installed", "durable", "rotate"} => cap' = cap
  PROVE  FilesPowerInv'
<1>1. Recoverable' = Recoverable
  BY DEF Recoverable
<1>2. UNCHANGED <<nextId, acked, mem, phase, cpc, pc, job>>
  <2>1. ASSUME NEW k \in Key, SaveLockGate(k) PROVE UNCHANGED <<nextId, acked, mem, phase, cpc, pc, job>>
    BY <2>1 DEF SaveLockGate, LockBarrier, writerVars, counters, lifeVars
  <2> QED
    BY <2>1 DEF SaverStep, Capture, Install, SyncSnapshotDir, CheckBeforeRotate, RotateAfter,
                SyncJournalDir, PoisonAfterRotate, writerVars, counters, lifeVars
<1>3. nextGen' >= nextGen
  BY DEF JournalInv, TypeOK
<1>4. spc = "renamed" => FsyncPersistsName /\ ~Undisturbed'
  BY DEF SafeNames, Undisturbed
<1>5. Capturing' => Capturing /\ cap' = cap
  BY DEF Capturing
<1> QED
  BY <1>1, <1>2, <1>3, <1>4, <1>5, CalmStep DEF JournalInv, FilesPowerInv, Capturing

\* The capture syncs the journal before it records its end.
LEMMA CapturePower ==
  ASSUME JournalInv, JournalInv', FilesPowerInv, Undisturbed' => Undisturbed, Capture,
         CheckpointSync
  PROVE  FilesPowerInv'
<1>1. Recoverable' = Recoverable
  BY CaptureFiles DEF JournalInv, FileInv
<1>2. /\ UNCHANGED <<snap, staleSnaps, nextId, acked, mem, phase, cpc, pc, job>>
      /\ SyncWal /\ phase = "up" /\ jlock = Nobody
  BY DEF Capture, CheckpointSync, lifeVars, snapVars, writerVars
<1>3. /\ nextGen' = nextGen \/ nextGen' = nextGen + 1
      /\ spc' = "write" \/ spc' = "idle"
      /\ spc' = "write" => cap'.offset = wal.end
  BY DEF Capture, SaveEnds
<1>4. nextGen' >= nextGen
  BY <1>3 DEF JournalInv, TypeOK
<1>5. jlock # Saver /\ \A v \in Writer : pc[v] # "appending"
  BY <1>2, WriterAssumption DEF JournalInv, LockInv, Holding, Nobody, Saver
<1>6. NamesInv' /\ PairsInv' /\ HardenedInv' /\ VisibleInv'
  BY <1>1, <1>2, <1>3, <1>4, <1>5, SyncStep DEF JournalInv, FilesPowerInv, Capturing
<1> QED
  BY <1>6 DEF FilesPowerInv

\* The snapshot is renamed over the old one: either may be found after a power
\* loss, and both rebuild the same.
LEMMA InstallPower ==
  ASSUME JournalInv, JournalInv', FilesPowerInv, Undisturbed' => Undisturbed, Install, snap' = cap,
         staleSnaps' = staleSnaps \cup {snap}, spc' = "installed", cap' = cap
  PROVE  FilesPowerInv'
<1>1. Recoverable' = Recoverable
  BY InstallFiles DEF JournalInv, FileInv
<1>2. /\ UNCHANGED <<wal, staleWals, nextId, nextGen, hardened, acked, mem, phase, cpc, pc, job>>
      /\ spc = "write"
  BY DEF Install, lifeVars, walVars, counters, writerVars
<1>3. TypeOK /\ CaptureInv /\ FrameInv /\ SnapInv /\ TypeOK'
  BY DEF JournalInv
<1>4. staleWals = {} /\ snap.offset <= cap.offset /\ cap.offset <= wal.synced
  BY <1>2 DEF FilesPowerInv, NamesInv, Capturing
<1>5. Snaps' = Snaps \cup {cap} /\ Wals = {wal} /\ Wals' = {wal}
  BY <1>2, <1>4 DEF Snaps, Wals
<1>6. NamesInv'
  <2>1. cap.offset \in Nat
    BY <1>3 DEF TypeOK, SnapshotFile
  <2> QED
    BY <1>2, <1>4, <2>1 DEF NamesInv, Capturing
<1>7. PairsInv'
  <2>1. WalOK(wal) /\ \A s \in Snaps : PairOK(s, wal)
    BY <1>5 DEF FilesPowerInv, PairsInv
  <2>2. WalOK(wal)'
    BY <1>2, <1>3, <1>4, <2>1 DEF WalOK, CaptureInv
  <2>3. PairOK(cap, wal)
    <3>1. cap.gen = wal.gen /\ Recovered(cap, wal) = Recoverable
      BY <1>2, <1>3 DEF CaptureInv
    <3>2. Recovered(snap, wal) = UpTo(Recoverable, wal.end)
      BY <2>1 DEF PairOK, Snaps
    <3> QED
      BY <3>1, <3>2 DEF PairOK, Recoverable
  <2>4. \A s \in Snaps' : PairOK(s, wal)'
    BY <1>1, <1>2, <1>5, <2>1, <2>3 DEF PairOK, UpTo
  <2>5. ASSUME NEW s \in Snaps'
        PROVE  s.offset <= snap'.offset /\ \A k \in Key : \A i \in s.image[k] : i < s.offset
    <3>1. CASE s = cap
      BY <1>2, <1>3, <3>1 DEF CaptureInv, TypeOK, SnapshotFile
    <3>2. CASE s \in Snaps
      <4>1. s.offset <= snap.offset /\ \A k \in Key : \A i \in s.image[k] : i < s.offset
        BY <3>2 DEF FilesPowerInv, PairsInv
      <4>2. s.offset \in Nat /\ snap.offset \in Nat /\ cap.offset \in Nat
        BY <1>3, <3>2 DEF Snaps, TypeOK, SnapshotFile
      <4> QED
        BY <1>4, <4>1, <4>2
    <3> QED
      BY <1>5, <2>5, <3>1, <3>2
  <2> QED
    BY <1>2, <1>4, <1>5, <2>2, <2>4, <2>5 DEF PairsInv
<1>8. HardenedInv'
  BY <1>1, <1>2, <1>5 DEF FilesPowerInv, HardenedInv
<1>9. VisibleInv'
  BY <1>2, <1>4, <1>5 DEF FilesPowerInv, VisibleInv, Undisturbed
<1> QED
  BY <1>6, <1>7, <1>8, <1>9 DEF FilesPowerInv

\* The directory sync leaves only the new snapshot.
LEMMA SnapshotDirPower ==
  ASSUME JournalInv, JournalInv', FilesPowerInv, Undisturbed' => Undisturbed, SyncSnapshotDir,
         staleSnaps' = {}, spc' = "durable", cap' = cap
  PROVE  FilesPowerInv'
<1>1. /\ UNCHANGED <<wal, staleWals, snap, nextId, nextGen, hardened, acked, mem, phase, cpc, pc, job>>
      /\ spc = "installed"
  BY DEF SyncSnapshotDir, lifeVars, walVars, counters, writerVars
<1>2. Recoverable' = Recoverable
  BY <1>1 DEF Recoverable
<1>3. staleWals = {} /\ Wals' = Wals /\ Snaps' \subseteq Snaps
  BY <1>1 DEF FilesPowerInv, NamesInv, Capturing, Wals, Snaps
<1>4. NamesInv'
  BY <1>1, <1>3 DEF FilesPowerInv, NamesInv, Capturing
<1>5. PairsInv'
  <2>1. wal.synced <= wal.synced /\ wal.synced <= wal.end /\ nextGen' >= nextGen
    BY <1>1 DEF FilesPowerInv, PairsInv, WalOK, Wals, JournalInv, TypeOK, WalFile
  <2>2. \A v \in Writer : Holding(v)' => Holding(v) /\ job'[v] = job[v]
    BY <1>1 DEF Holding
  <2> QED
    BY <1>1, <1>2, <1>3, <2>1, <2>2, PairsQuiet DEF JournalInv, FilesPowerInv
<1>6. HardenedInv'
  BY <1>1, <1>2, <1>3 DEF FilesPowerInv, HardenedInv
<1>7. VisibleInv'
  BY <1>1, <1>3 DEF FilesPowerInv, VisibleInv, Undisturbed
<1> QED
  BY <1>4, <1>5, <1>6, <1>7 DEF FilesPowerInv

\* The journal is renamed over the old one: either may be found after a power
\* loss, and with the snapshot, whose name is durable, both rebuild the same.
LEMMA RotatePower ==
  ASSUME JournalInv, JournalInv', FilesPowerInv, Undisturbed' => Undisturbed, RotateAfter,
         wal' = [gen |-> cap.succ, frames |-> Retained, synced |-> wal.end, end |-> wal.end],
         staleWals' = staleWals \cup {wal}, spc' = "renamed"
  PROVE  FilesPowerInv'
<1>1. Recoverable' = Recoverable
  BY RotateFiles DEF JournalInv, FileInv
<1>2. /\ UNCHANGED <<snap, staleSnaps, nextId, nextGen, hardened, acked, mem, phase, cpc, pc, job, cap>>
      /\ spc = "rotate" /\ jlock = Nobody /\ phase = "up"
  BY DEF RotateAfter, lifeVars, snapVars, counters, writerVars
<1>3. TypeOK /\ FrameInv /\ SnapInv /\ LiveInv /\ TypeOK' /\ FrameInv' /\ SnapInv'
  BY DEF JournalInv
<1>4. staleWals = {} /\ staleSnaps = {}
  BY <1>2 DEF FilesPowerInv, NamesInv, Capturing
<1>5. Snaps' = {snap} /\ Snaps = {snap} /\ Wals = {wal} /\ Wals' = {wal, wal'}
  BY <1>2, <1>4 DEF Snaps, Wals
<1>6. wal'.synced = wal.end /\ wal'.end = wal.end
  OBVIOUS
<1>7. \A k \in Key : \A i \in Recoverable[k] : i < wal.end
  BY <1>3, PresentFits DEF BelowEnd
<1>8. \A v \in Writer : ~Holding(v)
  BY <1>2, WriterAssumption DEF JournalInv, LockInv, Nobody
<1>9. NamesInv'
  BY <1>2, <1>4, <1>6 DEF NamesInv, Capturing
<1>10. PairsInv'
  <2>1. WalOK(wal) /\ PairOK(snap, wal)
    BY <1>5 DEF FilesPowerInv, PairsInv
  <2>2. /\ snap'.offset <= wal'.synced /\ wal'.synced <= wal'.end
    BY <1>2, <1>3, <1>6 DEF SnapInv, TypeOK, WalFile
  <2>3. /\ WalOK(wal)' /\ PairOK(snap, wal)'
        /\ (\A k \in Key : \A i \in snap.image[k] : i < snap.offset)'
    BY <1>3, <2>2, PresentPairNext
  <2>4. ASSUME NEW s, NEW w, s = snap, w = wal PROVE WalOK(w)' /\ PairOK(s, w)'
    BY <1>1, <1>2, <2>1, <2>4 DEF WalOK, PairOK, UpTo
  <2>5. ASSUME NEW w \in Wals' PROVE WalOK(w)' /\ \A s \in Snaps' : PairOK(s, w)'
    <3>1. CASE w = wal
      BY <1>5, <2>4, <3>1
    <3>2. CASE w = wal'
      BY <1>2, <1>5, <2>3, <3>2
    <3> QED
      BY <1>5, <2>5, <3>1, <3>2
  <2>6. \A v \in Writer : ~Holding(v)'
    BY <1>2, <1>8 DEF Holding
  <2>7. snap.offset <= snap.offset
    BY <1>3 DEF TypeOK, SnapshotFile
  <2> QED
    BY <1>2, <1>5, <2>3, <2>5, <2>6, <2>7 DEF PairsInv
<1>11. HardenedInv'
  <2>1. ASSUME NEW k \in Key, NEW i \in hardened \cap Recoverable[k], NEW w \in Wals' PROVE i < w.synced
    BY <1>5, <1>6, <1>7, <2>1 DEF FilesPowerInv, HardenedInv
  <2> QED
    BY <1>1, <1>2, <2>1 DEF FilesPowerInv, HardenedInv
<1>12. VisibleInv'
  <2>1. \A k \in Key : \A i \in mem'[k] : i < wal.end
    BY <1>2, <1>3, <1>7 DEF LiveInv
  <2> QED
    BY <1>2, <1>5, <1>6, <2>1 DEF FilesPowerInv, VisibleInv, Undisturbed
<1> QED
  BY <1>9, <1>10, <1>11, <1>12 DEF FilesPowerInv

\* The directory sync leaves only the rotated journal, which was synced before
\* it was renamed.
LEMMA JournalDirPower ==
  ASSUME JournalInv, JournalInv', FilesPowerInv, Undisturbed' => Undisturbed, SyncJournalDir,
         staleWals' = {}, hardened' = hardened \cup Ids(wal.frames), SaveEnds
  PROVE  FilesPowerInv'
<1>1. /\ UNCHANGED <<wal, snap, staleSnaps, nextId, nextGen, acked, mem, phase, cpc, pc, job>>
      /\ spc = "renamed" /\ phase = "up" /\ spc' = "idle"
  BY DEF SyncJournalDir, SaveEnds, lifeVars, snapVars, counters, writerVars
<1>2. Recoverable' = Recoverable
  BY <1>1 DEF Recoverable
<1>3. wal.synced = wal.end /\ Wals' = {wal} /\ Snaps' = Snaps /\ wal \in Wals
  BY <1>1 DEF FilesPowerInv, NamesInv, Wals, Snaps
<1>4. TypeOK /\ FrameInv /\ SnapInv /\ TypeOK'
  BY DEF JournalInv
<1>5. NamesInv'
  BY <1>1 DEF NamesInv, Capturing
<1>6. PairsInv'
  <2>1. wal.synced <= wal.synced /\ wal.synced <= wal.end /\ nextGen' >= nextGen
    BY <1>1, <1>3, <1>4 DEF TypeOK, WalFile
  <2>2. \A v \in Writer : Holding(v)' => Holding(v) /\ job'[v] = job[v]
    BY <1>1 DEF Holding
  <2> QED
    BY <1>1, <1>2, <1>3, <1>4, <2>1, <2>2, PairsQuiet DEF FilesPowerInv
<1>7. HardenedInv'
  <2>1. ASSUME NEW i \in hardened' PROVE i < nextId
    <3>1. CASE i \in hardened
      BY <3>1 DEF FilesPowerInv, HardenedInv
    <3>2. CASE i \in Ids(wal.frames)
      <4>1. PICK f \in wal.frames : i = f.id
        BY <3>2 DEF Ids
      <4>2. f.id < wal.end /\ f.id \in Nat /\ wal.end \in Nat /\ nextId \in Nat /\ wal.end <= nextId
        BY <1>4 DEF FrameInv, TypeOK, WalFile, Frame
      <4> QED
        BY <4>1, <4>2
    <3> QED
      BY <2>1, <3>1, <3>2
  <2>2. \A w \in Writer : pc[w] # "appending"
    BY <1>1, WriterAssumption DEF JournalInv, LockInv, Holding, Saver
  <2>3. \A k \in Key : \A i \in Recoverable[k] : i < wal.synced
    BY <1>3, <1>4, PresentFits DEF BelowEnd
  <2>4. AlwaysSync =>
          /\ \A k \in Key : acked[k] \subseteq hardened'
          /\ \A w \in Writer : pc[w] = "applying" => job[w].id \in hardened'
    BY DEF FilesPowerInv, HardenedInv
  <2> QED
    BY <1>1, <1>2, <1>3, <2>1, <2>2, <2>3, <2>4 DEF HardenedInv
<1>8. VisibleInv'
  BY <1>1, <1>3 DEF FilesPowerInv, VisibleInv, Undisturbed
<1> QED
  BY <1>5, <1>6, <1>7, <1>8 DEF FilesPowerInv

\* Every step of a save keeps the files safe against a power loss.
LEMMA SaverStepPower ==
  ASSUME JournalInv, JournalInv', FilesPowerInv, SafeNames', Undisturbed' => Undisturbed, SaverStep
  PROVE  FilesPowerInv'
<1>0. faults \in [proc : Nat, power : Nat, io : Nat, saves : Nat]
  BY DEF JournalInv, TypeOK
<1>1. ASSUME NEW k \in Key, SaveLockGate(k) PROVE FilesPowerInv'
  <2>1. UNCHANGED <<wal, staleWals, snap, staleSnaps, hardened, nextGen, spc, cap>> /\ spc = "barrier"
    BY <1>1 DEF SaveLockGate, LockBarrier, walVars, snapVars, counters, saverVars
  <2> QED
    BY <2>1, SaverCalmPower
<1>2. CASE Capture
  <2>1. CASE CheckpointSync
    BY <1>2, <2>1, CapturePower
  <2>2. CASE SaveEnds /\ UNCHANGED <<walVars, hardened, nextGen>>
    <3>1. UNCHANGED <<wal, staleWals, snap, staleSnaps, hardened, nextGen>> /\ spc = "barrier" /\ spc' = "idle"
      BY <1>2, <2>2 DEF Capture, SaveEnds, walVars, snapVars
    <3> QED
      BY <3>1, SaverCalmPower
  <2> QED
    BY <1>2, <2>1, <2>2 DEF Capture
<1>3. CASE Install
  <2>1. CASE SaveEnds /\ UNCHANGED snapVars
    <3>1. UNCHANGED <<wal, staleWals, snap, staleSnaps, hardened, nextGen>> /\ spc = "write" /\ spc' = "idle"
      BY <1>3, <2>1 DEF Install, SaveEnds, walVars, snapVars, counters
    <3> QED
      BY <3>1, SaverCalmPower
  <2> QED
    BY <1>3, <2>1, InstallPower DEF Install
<1>4. CASE SyncSnapshotDir
  <2>1. CASE SaveEnds /\ UNCHANGED staleSnaps
    <3>1. UNCHANGED <<wal, staleWals, snap, staleSnaps, hardened, nextGen>> /\ spc = "installed" /\ spc' = "idle"
      BY <1>4, <2>1 DEF SyncSnapshotDir, SaveEnds, walVars, counters
    <3> QED
      BY <3>1, SaverCalmPower
  <2> QED
    BY <1>4, <2>1, SnapshotDirPower DEF SyncSnapshotDir, SnapshotDirSynced
<1>5. CASE CheckBeforeRotate \/ PoisonAfterRotate
  <2>1. UNCHANGED <<wal, staleWals, snap, staleSnaps, hardened, nextGen>>
    BY <1>5 DEF CheckBeforeRotate, PoisonAfterRotate, walVars, snapVars, counters
  <2>2. \/ spc \in {"durable", "failed"} /\ spc' = "idle"
        \/ spc = "durable" /\ spc' = "rotate" /\ cap' = cap
    BY <1>5 DEF CheckBeforeRotate, PoisonAfterRotate, SaveEnds
  <2> QED
    BY <2>1, <2>2, SaverCalmPower
<1>6. CASE RotateAfter
  <2>1. CASE spc' = "failed" /\ UNCHANGED <<walVars, jlock>>
    <3>1. UNCHANGED <<wal, staleWals, snap, staleSnaps, hardened, nextGen, cap>> /\ spc = "rotate"
      BY <1>6, <2>1 DEF RotateAfter, walVars, snapVars, counters
    <3> QED
      BY <2>1, <3>1, SaverCalmPower
  <2> QED
    BY <1>6, <2>1, RotatePower DEF RotateAfter
<1>7. CASE SyncJournalDir
  <2>1. CASE DirSyncMayFail /\ IoError /\ spc' = "failed" /\ UNCHANGED <<staleWals, cap, hardened>>
    <3>1. UNCHANGED <<wal, staleWals, snap, staleSnaps, hardened, nextGen>>
      BY <1>7, <2>1 DEF SyncJournalDir, snapVars, counters
    <3>2. faults'.io # 0
      BY <1>0, <2>1 DEF IoError
    <3> QED
      BY <2>1, <3>1, <3>2, SaverCalmPower
  <2> QED
    BY <1>7, <2>1, JournalDirPower DEF SyncJournalDir
<1> QED
  BY <1>1, <1>2, <1>3, <1>4, <1>5, <1>6, <1>7 DEF SaverStep

-----------------------------------------------------------------------------
(* Syncs, shutdown, crashes and recovery                                   *)

\* The timer syncs the journal, or poisons it because it cannot.
LEMMA FsyncPower ==
  ASSUME JournalInv, JournalInv', FilesPowerInv, Undisturbed' => Undisturbed, FsyncWal
  PROVE  FilesPowerInv'
<1>1. /\ UNCHANGED <<snap, staleSnaps, nextId, nextGen, acked, mem, phase, cpc, pc, job, spc, cap>>
      /\ phase = "up" /\ jlock = Nobody
  BY DEF FsyncWal, lifeVars, snapVars, counters, writerVars, saverVars
<1>2. nextGen' >= nextGen
  BY <1>1 DEF JournalInv, TypeOK
<1>3. CASE SyncWal
  <2>1. wal'.frames = wal.frames /\ wal'.gen = wal.gen
    BY <1>3 DEF SyncWal, Synced, JournalInv, TypeOK, WalFile
  <2>2. Recoverable' = Recoverable
    BY <1>1, <2>1, SameRecovered DEF Recoverable
  <2>3. jlock # Saver /\ \A v \in Writer : pc[v] # "appending"
    BY <1>1, WriterAssumption DEF JournalInv, LockInv, Holding, Nobody, Saver
  <2>4. NamesInv' /\ PairsInv' /\ HardenedInv' /\ VisibleInv'
    BY <1>1, <1>2, <1>3, <2>2, <2>3, SyncStep DEF JournalInv, FilesPowerInv, Capturing
  <2> QED
    BY <2>4 DEF FilesPowerInv
<1>4. CASE UNCHANGED <<walVars, hardened>>
  <2>1. UNCHANGED <<wal, staleWals>> /\ Recoverable' = Recoverable
    BY <1>1, <1>4 DEF walVars, Recoverable
  <2> QED
    BY <1>1, <1>2, <1>4, <2>1, CalmStep DEF JournalInv, FilesPowerInv, Capturing
<1> QED
  BY <1>3, <1>4 DEF FsyncWal

\* A mutation, a save or a shutdown begins, or nothing happens.
LEMMA BeginPower ==
  ASSUME JournalInv, JournalInv', FilesPowerInv, Undisturbed' => Undisturbed,
         \/ \E w \in Writer : \E keys \in KeySets, checked, doomed \in BOOLEAN :
              Begin(w, keys, checked, doomed)
         \/ SaveBegin \/ BeginShutdown \/ UNCHANGED vars
  PROVE  FilesPowerInv'
<1>1. /\ UNCHANGED <<wal, staleWals, snap, staleSnaps, nextId, nextGen, acked, hardened, mem, phase, cap>>
      /\ spc' = spc \/ (spc = "idle" /\ spc' = "barrier")
      /\ cpc' = cpc \/ cpc' = "draining"
  BY DEF Begin, SaveBegin, BeginShutdown, vars, lifeVars, walVars, snapVars, counters, saverVars
<1>2. \A v \in Writer : (pc'[v] = pc[v] /\ job'[v] = job[v]) \/ ~Active(v)'
  <2>1. ASSUME NEW w \in Writer, NEW keys \in KeySets, NEW checked \in BOOLEAN,
               NEW doomed \in BOOLEAN, Begin(w, keys, checked, doomed)
        PROVE  \A v \in Writer : (pc'[v] = pc[v] /\ job'[v] = job[v]) \/ ~Active(v)'
    BY <2>1 DEF Begin, JournalInv, TypeOK, Active
  <2> QED
    BY <2>1 DEF SaveBegin, BeginShutdown, vars, writerVars
<1>3. nextGen' >= nextGen /\ Recoverable' = Recoverable
  BY <1>1 DEF JournalInv, TypeOK, Recoverable
<1> QED
  BY <1>1, <1>2, <1>3, CalmStep DEF JournalInv, FilesPowerInv, Capturing

\* The steps of the shutdown: the process leaves a synced journal behind, or
\* one that a failed sync has been counted for.
LEMMA CloserStepPower ==
  ASSUME JournalInv, JournalInv', ShutdownInv, FilesPowerInv, Undisturbed' => Undisturbed, CloserStep
  PROVE  FilesPowerInv'
<1>1. CASE JoinSaver \/ \E k \in Key : CloseLockGate(k)
  <2>1. /\ UNCHANGED <<wal, staleWals, snap, staleSnaps, nextId, nextGen, acked, hardened, mem, phase,
                       cap, spc, pc, job>>
        /\ cpc' # "unsynced" \/ cpc' = cpc
    BY <1>1 DEF JoinSaver, CloseLockGate, LockBarrier, lifeVars, walVars, snapVars, counters,
                saverVars, writerVars
  <2>2. nextGen' >= nextGen /\ Recoverable' = Recoverable
    BY <2>1 DEF JournalInv, TypeOK, Recoverable
  <2> QED
    BY <2>1, <2>2, CalmStep DEF JournalInv, FilesPowerInv, Capturing
<1>2. CASE FinalizeShutdown
  <2>1. /\ UNCHANGED <<snap, staleSnaps, nextId, nextGen, acked, mem, phase, pc, job, spc, cap>>
        /\ phase = "up" /\ jlock = Nobody
    BY <1>2 DEF FinalizeShutdown, snapVars, counters, writerVars, saverVars
  <2>2. nextGen' >= nextGen
    BY <2>1 DEF JournalInv, TypeOK
  <2>3. CASE SyncWal /\ cpc' = "synced"
    <3>1. wal'.frames = wal.frames /\ wal'.gen = wal.gen
      BY <2>3 DEF SyncWal, Synced, JournalInv, TypeOK, WalFile
    <3>2. Recoverable' = Recoverable
      BY <2>1, <3>1, SameRecovered DEF Recoverable
    <3>3. jlock # Saver /\ \A v \in Writer : pc[v] # "appending"
      BY <2>1, WriterAssumption DEF JournalInv, LockInv, Holding, Nobody, Saver
    <3>4. NamesInv' /\ PairsInv' /\ HardenedInv' /\ VisibleInv'
      BY <2>1, <2>2, <2>3, <3>2, <3>3, SyncStep DEF JournalInv, FilesPowerInv, Capturing
    <3> QED
      BY <3>4 DEF FilesPowerInv
  <2>4. CASE IoError /\ UNCHANGED <<walVars, hardened>>
    <3>1. UNCHANGED <<wal, staleWals>> /\ Recoverable' = Recoverable
      BY <2>1, <2>4 DEF walVars, Recoverable
    <3>2. ~Undisturbed'
      BY <2>4 DEF IoError, Undisturbed, JournalInv, TypeOK
    <3> QED
      BY <2>1, <2>2, <2>4, <3>1, <3>2, CalmStep DEF JournalInv, FilesPowerInv, Capturing
  <2> QED
    BY <1>2, <2>3, <2>4 DEF FinalizeShutdown
<1>3. CASE Exit
  <2>1. /\ UNCHANGED <<wal, staleWals, snap, staleSnaps, nextId, nextGen, acked, hardened>>
        /\ mem' = EmptyImage /\ pc' = [w \in Writer |-> "idle"] /\ spc' = "idle" /\ cpc' = "idle"
        /\ cpc \in {"synced", "unsynced"}
    BY <1>3 DEF Exit, Vanish, walVars, snapVars, counters
  <2>2. nextGen' >= nextGen /\ Recoverable' = Recoverable
    BY <2>1 DEF JournalInv, TypeOK, Recoverable
  <2>3. spc = "idle" /\ (cpc = "synced" => wal.synced = wal.end)
    BY <2>1 DEF ShutdownInv
  <2>4. \A v \in Writer : ~Active(v)'
    BY <2>1 DEF Active
  <2>5. \A k \in Key : mem'[k] = {}
    BY <2>1 DEF EmptyImage
  <2>6. CASE cpc = "synced"
    BY <2>1, <2>2, <2>3, <2>4, <2>5, <2>6, CalmStep DEF JournalInv, FilesPowerInv, Capturing
  <2>7. CASE cpc = "unsynced"
    <3>1. AlwaysSync => ~Undisturbed
      BY <2>7 DEF FilesPowerInv, VisibleInv, Undisturbed
    <3>2. CASE AlwaysSync
      BY <2>1, <2>2, <2>3, <2>4, <2>5, <3>1, <3>2, CalmStep DEF JournalInv, FilesPowerInv, Capturing
    <3>3. CASE ~AlwaysSync
      <4>1. VisibleInv'
        BY <3>3 DEF VisibleInv
      <4>2. Wals' = Wals /\ Snaps' = Snaps
        BY <2>1 DEF Wals, Snaps
      <4>3. NamesInv'
        BY <2>1, <2>3 DEF FilesPowerInv, NamesInv, Capturing
      <4>4. PairsInv'
        <5>1. wal.synced <= wal.synced /\ wal.synced <= wal.end
          BY DEF FilesPowerInv, PairsInv, WalOK, Wals, JournalInv, TypeOK, WalFile
        <5>2. \A v \in Writer : Holding(v)' => Holding(v) /\ job'[v] = job[v]
          BY <2>4 DEF Holding, Active
        <5> QED
          BY <2>1, <2>2, <4>2, <5>1, <5>2, PairsQuiet DEF JournalInv, FilesPowerInv
      <4>5. HardenedInv'
        BY <2>1, <2>2, <3>3, <4>2 DEF FilesPowerInv, HardenedInv
      <4> QED
        BY <4>1, <4>3, <4>4, <4>5 DEF FilesPowerInv
    <3> QED
      BY <3>2, <3>3
  <2> QED
    BY <2>1, <2>6, <2>7
<1> QED
  BY <1>1, <1>2, <1>3 DEF CloserStep

\* The process is killed: unless the file system makes names durable with the
\* next sync, it was not between rename and directory sync.
LEMMA CrashPower ==
  ASSUME JournalInv, JournalInv', FilesPowerInv, SafeNames', ProcessCrash
  PROVE  FilesPowerInv'
<1>1. /\ UNCHANGED <<wal, staleWals, snap, staleSnaps, nextId, nextGen, acked, hardened>>
      /\ mem' = EmptyImage /\ pc' = [w \in Writer |-> "idle"] /\ spc' = "idle" /\ cpc' = "idle"
  BY DEF ProcessCrash, Vanish, walVars, snapVars, counters
<1>2. nextGen' >= nextGen /\ Recoverable' = Recoverable
  BY <1>1 DEF JournalInv, TypeOK, Recoverable
<1>3. faults'.proc # 0
  BY DEF ProcessCrash, JournalInv, TypeOK
<1>4. FsyncPersistsName /\ ~Undisturbed'
  BY <1>3 DEF SafeNames, Undisturbed
<1>5. \A v \in Writer : ~Active(v)'
  BY <1>1 DEF Active
<1>6. \A k \in Key : mem'[k] = {}
  BY <1>1 DEF EmptyImage
<1> QED
  BY <1>1, <1>2, <1>4, <1>5, <1>6, CalmStep DEF JournalInv, FilesPowerInv, Capturing

\* A start rolls a bad tail back and serves what it rebuilt.
LEMMA RecoverPower ==
  ASSUME JournalInv, JournalInv', FilesPowerInv, Undisturbed' => Undisturbed, Recover
  PROVE  FilesPowerInv'
<1>1. TypeOK /\ TypeOK' /\ FrameInv /\ SnapInv /\ FrameInv' /\ SnapInv' /\ CaptureInv' /\ LiveInv'
  BY DEF JournalInv
<1>2. /\ UNCHANGED <<nextId, spc, cap, snap, staleSnaps, nextGen, hardened, acked, cpc, pc, job>>
      /\ phase = "down" /\ phase' = "up" /\ wal' = RecoveredWal(snap, wal)
      /\ staleWals' \subseteq staleWals
  BY DEF Recover, StaleAfterSync, saverVars, snapVars, counters, writerVars
<1>3. Recoverable' = Recoverable
  BY RecoverFiles DEF JournalInv, FileInv
<1>4. /\ \A f : f \in wal'.frames <=> f \in wal.frames /\ ~Bad(f)
      /\ wal'.gen = wal.gen
      /\ wal' = wal \/ wal'.synced = wal'.end
  BY <1>1, <1>2, RecoveredWalIs
<1>5. spc = "idle" /\ \A v \in Writer : pc[v] = "idle"
  BY <1>2 DEF JournalInv, LockInv
<1>6. nextId \in Nat /\ nextId' >= nextId
  BY <1>1, <1>2 DEF TypeOK
<1>7. /\ NamesInv' /\ HardenedInv' /\ snap.offset <= wal'.synced
      /\ \A x \in Wals' : x \in staleWals \/ x.synced = wal.synced
           \/ \A k \in Key : \A i \in Recoverable'[k] : i < x.synced
  BY <1>1, <1>2, <1>3, <1>4, <1>5, <1>6, ChangeStep DEF FilesPowerInv
<1>8. VisibleInv'
  <2> SUFFICES ASSUME AlwaysSync, Undisturbed'
               PROVE  /\ \A x \in Wals', k \in Key : \A i \in mem'[k] : i < x.synced
                      /\ staleWals' = {}
                      /\ cpc' # "unsynced"
    BY <1>2 DEF VisibleInv, Undisturbed
  <2>1. wal.synced = wal.end /\ staleWals = {} /\ cpc # "unsynced"
    BY <1>2, <1>5 DEF FilesPowerInv, VisibleInv, Undisturbed
  <2>2. Wals' = {wal'}
    BY <1>2, <2>1 DEF Wals
  <2>3. wal'.synced = wal'.end
    BY <1>4, <2>1
  <2>4. \A k \in Key : \A i \in Recoverable'[k] : i < wal'.end
    BY <1>1, RecoverableNext
  <2>5. \A k \in Key : mem'[k] \subseteq Recoverable'[k]
    BY <1>1 DEF LiveInv
  <2> QED
    BY <1>2, <2>1, <2>2, <2>3, <2>4, <2>5
<1>9. PairsInv'
  <2>1. wal'.synced <= wal'.end
    <3>1. wal.synced <= wal.end /\ wal'.end \in Nat
      BY <1>1 DEF FilesPowerInv, PairsInv, Wals, WalOK, TypeOK, WalFile
    <3> QED
      BY <1>4, <3>1
  <2>2. \A x \in staleWals' : x.end <= nextId
    BY <1>2 DEF FilesPowerInv, PairsInv, Wals, WalOK
  <2>3. \A v \in Writer : ~Holding(v)'
    BY <1>2, <1>5 DEF Holding
  <2>4. snap.offset <= nextId
    BY <1>1 DEF SnapInv, FrameInv, TypeOK, SnapshotFile, WalFile
  <2>5. \A f : f.id # nextId => (f \in wal.frames /\ ~Bad(f) <=> f \in wal'.frames /\ ~Bad(f))
    BY <1>4
  <2>6. \A f \in wal'.frames : f.id = nextId \/ f \in wal.frames
    BY <1>4
  <2> QED
    BY <1>1, <1>2, <1>4, <1>6, <1>7, <2>1, <2>2, <2>3, <2>4, <2>5, <2>6, PairsChange DEF FilesPowerInv
<1> QED
  BY <1>7, <1>8, <1>9 DEF FilesPowerInv

\* What a power loss leaves satisfies both invariants again, rebuilds a prefix
\* of the history, and keeps what is owed.
LEMMA PowerLossPower ==
  ASSUME JournalInv, FilesPowerInv, TypeOK', LockInv', PowerLoss
  PROVE  /\ JournalInv' /\ FilesPowerInv'
         /\ \E n \in Nat :
              /\ n <= nextId
              /\ \A k \in Key : Recoverable'[k] = {i \in Recoverable[k] : i < n}
<1>1. TypeOK /\ PairsInv /\ HardenedInv /\ LiveInv
  BY DEF JournalInv, FilesPowerInv
<1>2. /\ mem' = EmptyImage /\ pc' = [w \in Writer |-> "idle"] /\ spc' = "idle" /\ cpc' = "idle"
      /\ phase' = "down" /\ staleWals' = {} /\ staleSnaps' = {} /\ acked' = [k \in Key |-> Owed(k)]
      /\ UNCHANGED <<nextId, nextGen, hardened>>
  BY DEF PowerLoss, Vanish, counters
<1>3. PICK w \in Wals : wal' \in PowerCut(w)
  BY DEF PowerLoss, Wals
<1>4. snap' \in Snaps
  BY DEF PowerLoss, Snaps
<1>5. snap' \in SnapshotFile /\ w \in WalFile /\ Sound(w) /\ WalOK(w)
  BY <1>1, <1>4, FilesTyped DEF PairsInv
<1>6. /\ wal' \in WalFile /\ Sound(wal') /\ wal'.gen = w.gen /\ wal'.synced = wal'.end
      /\ wal'.end <= w.end /\ w.synced <= wal'.end
  BY <1>3, <1>5, CutIs
<1>7. Fits(snap', wal')
  BY <1>1, <1>3, <1>4, CutFits
<1>8. PICK n \in Nat : /\ w.synced <= n /\ n <= nextId
                       /\ \A k \in Key : Recovered(snap', wal')[k] = {i \in Recoverable[k] : i < n}
  BY <1>1, <1>3, <1>4, CutFits
<1>9. /\ wal'.end \in Nat /\ w.end \in Nat /\ w.synced \in Nat /\ w.gen \in Nat /\ nextId \in Nat
      /\ nextGen \in Nat /\ snap'.offset \in Nat /\ snap.offset \in Nat
  BY <1>1, <1>5, <1>6 DEF TypeOK, WalFile, SnapshotFile
<1>10. \A v \in Writer : ~Active(v)' /\ ~Holding(v)' /\ ~Pending(v)' /\ pc'[v] = "idle"
  BY <1>2 DEF Active, Holding, Pending
<1>11. FrameInv'
  <2>1. wal'.end <= nextId'
    BY <1>2, <1>5, <1>6, <1>9 DEF WalOK
  <2> QED
    BY <1>2, <1>6, <1>7, <1>10, <2>1 DEF FrameInv, Sound, Fits
<1>12. SnapInv'
  <2>1. wal'.gen < nextGen'
    BY <1>2, <1>5, <1>6 DEF WalOK
  <2> QED
    BY <1>7, <2>1 DEF SnapInv, Fits
<1>13. \A k \in Key : Recoverable'[k] = {i \in Recoverable[k] : i < n}
  BY <1>8 DEF Recoverable
<1>14. LiveInv'
  <2>1. ASSUME NEW k \in Key, NEW i \in acked'[k] PROVE i \in Recoverable'[k]
    <3>1. i \in Owed(k)
      BY <1>2, <2>1
    <3>2. i \in acked[k] /\ i \in hardened
      BY <1>1, <3>1 DEF Owed, HardenedInv
    <3>3. i \in Recoverable[k] /\ i \in Nat
      BY <1>1, <3>2 DEF LiveInv, TypeOK
    <3>4. i < w.synced
      BY <1>1, <3>2, <3>3 DEF HardenedInv
    <3> QED
      BY <1>8, <1>9, <1>13, <3>3, <3>4
  <2>2. \A k \in Key : mem'[k] = {}
    BY <1>2 DEF EmptyImage
  <2>3. \A k \in Key : \A i \in Recoverable'[k] : i < nextId'
    BY <1>1, <1>2, <1>13 DEF LiveInv
  <2> QED
    BY <1>2, <1>10, <2>1, <2>2, <2>3 DEF LiveInv
<1>15. JournalInv'
  <2>1. CaptureInv'
    BY <1>2 DEF CaptureInv
  <2> QED
    BY <1>11, <1>12, <1>14, <2>1 DEF JournalInv
<1>16. Wals' = {wal'} /\ Snaps' = {snap'}
  BY <1>2 DEF Wals, Snaps
<1>17. \A k \in Key : \A i \in Recoverable'[k] : i < wal'.synced
  BY <1>6, <1>11, <1>12, RecoverableNext
<1>18. NamesInv'
  BY <1>2 DEF NamesInv, Capturing
<1>19. PairsInv'
  <2>1. snap'.offset <= wal'.synced /\ wal'.synced <= wal'.end /\ snap'.offset <= snap'.offset
    BY <1>6, <1>7, <1>9 DEF Fits
  <2>2. /\ WalOK(wal)' /\ PairOK(snap, wal)'
        /\ (\A k \in Key : \A i \in snap.image[k] : i < snap.offset)'
    BY <1>11, <1>12, <2>1, PresentPairNext
  <2>3. ASSUME NEW x \in Wals' PROVE WalOK(x)'
    BY <1>16, <2>2
  <2>4. ASSUME NEW x \in Wals', NEW s \in Snaps' PROVE PairOK(s, x)'
    BY <1>16, <2>2
  <2> QED
    BY <1>2, <1>16, <2>1, <2>2, <2>3, <2>4 DEF PairsInv
<1>20. HardenedInv'
  <2>1. AlwaysSync => \A k \in Key : acked'[k] \subseteq hardened'
    BY <1>1, <1>2 DEF Owed, HardenedInv
  <2> QED
    BY <1>1, <1>2, <1>10, <1>16, <1>17, <2>1 DEF HardenedInv
<1>21. VisibleInv'
  BY <1>2, <1>6 DEF VisibleInv, EmptyImage
<1> QED
  BY <1>8, <1>13, <1>15, <1>18, <1>19, <1>20, <1>21 DEF FilesPowerInv

-----------------------------------------------------------------------------
(* The inductive step                                                      *)

\* Faults are counted and never forgotten, so safe names and an undisturbed
\* run are so from the start.
LEMMA FaultsGrow ==
  ASSUME TypeOK, [Next]_vars
  PROVE  (SafeNames' => SafeNames) /\ (Undisturbed' => Undisturbed)
<1> DEFINE Grow == faults'.proc >= faults.proc /\ faults'.io >= faults.io
<1>0. /\ faults \in [proc : Nat, power : Nat, io : Nat, saves : Nat]
      /\ faults.proc \in Nat /\ faults.io \in Nat
  BY DEF TypeOK
<1>1. ASSUME IoError \/ NoError \/ UNCHANGED faults PROVE Grow
  BY <1>0, <1>1 DEF IoError, NoError
<1> SUFFICES Grow
  BY <1>0 DEF SafeNames, Undisturbed
<1>3. ASSUME NEW w \in Writer, WriterStep(w) PROVE Grow
  <2>1. ASSUME NEW k \in Key, LockGate(w, k) \/ Apply(w, k) PROVE UNCHANGED faults
    BY <2>1 DEF LockGate, Apply
  <2>2. CASE PrepareJournaled(w) \/ AppendStart(w) \/ AppendDone(w) \/ SyncDone(w)
    BY <1>1, <2>2 DEF PrepareJournaled, AppendStart, AppendDone, SyncDone
  <2>3. CASE AppendFails(w) \/ Reject(w)
    BY <1>1, <2>3 DEF AppendFails, Reject
  <2>4. CASE ApplyFails(w) \/ Complete(w)
    BY <1>1, <2>4 DEF ApplyFails, Complete
  <2> QED
    BY <1>1, <1>3, <2>1, <2>2, <2>3, <2>4 DEF WriterStep
<1>4. CASE SaverStep
  <2>1. ASSUME NEW k \in Key, SaveLockGate(k) PROVE UNCHANGED faults
    BY <2>1 DEF SaveLockGate, LockBarrier
  <2>2. CASE Capture \/ Install \/ SyncSnapshotDir
    BY <1>1, <2>2 DEF Capture, Install, SyncSnapshotDir
  <2>3. CASE CheckBeforeRotate \/ RotateAfter \/ SyncJournalDir \/ PoisonAfterRotate
    BY <1>1, <2>3 DEF CheckBeforeRotate, RotateAfter, SyncJournalDir, PoisonAfterRotate
  <2> QED
    BY <1>1, <1>4, <2>1, <2>2, <2>3 DEF SaverStep
<1>5. CASE CloserStep
  <2>1. ASSUME NEW k \in Key, CloseLockGate(k) PROVE UNCHANGED faults
    BY <2>1 DEF CloseLockGate, LockBarrier
  <2>2. CASE JoinSaver \/ FinalizeShutdown \/ Exit
    BY <1>1, <2>2 DEF JoinSaver, FinalizeShutdown, Exit
  <2> QED
    BY <1>1, <1>5, <2>1, <2>2 DEF CloserStep
<1>6. CASE FsyncWal \/ BeginShutdown \/ Recover \/ UNCHANGED vars
  BY <1>1, <1>6 DEF FsyncWal, BeginShutdown, Recover, vars
<1>7. CASE SaveBegin \/ ProcessCrash \/ PowerLoss
  BY <1>0, <1>7 DEF SaveBegin, ProcessCrash, PowerLoss
<1>8. ASSUME NEW w \in Writer, NEW keys \in KeySets, NEW checked \in BOOLEAN,
             NEW doomed \in BOOLEAN, Begin(w, keys, checked, doomed)
      PROVE  Grow
  BY <1>1, <1>8 DEF Begin
<1> QED
  BY <1>3, <1>4, <1>5, <1>6, <1>7, <1>8 DEF Next

\* JournalInv and PowerInv are inductive as long as names are safe.
LEMMA NextPower ==
  ASSUME JournalInv, PowerInv, SafeNames', [Next]_vars
  PROVE  JournalInv' /\ PowerInv'
<1>1. TypeOK' /\ LockInv' /\ ShutdownInv' /\ ShutdownInv /\ FilesPowerInv
  BY NextType, NextLocks, NextShutdown DEF JournalInv, PowerInv, CaptureInv, CaptureTyped, FilesPowerInv
<1>2. CASE PowerLoss
  BY <1>1, <1>2, PowerLossPower DEF PowerInv, FilesPowerInv
<1>3. CASE ~PowerLoss
  <2>1. JournalInv'
    BY <1>3, NextInv
  <2>2. Undisturbed' => Undisturbed
    BY FaultsGrow DEF JournalInv
  <2>3. FilesPowerInv'
    <3>1. CASE \E w \in Writer : WriterStep(w)
      BY <1>1, <2>1, <2>2, <3>1, WriterStepPower
    <3>2. CASE SaverStep
      BY <1>1, <2>1, <2>2, <3>2, SaverStepPower
    <3>3. CASE CloserStep
      BY <1>1, <2>1, <2>2, <3>3, CloserStepPower
    <3>4. CASE FsyncWal
      BY <1>1, <2>1, <2>2, <3>4, FsyncPower
    <3>5. CASE ProcessCrash
      BY <1>1, <2>1, <3>5, CrashPower
    <3>6. CASE Recover
      BY <1>1, <2>1, <2>2, <3>6, RecoverPower
    <3>7. CASE \/ \E w \in Writer : \E keys \in KeySets, checked, doomed \in BOOLEAN :
                    Begin(w, keys, checked, doomed)
               \/ SaveBegin \/ BeginShutdown \/ UNCHANGED vars
      BY <1>1, <2>1, <2>2, <3>7, BeginPower
    <3> QED
      BY <1>3, <3>1, <3>2, <3>3, <3>4, <3>5, <3>6, <3>7 DEF Next
  <2> QED
    BY <1>1, <2>1, <2>3 DEF PowerInv, FilesPowerInv
<1> QED
  BY <1>2, <1>3

\* A fresh store satisfies both invariants.
LEMMA InitPower == Init => JournalInv /\ PowerInv
<1> SUFFICES ASSUME Init PROVE JournalInv /\ PowerInv
  OBVIOUS
<1>1. JournalInv /\ ShutdownInv
  BY InitInv, InitShutdown
<1>2. /\ staleWals = {} /\ staleSnaps = {} /\ spc = "idle" /\ cpc = "idle" /\ phase = "up"
      /\ pc = [w \in Writer |-> "idle"] /\ mem = EmptyImage /\ acked = EmptyImage /\ hardened = {}
      /\ snap = NoSnapshot /\ wal = [gen |-> 1, frames |-> {}, synced |-> 1, end |-> 1]
  BY DEF Init
<1>3. Wals = {wal} /\ Snaps = {snap}
  BY <1>2 DEF Wals, Snaps
<1>4. NamesInv
  BY <1>2 DEF NamesInv, Capturing
<1>5. PairsInv
  <2>1. snap.offset = 0 /\ wal.synced = 1 /\ wal.end = 1
    BY <1>2 DEF NoSnapshot
  <2>2. /\ WalOK(wal) /\ PairOK(snap, wal)
        /\ \A k \in Key : \A i \in snap.image[k] : i < snap.offset
    BY <1>1, <2>1, PresentPair DEF JournalInv
  <2> QED
    BY <1>2, <1>3, <2>1, <2>2 DEF PairsInv
<1>6. HardenedInv
  BY <1>2 DEF HardenedInv, EmptyImage
<1>7. VisibleInv
  BY <1>2 DEF VisibleInv, EmptyImage
<1> QED
  BY <1>1, <1>4, <1>5, <1>6, <1>7 DEF PowerInv

-----------------------------------------------------------------------------
(* Theorems                                                                *)

\* The locks, the frames, the snapshot, the capture and memory fit together
\* until the power fails, and as long as names are safe so do all the files
\* that a power loss may bring back: prepare, append, apply, the save and the
\* recovery preserve this one after the other.
THEOREM InvariantHolds == Spec => []Consistent
<1>1. Init => Consistent
  BY InitPower DEF Consistent
<1>2. TypeOK /\ Consistent /\ [Next]_vars => Consistent'
  <2> SUFFICES ASSUME TypeOK, Consistent, [Next]_vars PROVE Consistent'
    OBVIOUS
  <2>1. CASE SafeNames'
    <3>1. SafeNames
      BY <2>1, FaultsGrow
    <3>2. JournalInv /\ PowerInv
      BY <3>1 DEF Consistent
    <3> QED
      BY <2>1, <3>2, NextPower DEF Consistent
  <2>2. CASE ~SafeNames' /\ faults'.power = 0
    <3>1. faults.power = 0 /\ ~PowerLoss
      BY <2>2, PowerCounts
    <3>2. JournalInv
      BY <3>1 DEF Consistent
    <3> QED
      BY <2>2, <3>1, <3>2, NextInv DEF Consistent
  <2>3. CASE ~SafeNames' /\ faults'.power # 0
    BY <2>3 DEF Consistent
  <2> QED
    BY <2>1, <2>2, <2>3
<1> QED
  BY <1>1, <1>2, TypeCorrect, PTL DEF Spec

\* Whenever the process stops, Runtime::start accepts the files and rebuilds
\* every acknowledged and every visible mutation, none of them twice.
THEOREM CrashSafety == Spec => []CrashRecovers
<1>1. Consistent => CrashRecovers
  BY InvRestartSafe DEF Consistent, CrashRecovers
<1> QED
  BY <1>1, InvariantHolds, PTL

\* What clients can read is what a restart would rebuild, up to the mutations
\* between append and apply.
THEOREM LiveMatches == Spec => [](faults.power = 0 \/ SafeNames => LiveMatchesJournal)
<1>1. Consistent => (faults.power = 0 \/ SafeNames => LiveMatchesJournal)
  BY DEF Consistent, JournalInv, LiveInv, LiveMatchesJournal
<1> QED
  BY <1>1, InvariantHolds, PTL

\* The files after a power loss at this moment.
LEMMA AfterPowerLossIs ==
  ASSUME TypeOK, PairsInv, NEW o \in AfterPowerLoss
  PROVE  /\ o[1] \in SnapshotFile /\ o[2] \in WalFile /\ Fits(o[1], o[2])
         /\ \E n \in Nat :
              /\ \E w \in Wals : w.synced <= n
              /\ n <= nextId
              /\ \A k \in Key : Recovered(o[1], o[2])[k] = {i \in Recoverable[k] : i < n}
<1>1. o[1] \in Snaps /\ \E w \in Wals : o[2] \in PowerCut(w)
  BY DEF AfterPowerLoss
<1>2. PICK w \in Wals : o[2] \in PowerCut(w)
  BY <1>1
<1>3. o[1] \in SnapshotFile /\ w \in WalFile /\ Sound(w)
  BY <1>1, FilesTyped
<1>4. o[2] \in WalFile
  BY <1>2, <1>3, CutIs
<1> QED
  BY <1>1, <1>2, <1>3, <1>4, CutFits

\* Startup refuses no files that a crash or a power loss leaves behind: the
\* generation and offset checks of replay_from and the failed-command check of
\* replay_wal reject only files that were damaged otherwise.
THEOREM NoRefusal == Spec => [](SafeNames => NeverRefused)
<1>1. ASSUME JournalInv, PowerInv PROVE NeverRefused
  <2>1. ~Refused(snap, wal)
    BY <1>1, NotRefused DEF JournalInv
  <2>2. ASSUME NEW o \in AfterPowerLoss PROVE ~Refused(o[1], o[2])
    BY <1>1, AfterPowerLossIs, FitsNotRefused DEF JournalInv, PowerInv
  <2> QED
    BY <2>1, <2>2 DEF NeverRefused
<1>2. Consistent => (SafeNames => NeverRefused)
  BY <1>1 DEF Consistent
<1> QED
  BY <1>2, InvariantHolds, PTL

\* No crash and no power loss makes recovery apply a mutation that the snapshot
\* image contains already.
THEOREM AppliedOnce == Spec => [](SafeNames => ExactlyOnce)
<1>1. ASSUME JournalInv, PowerInv PROVE ExactlyOnce
  <2>1. Fits(snap, wal) /\ snap \in SnapshotFile /\ wal \in WalFile
    BY <1>1, PresentFits DEF JournalInv, TypeOK
  <2>2. ASSUME NEW o \in AfterPowerLoss \cup {<<snap, wal>>}
        PROVE  o[1] \in SnapshotFile /\ o[2] \in WalFile /\ Fits(o[1], o[2])
    <3>1. CASE o \in AfterPowerLoss
      BY <1>1, <3>1, AfterPowerLossIs DEF JournalInv, PowerInv
    <3>2. CASE o = <<snap, wal>>
      BY <2>1, <3>2
    <3> QED
      BY <2>2, <3>1, <3>2
  <2> QED
    BY <2>2, FitsOnce DEF ExactlyOnce
<1>2. Consistent => (SafeNames => ExactlyOnce)
  BY <1>1 DEF Consistent
<1> QED
  BY <1>2, InvariantHolds, PTL

\* A power loss cuts the history at one point: no hole across keys, no half of
\* a mutation of several keys, nothing that was rejected.
THEOREM PrefixRecovers == Spec => [](SafeNames => RecoversPrefix)
<1>1. ASSUME JournalInv, PowerInv PROVE RecoversPrefix
  <2>1. ASSUME NEW o \in AfterPowerLoss
        PROVE  \E n \in 0..nextId : \A k \in Key :
                 Recovered(o[1], o[2])[k] = {i \in Recoverable[k] : i < n}
    <3>1. PICK n \in Nat :
            /\ n <= nextId
            /\ \A k \in Key : Recovered(o[1], o[2])[k] = {i \in Recoverable[k] : i < n}
      BY <1>1, AfterPowerLossIs DEF JournalInv, PowerInv
    <3>2. n \in 0..nextId
      BY <1>1, <3>1 DEF JournalInv, TypeOK
    <3> QED
      BY <3>1, <3>2
  <2> QED
    BY <2>1 DEF RecoversPrefix
<1>2. Consistent => (SafeNames => RecoversPrefix)
  BY <1>1 DEF Consistent
<1> QED
  BY <1>2, InvariantHolds, PTL

\* What a client was told of recovers: after a process crash all of it, after a
\* power loss what the durability policy owes.
THEOREM AcknowledgedRecovers == Spec => [](SafeNames => AckedRecovers)
<1>1. ASSUME JournalInv, PowerInv PROVE AckedRecovers
  <2>1. TypeOK /\ LiveInv /\ PairsInv /\ HardenedInv
    BY <1>1 DEF JournalInv, PowerInv
  <2>2. ASSUME NEW k \in Key, NEW o \in AfterPowerLoss, NEW i \in Owed(k)
        PROVE  i \in Recovered(o[1], o[2])[k]
    <3>1. i \in acked[k] /\ i \in hardened
      BY <2>1, <2>2 DEF Owed, HardenedInv
    <3>2. i \in Recoverable[k] /\ i \in Nat
      BY <2>1, <3>1 DEF LiveInv, TypeOK
    <3>3. PICK n \in Nat :
            /\ \E w \in Wals : w.synced <= n
            /\ \A j \in Key : Recovered(o[1], o[2])[j] = {m \in Recoverable[j] : m < n}
      BY <2>1, AfterPowerLossIs
    <3>4. PICK w \in Wals : w.synced <= n
      BY <3>3
    <3>5. i < w.synced /\ w.synced \in Nat
      BY <2>1, <3>1, <3>2 DEF HardenedInv, Wals, TypeOK, WalFile
    <3> QED
      BY <3>2, <3>3, <3>4, <3>5
  <2> QED
    BY <2>1, <2>2 DEF AckedRecovers, LiveInv
<1>2. Consistent => (SafeNames => AckedRecovers)
  BY <1>1 DEF Consistent
<1> QED
  BY <1>2, InvariantHolds, PTL

\* Under always_sync, until a crash or a failed operation leaves an unsynced
\* frame to be replayed, what a client can read survives a power loss.
THEOREM VisibleSurvives == Spec => [](faults.proc = 0 /\ faults.io = 0 => VisibleIsDurable)
<1>1. ASSUME JournalInv, PowerInv, faults.proc = 0, faults.io = 0 PROVE VisibleIsDurable
  <2>1. TypeOK /\ LiveInv /\ PairsInv /\ VisibleInv
    BY <1>1 DEF JournalInv, PowerInv
  <2>2. ASSUME AlwaysSync, NEW k \in Key, NEW o \in AfterPowerLoss, NEW i \in mem[k]
        PROVE  i \in Recovered(o[1], o[2])[k]
    <3>1. i \in Recoverable[k] /\ i \in Nat
      BY <2>1 DEF LiveInv, TypeOK
    <3>2. PICK n \in Nat :
            /\ \E w \in Wals : w.synced <= n
            /\ \A j \in Key : Recovered(o[1], o[2])[j] = {m \in Recoverable[j] : m < n}
      BY <2>1, AfterPowerLossIs
    <3>3. PICK w \in Wals : w.synced <= n
      BY <3>2
    <3>4. i < w.synced /\ w.synced \in Nat
      BY <1>1, <2>1, <2>2 DEF VisibleInv, Wals, TypeOK, WalFile
    <3> QED
      BY <3>1, <3>2, <3>3, <3>4
  <2> QED
    BY <2>2 DEF VisibleIsDurable
<1>2. Consistent => (faults.proc = 0 /\ faults.io = 0 => VisibleIsDurable)
  BY <1>1 DEF Consistent, SafeNames
<1> QED
  BY <1>2, InvariantHolds, PTL

-----------------------------------------------------------------------------
(* Refinement                                                              *)

\* The writers that have begun a mutation and not yet an issue number for it.
Starting == {v \in Writer : pc[v] \in {"gates", "prepared"}}

\* The bound on mutations leaves an issue number for every mutation that began.
BoundInv == nextId + Cardinality(Starting) <= MaxMutations + 1

\* The set of starting writers is finite.
LEMMA StartingFinite == IsFiniteSet(Starting) /\ Cardinality(Starting) \in Nat
<1>1. Starting \in SUBSET Writer
  BY DEF Starting
<1>2. IsFiniteSet(Starting)
  BY <1>1, FiniteWriters, FS_Subset
<1> QED
  BY <1>2, FS_CardinalityType

\* No step hands out an issue number beyond the bound.
LEMMA NextBound ==
  ASSUME TypeOK, TypeOK', BoundInv, [Next]_vars
  PROVE  BoundInv'
<1>1. nextId \in Nat /\ MaxMutations \in Nat
  BY BoundsAssumption DEF TypeOK
<1>2. ASSUME nextId' = nextId, Starting' \subseteq Starting PROVE BoundInv'
  <2>1. Cardinality(Starting') <= Cardinality(Starting) /\ Cardinality(Starting') \in Nat
    <3>1. Starting' \in SUBSET Starting
      BY <1>2
    <3>2. IsFiniteSet(Starting')
      BY <3>1, StartingFinite, FS_Subset
    <3> QED
      BY <3>1, <3>2, StartingFinite, FS_Subset, FS_CardinalityType
  <2> QED
    BY <1>1, <1>2, <2>1, StartingFinite DEF BoundInv
<1>3. ASSUME nextId' = nextId, pc' = pc PROVE BoundInv'
  BY <1>2, <1>3 DEF Starting
<1>4. ASSUME nextId' = nextId, NEW w \in Writer, pc'[w] \notin {"gates", "prepared"} \/ pc[w] = "gates",
             \A v \in Writer : v # w => pc'[v] = pc[v]
      PROVE  BoundInv'
  <2>1. Starting' \subseteq Starting
    BY <1>4 DEF Starting
  <2> QED
    BY <1>2, <1>4, <2>1
<1>5. ASSUME NEW w \in Writer, NEW keys \in KeySets, NEW checked \in BOOLEAN,
             NEW doomed \in BOOLEAN, Begin(w, keys, checked, doomed)
      PROVE  BoundInv'
  <2>1. /\ nextId + Cardinality(Starting) <= MaxMutations /\ nextId' = nextId
        /\ pc[w] = "idle" /\ pc' = [pc EXCEPT ![w] = "gates"]
    BY <1>5 DEF Begin, Starting, counters
  <2>2. Starting' = Starting \cup {w}
    BY <2>1 DEF Starting, TypeOK
  <2>3. w \notin Starting
    BY <2>1 DEF Starting
  <2>4. Cardinality(Starting \cup {w}) = Cardinality(Starting) + 1
    BY <2>3, StartingFinite, FS_AddElement
  <2>5. Cardinality(Starting') = Cardinality(Starting) + 1
    BY <2>2, <2>4
  <2> QED
    BY <1>1, <2>1, <2>5, StartingFinite DEF BoundInv
<1>6. ASSUME NEW w \in Writer, WriterStep(w) PROVE BoundInv'
  <2>1. ASSUME NEW k \in Key, LockGate(w, k) \/ Apply(w, k) PROVE BoundInv'
    BY <1>3, <2>1 DEF LockGate, Apply, writerVars, counters
  <2>2. CASE PrepareJournaled(w)
    <3>1. nextId' = nextId /\ pc[w] = "gates"
      BY <2>2 DEF PrepareJournaled, counters
    <3>2. \A v \in Writer : v # w => pc'[v] = pc[v]
      BY <2>2, ReplyMoves DEF PrepareJournaled, TypeOK
    <3> QED
      BY <1>4, <3>1, <3>2
  <2>3. CASE AppendStart(w) /\ ~poisoned
    <3>1. /\ nextId' = nextId + 1 /\ pc[w] = "prepared" /\ pc' = [pc EXCEPT ![w] = "appending"]
      BY <2>3 DEF AppendStart
    <3>2. Starting' = Starting \ {w}
      BY <3>1 DEF Starting, TypeOK
    <3>3. w \in Starting
      BY <3>1 DEF Starting
    <3>4. Cardinality(Starting \ {w}) = Cardinality(Starting) - 1
      BY <3>3, StartingFinite, FS_RemoveElement
    <3>5. Cardinality(Starting') = Cardinality(Starting) - 1
      BY <3>2, <3>4
    <3> QED
      BY <1>1, <3>1, <3>5, StartingFinite DEF BoundInv
  <2>4. CASE AppendDone(w) \/ SyncDone(w)
    <3>1. nextId' = nextId
      BY <2>4 DEF AppendDone, SyncDone, counters
    <3>2. pc'[w] \notin {"gates", "prepared"} /\ \A v \in Writer : v # w => pc'[v] = pc[v]
      BY <2>4 DEF AppendDone, SyncDone, NextAfterAppend, TypeOK
    <3> QED
      BY <1>4, <3>1, <3>2
  <2>5. CASE (AppendStart(w) /\ poisoned) \/ AppendFails(w) \/ Reject(w) \/ ApplyFails(w) \/ Complete(w)
    <3>1. nextId' = nextId /\ Reply(w)
      BY <2>5 DEF AppendStart, AppendFails, Reject, ApplyFails, Complete, counters
    <3>2. pc'[w] = "idle" /\ \A v \in Writer : v # w => pc'[v] = pc[v]
      BY <3>1, ReplyMoves
    <3> QED
      BY <1>4, <3>1, <3>2
  <2> QED
    BY <1>6, <2>1, <2>2, <2>3, <2>4, <2>5 DEF WriterStep
<1>7. CASE SaverStep
  <2>1. ASSUME NEW k \in Key, SaveLockGate(k) PROVE BoundInv'
    BY <1>3, <2>1 DEF SaveLockGate, LockBarrier, writerVars, counters
  <2>2. CASE Capture \/ Install \/ SyncSnapshotDir \/ CheckBeforeRotate \/ RotateAfter
             \/ SyncJournalDir \/ PoisonAfterRotate
    <3>1. nextId' = nextId /\ pc' = pc
      BY <2>2 DEF Capture, Install, SyncSnapshotDir, CheckBeforeRotate, RotateAfter,
                  SyncJournalDir, PoisonAfterRotate, writerVars, counters
    <3> QED
      BY <1>3, <3>1
  <2> QED
    BY <1>7, <2>1, <2>2 DEF SaverStep
<1>8. CASE Exit \/ ProcessCrash \/ PowerLoss
  <2>1. nextId' = nextId /\ pc' = [w \in Writer |-> "idle"]
    BY <1>8 DEF Exit, ProcessCrash, PowerLoss, Vanish, counters
  <2>2. Starting' = {}
    BY <2>1 DEF Starting
  <2> QED
    BY <1>2, <2>1, <2>2
<1>9. CASE JoinSaver \/ FinalizeShutdown \/ FsyncWal \/ SaveBegin \/ BeginShutdown \/ Recover
           \/ UNCHANGED vars \/ \E k \in Key : CloseLockGate(k)
  <2>1. nextId' = nextId /\ pc' = pc
    BY <1>9 DEF JoinSaver, FinalizeShutdown, FsyncWal, SaveBegin, BeginShutdown, Recover, vars,
                CloseLockGate, LockBarrier, writerVars, counters
  <2> QED
    BY <1>3, <2>1
<1> QED
  BY <1>5, <1>6, <1>7, <1>8, <1>9 DEF Next, CloserStep

\* In a fresh store all issue numbers are left.
LEMMA InitBound == Init => BoundInv
<1> SUFFICES ASSUME Init PROVE BoundInv
  OBVIOUS
<1>1. Starting = {} /\ nextId = 1 /\ MaxMutations \in Nat
  BY BoundsAssumption DEF Init, Starting
<1>2. Cardinality(Starting) = 0
  BY <1>1, FS_EmptySet
<1> QED
  BY <1>1, <1>2 DEF BoundInv

\* Completing a frame commits its mutation as the newest of the history.
LEMMA AppendCommits ==
  ASSUME JournalInv, JournalInv', BoundInv, NEW w \in Writer, AppendDone(w)
  PROVE  Durable!Commit(job[w].id) /\ job[w].id \in 0..(MaxMutations + 1)
<1>1. TypeOK /\ LockInv /\ FrameInv /\ SnapInv
  BY DEF JournalInv
<1>2. pc[w] = "appending" /\ Active(w) /\ Holding(w) /\ acked' = acked
  BY DEF AppendDone, Active, Holding
<1>3. \A k \in Key : \A i : i \in Recoverable'[k] <=>
         i \in Recoverable[k] \/ (i = job[w].id /\ k \in job[w].keys /\ ~job[w].doomed)
  BY AppendDoneFiles DEF JournalInv, FileInv
<1>4. /\ FrameOf(job[w], FALSE) \in wal.frames /\ FrameOf(job[w], FALSE).id = job[w].id
      /\ Bad(FrameOf(job[w], FALSE)) /\ job[w].id >= snap.offset /\ job[w].id \in Nat
      /\ \A f \in wal.frames : f.id <= job[w].id /\ f.id \in Nat
  BY <1>1, <1>2 DEF FrameInv, FrameOf, Bad, TypeOK, Job, WalFile, Frame
<1>5. ASSUME NEW k \in Key, NEW i \in Recoverable[k] PROVE i < job[w].id
  <2>1. Rebuilt(snap, wal, snap.offset, k, i)
    BY <1>1, RecoverableIs
  <2>2. CASE i \in snap.image[k]
    <3>1. i < snap.offset /\ i \in Nat /\ snap.offset \in Nat
      BY <1>1, <2>2 DEF SnapInv, TypeOK, SnapshotFile
    <3> QED
      BY <1>4, <3>1
  <2>3. ASSUME NEW f \in wal.frames, f.id = i, ~Bad(f) PROVE i < job[w].id
    <3>1. f # FrameOf(job[w], FALSE)
      BY <1>4, <2>3
    <3>2. f.id # job[w].id
      BY <1>1, <1>4, <3>1 DEF FrameInv
    <3> QED
      BY <1>4, <2>3, <3>2
  <2> QED
    BY <2>1, <2>2, <2>3 DEF Rebuilt
<1>6. \A j \in Durable!All : j < job[w].id
  BY <1>5 DEF Durable!All
<1> DEFINE keys == IF job[w].doomed THEN {} ELSE job[w].keys
<1>7. keys \in SUBSET Key
  BY <1>1 DEF TypeOK, Job
<1>8. ASSUME NEW k \in Key
      PROVE  Recoverable'[k] = IF k \in keys THEN Recoverable[k] \cup {job[w].id} ELSE Recoverable[k]
  BY <1>3
<1> HIDE DEF keys
<1>9. Recoverable' = [k \in Key |-> IF k \in keys THEN Recoverable[k] \cup {job[w].id} ELSE Recoverable[k]]
  BY <1>8 DEF Recoverable, Recovered
<1>10. job[w].id \in 0..(MaxMutations + 1)
  <2>1. job[w].id < wal.end /\ wal.end <= nextId /\ wal.end \in Nat /\ nextId \in Nat
    BY <1>1, <1>4 DEF FrameInv, TypeOK, WalFile
  <2> QED
    BY <1>4, <2>1, StartingFinite, BoundsAssumption DEF BoundInv
<1> QED
  BY <1>2, <1>6, <1>7, <1>9, <1>10 DEF Durable!Commit

\* Rolling a frame back withdraws its mutation, if it was part of the history.
LEMMA UndoWithdraws ==
  ASSUME JournalInv, JournalInv', BoundInv, NEW w \in Writer, AppendFails(w) \/ Reject(w),
         Recoverable' # Recoverable
  PROVE  Durable!Withdraw(job[w].id) /\ job[w].id \in 0..(MaxMutations + 1)
<1>1. TypeOK /\ LockInv /\ FrameInv /\ SnapInv /\ LiveInv
  BY DEF JournalInv
<1>2. /\ pc[w] \in {"appending", "syncing"} \/ (pc[w] = "applying" /\ job[w].doomed)
      /\ acked' = acked
  BY DEF AppendFails, Reject
<1>3. Active(w) /\ Holding(w) /\ Pending(w)
  BY <1>1, <1>2 DEF Active, Holding, Pending, LockInv
<1>4. \A k \in Key : \A i : i \in Recoverable'[k] <=> i \in Recoverable[k] /\ i # job[w].id
  BY UndoFiles DEF JournalInv, FileInv
<1>5. /\ job[w].id >= snap.offset /\ job[w].id \in Nat /\ snap.offset \in Nat
      /\ \A f \in wal.frames : f.id <= job[w].id /\ f.id \in Nat
      /\ \E f \in wal.frames : f.id = job[w].id
  <2>1. job[w] \in Job /\ wal.frames \subseteq Frame /\ snap.offset \in Nat
    BY <1>1 DEF TypeOK, WalFile, SnapshotFile
  <2>2. job[w].id \in Nat /\ \A f \in wal.frames : f.id \in Nat
    BY <2>1 DEF Job, Frame
  <2>3. job[w].id >= snap.offset /\ \A f \in wal.frames : f.id <= job[w].id
    BY <1>1, <1>3 DEF FrameInv
  <2>4. FrameOf(job[w], TRUE) \in wal.frames \/ FrameOf(job[w], FALSE) \in wal.frames
    BY <1>1, <1>3 DEF FrameInv, Active
  <2>5. \E f \in wal.frames : f.id = job[w].id
    BY <2>4 DEF FrameOf
  <2> QED
    BY <2>1, <2>2, <2>3, <2>5
<1>6. ASSUME NEW k \in Key, NEW i \in Recoverable[k] PROVE i <= job[w].id /\ i \in Nat
  <2>1. Rebuilt(snap, wal, snap.offset, k, i)
    BY <1>1, RecoverableIs
  <2>2. CASE i \in snap.image[k]
    <3>1. i < snap.offset /\ i \in Nat
      BY <1>1, <2>2 DEF SnapInv, TypeOK, SnapshotFile
    <3> QED
      BY <1>5, <3>1
  <2> QED
    BY <1>5, <2>1, <2>2 DEF Rebuilt
<1>7. \A j \in Durable!All : j <= job[w].id
  BY <1>6 DEF Durable!All
<1>8. \A k \in Key : job[w].id \notin acked[k]
  BY <1>1, <1>3 DEF LiveInv
<1>9. ASSUME NEW k \in Key PROVE Recoverable'[k] = {i \in Recoverable[k] : i < job[w].id}
  BY <1>4, <1>5, <1>6
<1>10. Recoverable' = Durable!Cut(Recoverable, job[w].id)
  BY <1>9 DEF Recoverable, Recovered, Durable!Cut
<1>11. job[w].id \in 0..(MaxMutations + 1)
  <2>1. job[w].id < wal.end /\ wal.end <= nextId /\ wal.end \in Nat /\ nextId \in Nat
    BY <1>1, <1>5 DEF FrameInv, TypeOK, WalFile
  <2> QED
    BY <1>5, <2>1, StartingFinite, BoundsAssumption DEF BoundInv
<1> QED
  BY <1>2, <1>7, <1>8, <1>10, <1>11 DEF Durable!Withdraw

\* A successful reply acknowledges a mutation of the history, on all its keys.
LEMMA CompleteAcknowledges ==
  ASSUME JournalInv, JournalInv', BoundInv, NEW w \in Writer, Complete(w), ~poisoned
  PROVE  Durable!Acknowledge(job[w].id) /\ job[w].id \in 0..(MaxMutations + 1)
<1>1. TypeOK /\ LockInv /\ FrameInv /\ SnapInv
  BY DEF JournalInv
<1>2. /\ pc[w] = "applying" /\ ~job[w].doomed /\ Active(w) /\ Recoverable' = Recoverable
      /\ acked' = [k \in Key |-> IF k \in job[w].keys THEN acked[k] \cup {job[w].id} ELSE acked[k]]
  BY DEF Complete, Active, walVars, snapVars, Recoverable
<1>3. /\ job[w].id >= snap.offset /\ job[w].id \in Nat /\ snap.offset \in Nat
      /\ \E f \in wal.frames : f.id = job[w].id
  <2>1. job[w].id \in Nat /\ snap.offset \in Nat
    BY <1>1 DEF TypeOK, Job, SnapshotFile
  <2>2. job[w].id >= snap.offset /\ FrameOf(job[w], TRUE) \in wal.frames
    BY <1>1, <1>2 DEF FrameInv
  <2>3. FrameOf(job[w], TRUE).id = job[w].id
    BY DEF FrameOf
  <2> QED
    BY <2>1, <2>2, <2>3
<1>4. ASSUME NEW k \in Key PROVE k \in job[w].keys <=> job[w].id \in Recoverable[k]
  <2>1. k \in job[w].keys => job[w].id \in Recoverable[k]
    BY <1>1, <1>2, AppliedIsRecoverable
  <2>2. ASSUME job[w].id \in Recoverable[k] PROVE k \in job[w].keys
    <3>1. Rebuilt(snap, wal, snap.offset, k, job[w].id)
      BY <1>1, <2>2, RecoverableIs
    <3>2. job[w].id \notin snap.image[k]
      BY <1>1, <1>3 DEF SnapInv
    <3>3. PICK f \in wal.frames : f.id = job[w].id /\ k \in f.keys
      BY <3>1, <3>2 DEF Rebuilt
    <3> QED
      BY <1>1, <1>2, <3>3, OwnFrame
  <2> QED
    BY <2>1, <2>2
<1>5. acked' = [k \in Key |-> IF job[w].id \in Recoverable[k] THEN acked[k] \cup {job[w].id} ELSE acked[k]]
  BY <1>2, <1>4
<1>6. job[w].id \in 0..(MaxMutations + 1)
  <2>1. job[w].id < wal.end /\ wal.end <= nextId /\ wal.end \in Nat /\ nextId \in Nat
    BY <1>1, <1>3 DEF FrameInv, TypeOK, WalFile
  <2> QED
    BY <1>3, <2>1, StartingFinite, BoundsAssumption DEF BoundInv
<1> QED
  BY <1>2, <1>5, <1>6 DEF Durable!Acknowledge

\* A power loss cuts the history back, but not past what is owed.
LEMMA PowerLossLoses ==
  ASSUME JournalInv, FilesPowerInv, TypeOK', LockInv', BoundInv, PowerLoss
  PROVE  \E n \in 0..(MaxMutations + 1) : Durable!Lose(n)
<1>1. PICK n \in Nat :
        /\ n <= nextId
        /\ \A k \in Key : Recoverable'[k] = {i \in Recoverable[k] : i < n}
  BY PowerLossPower
<1>2. n \in 0..(MaxMutations + 1)
  <2>1. nextId \in Nat
    BY DEF JournalInv, TypeOK
  <2> QED
    BY <1>1, <2>1, StartingFinite, BoundsAssumption DEF BoundInv
<1>3. Recoverable' = Durable!Cut(Recoverable, n)
  BY <1>1 DEF Recoverable, Recovered, Durable!Cut
<1>4. LiveInv'
  BY PowerLossPower DEF JournalInv
<1>5. acked' = [k \in Key |-> Owed(k)]
  BY DEF PowerLoss
<1>6. ASSUME NEW k \in Key
      PROVE  /\ acked'[k] \subseteq acked[k] \cap Recoverable'[k]
             /\ AlwaysSync => acked'[k] = acked[k]
  BY <1>4, <1>5 DEF LiveInv, Owed
<1>7. Durable!Lose(n)
  BY <1>3, <1>6 DEF Durable!Lose
<1> QED
  BY <1>2, <1>7

\* Every step of the journal is a step of the durable store or leaves it alone.
LEMMA StepRefines ==
  ASSUME JournalInv, PowerInv, BoundInv, SafeNames', [Next]_vars
  PROVE  [Durable!Next]_(Durable!vars)
<1>1. JournalInv' /\ FilesPowerInv
  BY NextPower DEF PowerInv, FilesPowerInv
<1>2. TypeOK /\ TypeOK' /\ LockInv /\ LockInv' /\ FileInv
  BY <1>1 DEF JournalInv, FileInv
<1>3. ASSUME UNCHANGED <<Recoverable, acked>> PROVE [Durable!Next]_(Durable!vars)
  BY <1>3 DEF Durable!vars
<1>4. ASSUME NEW w \in Writer, WriterStep(w) PROVE [Durable!Next]_(Durable!vars)
  <2>1. CASE AppendDone(w)
    BY <1>1, <2>1, AppendCommits DEF Durable!Next
  <2>2. CASE AppendFails(w) \/ Reject(w)
    <3>1. acked' = acked
      BY <2>2 DEF AppendFails, Reject
    <3>2. CASE Recoverable' = Recoverable
      BY <1>3, <3>1, <3>2
    <3>3. CASE Recoverable' # Recoverable
      BY <1>1, <2>2, <3>3, UndoWithdraws DEF Durable!Next
    <3> QED
      BY <3>2, <3>3
  <2>3. CASE Complete(w) /\ ~poisoned
    BY <1>1, <2>3, CompleteAcknowledges DEF Durable!Next
  <2>4. CASE Complete(w) /\ poisoned
    <3>1. acked' = [k \in Key |-> acked[k]] /\ UNCHANGED <<wal, snap>>
      BY <2>4 DEF Complete, walVars, snapVars
    <3>2. acked' = acked
      BY <1>2, <3>1 DEF TypeOK
    <3> QED
      BY <1>3, <3>1, <3>2 DEF Recoverable
  <2>5. CASE (\E k \in Key : LockGate(w, k)) \/ PrepareJournaled(w) \/ (AppendStart(w) /\ poisoned)
    <3>1. acked' = acked
      BY <2>5 DEF LockGate, PrepareJournaled, AppendStart
    <3> QED
      BY <1>2, <1>3, <2>5, <3>1, BeforeAppendFiles
  <2>6. CASE AppendStart(w) /\ ~poisoned
    <3>1. acked' = acked
      BY <2>6 DEF AppendStart
    <3> QED
      BY <1>2, <1>3, <2>6, <3>1, AppendStartFiles
  <2>7. CASE SyncDone(w)
    <3>1. acked' = acked
      BY <2>7 DEF SyncDone
    <3> QED
      BY <1>2, <1>3, <2>7, <3>1, SyncDoneFiles
  <2>8. CASE ApplyFails(w) \/ \E k \in Key : Apply(w, k)
    <3>1. UNCHANGED <<acked, wal, snap>>
      BY <2>8 DEF ApplyFails, Apply, walVars, snapVars
    <3> QED
      BY <1>3, <3>1 DEF Recoverable
  <2> QED
    BY <1>4, <2>1, <2>2, <2>3, <2>4, <2>5, <2>6, <2>7, <2>8 DEF WriterStep
<1>5. CASE SaverStep
  <2>1. ASSUME NEW k \in Key, SaveLockGate(k) PROVE acked' = acked
    BY <2>1 DEF SaveLockGate, LockBarrier
  <2>2. acked' = acked
    BY <1>5, <2>1 DEF SaverStep, Capture, Install, SyncSnapshotDir, CheckBeforeRotate, RotateAfter,
                      SyncJournalDir, PoisonAfterRotate
  <2> QED
    BY <1>2, <1>3, <1>5, <2>2, SaverStepFiles
<1>6. CASE CloserStep
  <2>1. acked' = acked
    BY <1>6 DEF CloserStep, JoinSaver, CloseLockGate, LockBarrier, FinalizeShutdown, Exit
  <2> QED
    BY <1>2, <1>3, <1>6, <2>1, CloserStepFiles
<1>7. CASE FsyncWal
  <2>1. wal'.frames = wal.frames /\ wal'.gen = wal.gen /\ UNCHANGED <<snap, acked>>
    BY <1>2, <1>7 DEF FsyncWal, SyncWal, Synced, walVars, snapVars, TypeOK, WalFile
  <2>2. Recoverable' = Recoverable
    BY <2>1, SameRecovered DEF Recoverable
  <2> QED
    BY <1>3, <2>1, <2>2
<1>8. CASE Recover
  <2>1. acked' = acked
    BY <1>8 DEF Recover
  <2> QED
    BY <1>2, <1>3, <1>8, <2>1, RecoverFiles
<1>9. CASE PowerLoss
  BY <1>1, <1>2, <1>9, PowerLossLoses DEF Durable!Next
<1>10. CASE SaveBegin \/ BeginShutdown \/ ProcessCrash \/ UNCHANGED vars
  <2>1. UNCHANGED <<acked, wal, snap>>
    BY <1>10 DEF SaveBegin, BeginShutdown, ProcessCrash, vars, walVars, snapVars
  <2> QED
    BY <1>3, <2>1 DEF Recoverable
<1>11. ASSUME NEW w \in Writer, NEW keys \in KeySets, NEW checked \in BOOLEAN,
              NEW doomed \in BOOLEAN, Begin(w, keys, checked, doomed)
       PROVE  [Durable!Next]_(Durable!vars)
  <2>1. UNCHANGED <<acked, wal, snap>>
    BY <1>11 DEF Begin, walVars, snapVars
  <2> QED
    BY <1>3, <2>1 DEF Recoverable
<1> QED
  BY <1>4, <1>5, <1>6, <1>7, <1>8, <1>9, <1>10, <1>11 DEF Next

\* A fresh store is an empty durable store.
LEMMA InitRefines == Init => Durable!Init
<1> SUFFICES ASSUME Init PROVE Durable!Init
  OBVIOUS
<1>1. TypeOK /\ FrameInv /\ SnapInv
  BY InitInv DEF JournalInv
<1>2. wal.frames = {} /\ snap = NoSnapshot /\ acked = EmptyImage
  BY DEF Init
<1>3. \A k \in Key : Recoverable[k] = {}
  <2>1. ASSUME NEW k \in Key, NEW i \in Recoverable[k] PROVE FALSE
    <3>1. Rebuilt(snap, wal, snap.offset, k, i)
      BY <1>1, RecoverableIs
    <3> QED
      BY <1>2, <3>1 DEF Rebuilt, NoSnapshot, EmptyImage
  <2> QED
    BY <2>1
<1>4. Recoverable = [k \in Key |-> {}]
  BY <1>3 DEF Recoverable, Recovered
<1> QED
  BY <1>2, <1>4 DEF Durable!Init, EmptyImage

\* As long as names are safe the journal implements the durable store: a frame
\* commits when it is complete, a rollback withdraws it, a reply acknowledges
\* it, a power loss cuts the history not past what is owed, and all the rest,
\* captures, installs, rotations, crashes and recoveries, changes nothing.
THEOREM Refinement == Spec /\ []SafeNames => ImplementsDurableStore
<1>1. TypeOK /\ TypeOK' /\ BoundInv /\ [Next]_vars => BoundInv'
  BY NextBound
<1>2. Consistent /\ SafeNames /\ SafeNames' /\ BoundInv /\ [Next]_vars => [Durable!Next]_(Durable!vars)
  BY StepRefines DEF Consistent
<1> QED
  BY <1>1, <1>2, InitBound, InitRefines, InvariantHolds, TypeCorrect, PTL
     DEF Spec, ImplementsDurableStore, Durable!Spec
=============================================================================
