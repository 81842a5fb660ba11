--------------------------- MODULE InboundProofs ---------------------------
(***************************************************************************)
(* What TLC shows of Inbound on small instances, for every value of the    *)
(* constants: no message is skipped, a shutdown in time leaves none        *)
(* behind, while Redis guards the claims the pipelines of all nodes        *)
(* together implement InboundPromise and no message stands in two places,  *)
(* and the messages of a peer stay in the order they were sent in.         *)
(***************************************************************************)
EXTENDS Inbound, FiniteSetTheorems, WellFoundedInduction, TLAPS

-----------------------------------------------------------------------------
(* Poll loops and their batches                                            *)

\* Every message up to number j is in S.
Below(j, S) == \A m \in Msg : m <= j => m \in S

\* What a poll loop has behind it was claimed (S); a batch is a row of messages
\* that follow on one another, and the cursor it came with does not reach
\* beyond it.
Lined(batch) == \A i \in 1..Len(batch) : batch[i] = batch[1] + i - 1
LoopSound(l, S) ==
    /\ Below(l.pos, S)
    /\ l.pc \in {"claim", "route"} =>
         /\ l.batch # <<>> /\ Lined(l.batch)
         /\ Below(l.batch[1] - 1, S)
         /\ l.buf < l.batch[1] + Len(l.batch)
    /\ l.pc = "route" => l.batch[1] \in S
    /\ l.pc = "save" => Below(l.buf, S)

ClaimInv ==
    /\ cursor \in 0..MaxMsg /\ Below(cursor, claimed)
    /\ claimed \subseteq Msg /\ seen \subseteq claimed
    /\ local \in [Node -> SUBSET claimed]
    /\ loop \in [Node -> [Slot -> Loop]]
    /\ \A n \in Node, k \in Slot : LoopSound(loop[n][k], claimed)

LEMMA SoundStays ==
    ASSUME NEW l, NEW S, NEW T, S \subseteq T, LoopSound(l, S) PROVE LoopSound(l, T)
BY Zenon DEF LoopSound, Below

LEMMA NoLoopSound == NoLoop \in Loop /\ \A S : LoopSound(NoLoop, S)
<1>1. NoLoop \in Loop
  BY InboundConstants DEF NoLoop, Loop, LoopPc
<1>2. ASSUME NEW S PROVE LoopSound(NoLoop, S)
  <2>1. NoLoop.pos = 0 /\ NoLoop.pc = "off"
    BY DEF NoLoop
  <2>2. Below(0, S)
    BY InboundConstants DEF Below, Msg
  <2> QED
    BY <2>1, <2>2 DEF LoopSound
<1> QED
  BY <1>1, <1>2

\* One loop moves on, perhaps with a message claimed.
LEMMA LoopMoves ==
    ASSUME ClaimInv, NEW n \in Node, NEW k \in Slot, NEW state \in Loop,
           loop' = [loop EXCEPT ![n][k] = state], LoopSound(state, claimed'),
           claimed \subseteq claimed', claimed' \subseteq Msg, seen' \subseteq claimed',
           local' \in [Node -> SUBSET claimed'],
           cursor' \in 0..MaxMsg, Below(cursor', claimed')
    PROVE  ClaimInv'
<1>1. loop' \in [Node -> [Slot -> Loop]]
  BY DEF ClaimInv
<1>2. ASSUME NEW o \in Node, NEW j \in Slot PROVE LoopSound(loop'[o][j], claimed')
  <2>1. loop'[o][j] = IF o = n /\ j = k THEN state ELSE loop[o][j]
    BY DEF ClaimInv
  <2>2. LoopSound(loop[o][j], claimed)
    BY DEF ClaimInv
  <2>3. LoopSound(loop[o][j], claimed')
    BY <2>2, SoundStays
  <2> QED
    BY <2>1, <2>3
<1> QED
  BY <1>1, <1>2 DEF ClaimInv, Below

\* The same where no message is claimed.
LEMMA LoopMovesOnly ==
    ASSUME ClaimInv, NEW n \in Node, NEW k \in Slot, NEW state \in Loop,
           loop' = [loop EXCEPT ![n][k] = state], LoopSound(state, claimed),
           UNCHANGED <<claimed, seen, local, cursor>>
    PROVE  ClaimInv'
<1>1. /\ claimed \subseteq claimed' /\ claimed' \subseteq Msg /\ seen' \subseteq claimed'
      /\ local' \in [Node -> SUBSET claimed']
      /\ cursor' \in 0..MaxMsg /\ Below(cursor', claimed')
  BY DEF ClaimInv, Below
<1>2. LoopSound(state, claimed')
  OBVIOUS
<1> QED
  BY <1>1, <1>2, LoopMoves

\* Loops that no message or cursor moves.
LEMMA LoopsStay ==
    ASSUME ClaimInv, UNCHANGED <<loop, claimed, seen, local, cursor>> PROVE ClaimInv'
BY DEF ClaimInv, Below, LoopSound

LEMMA LoopFacts ==
    ASSUME ClaimInv, NEW n \in Node, NEW k \in Slot
    PROVE  /\ loop[n][k] \in Loop /\ LoopSound(loop[n][k], claimed)
           /\ loop[n][k].pos \in 0..MaxMsg /\ loop[n][k].buf \in 0..MaxMsg
           /\ loop[n][k].batch \in Seq(Msg)
           /\ loop[n][k].pc \in {"claim", "route"} =>
                loop[n][k].batch # <<>> /\ Head(loop[n][k].batch) = loop[n][k].batch[1]
                /\ Head(loop[n][k].batch) \in Msg
<1>1. loop[n][k] \in Loop /\ LoopSound(loop[n][k], claimed)
  BY DEF ClaimInv
<1>2. /\ loop[n][k].pos \in 0..MaxMsg /\ loop[n][k].buf \in 0..MaxMsg
      /\ loop[n][k].batch \in Seq(Msg)
  BY <1>1 DEF Loop
<1>3. ASSUME loop[n][k].pc \in {"claim", "route"}
      PROVE  loop[n][k].batch # <<>> /\ Head(loop[n][k].batch) = loop[n][k].batch[1]
             /\ Head(loop[n][k].batch) \in Msg
  BY <1>1, <1>2, <1>3 DEF LoopSound
<1> QED
  BY <1>1, <1>2, <1>3

\* The first message of a batch is claimed and passed on, or known.
LEMMA NextIsSound ==
    ASSUME ClaimInv, NEW n \in Node, NEW k \in Slot, loop[n][k].pc \in {"claim", "route"},
           Head(loop[n][k].batch) \in claimed
    PROVE  NextMessage(loop[n][k]) \in Loop /\ LoopSound(NextMessage(loop[n][k]), claimed)
<1>1. PICK l : l = loop[n][k]
  OBVIOUS
<1>2. PICK rest : rest = Tail(l.batch)
  OBVIOUS
<1>3. PICK pc : pc = IF Len(l.batch) = 1 THEN "save" ELSE "claim"
  OBVIOUS
<1> DEFINE r == [l EXCEPT !.batch = rest, !.pc = pc]
<1>4. NextMessage(loop[n][k]) = r
  BY <1>1, <1>2, <1>3 DEF NextMessage
<1>5. /\ l \in Loop /\ l.batch \in Seq(Msg) /\ l.batch # <<>> /\ Lined(l.batch)
      /\ Below(l.pos, claimed) /\ Below(l.batch[1] - 1, claimed) /\ l.batch[1] \in claimed
      /\ l.buf < l.batch[1] + Len(l.batch) /\ l.buf \in 0..MaxMsg /\ l.batch[1] \in Msg
  BY <1>1, LoopFacts DEF LoopSound
<1>6. rest \in Seq(Msg) /\ Len(rest) = Len(l.batch) - 1 /\ Len(l.batch) \in Nat \ {0}
      /\ \A i \in 1..Len(rest) : rest[i] = l.batch[i + 1]
  BY <1>2, <1>5
<1>7. pc \in LoopPc /\ pc \notin {"off", "route"} /\ (pc = "claim" <=> Len(l.batch) # 1)
      /\ (pc = "save" <=> Len(l.batch) = 1)
  BY <1>3 DEF LoopPc
<1>8. r \in Loop /\ r.pc = pc /\ r.batch = rest /\ r.pos = l.pos /\ r.buf = l.buf
  BY <1>5, <1>6, <1>7 DEF Loop
<1> HIDE DEF r
<1>9. Below(l.batch[1], claimed)
  BY <1>5, InboundConstants DEF Below, Msg
<1>10. ASSUME Len(l.batch) # 1
       PROVE  /\ rest # <<>> /\ Lined(rest) /\ rest[1] = l.batch[1] + 1
              /\ l.buf < rest[1] + Len(rest)
  <2>1. Len(rest) \in Nat \ {0}
    BY <1>6, <1>10
  <2>2. l.batch[1] \in Nat /\ \A i \in 1..Len(rest) : rest[i] = l.batch[1] + i
    <3>1. l.batch[1] \in Nat
      BY <1>5 DEF Msg
    <3>2. ASSUME NEW i \in 1..Len(rest) PROVE rest[i] = l.batch[1] + i
      <4>1. i + 1 \in 1..Len(l.batch)
        BY <1>6
      <4>2. l.batch[i + 1] = l.batch[1] + (i + 1) - 1
        BY <1>5, <4>1 DEF Lined
      <4> QED
        BY <1>6, <3>1, <4>2
    <3> QED
      BY <3>1, <3>2
  <2>3. rest[1] = l.batch[1] + 1
    BY <2>1, <2>2
  <2>4. Lined(rest)
    BY <2>1, <2>2, <2>3 DEF Lined
  <2>5. l.buf < rest[1] + Len(rest)
    BY <1>5, <1>6, <2>1, <2>2, <2>3
  <2>6. rest # <<>>
    BY <2>1
  <2> QED
    BY <2>3, <2>4, <2>5, <2>6
<1>11. ASSUME Len(l.batch) = 1 PROVE Below(l.buf, claimed)
  <2>1. l.batch[1] \in Nat /\ l.buf \in Nat /\ l.buf <= l.batch[1]
    BY <1>5, <1>11 DEF Msg
  <2> QED
    BY <1>9, <2>1 DEF Below, Msg
<1>12. Below(rest[1] - 1, claimed) \/ Len(l.batch) = 1
  <2>1. l.batch[1] \in Nat
    BY <1>5 DEF Msg
  <2>2. Len(l.batch) # 1 => rest[1] - 1 = l.batch[1]
    BY <1>10, <2>1
  <2> QED
    BY <1>9, <2>2
<1>13. LoopSound(r, claimed)
  BY <1>5, <1>7, <1>8, <1>10, <1>11, <1>12 DEF LoopSound
<1> QED
  BY <1>4, <1>8, <1>13

LEMMA StartLoopClaims ==
    ASSUME ClaimInv, NEW n \in Node, NEW k \in Slot, StartLoop(n, k) PROVE ClaimInv'
<1>1. PICK r : r = [NoLoop EXCEPT !.pc = "boot", !.live = TRUE]
  OBVIOUS
<1>2. loop' = [loop EXCEPT ![n][k] = r] /\ UNCHANGED <<claimed, seen, local, cursor>>
  BY <1>1 DEF StartLoop, Goto, store
<1>3. r \in Loop /\ r.pos = 0 /\ r.pc = "boot"
  BY <1>1, NoLoopSound DEF NoLoop, Loop, LoopPc
<1>4. LoopSound(r, claimed)
  BY <1>3, InboundConstants DEF LoopSound, Below, Msg
<1> QED
  BY <1>2, <1>3, <1>4, LoopMovesOnly

LEMMA BootLoopClaims ==
    ASSUME ClaimInv, NEW n \in Node, NEW k \in Slot, BootLoop(n, k) PROVE ClaimInv'
<1>1. PICK l : l = loop[n][k]
  OBVIOUS
<1>2. PICK r : r = [l EXCEPT !.pc = "poll", !.pos = cursor]
  OBVIOUS
<1>3. UNCHANGED <<claimed, seen, local, cursor>>
  BY DEF BootLoop, store, past
<1>4. r \in Loop /\ r.pos = cursor /\ r.pc = "poll"
  <2>1. l \in Loop /\ cursor \in 0..MaxMsg
    BY <1>1, LoopFacts DEF ClaimInv
  <2> QED
    BY <1>2, <2>1 DEF Loop, LoopPc
<1>5. LoopSound(r, claimed)
  BY <1>4 DEF LoopSound, ClaimInv
<1>6. CASE loop' = [loop EXCEPT ![n][k] = r]
  BY <1>3, <1>4, <1>5, <1>6, LoopMovesOnly
<1>7. CASE loop' = [loop EXCEPT ![n][k] = NoLoop]
  BY <1>3, <1>7, NoLoopSound, LoopMovesOnly
<1> QED
  BY <1>1, <1>2, <1>6, <1>7 DEF BootLoop, Goto

LEMMA LoopEndsClaims ==
    ASSUME ClaimInv, NEW n \in Node, NEW k \in Slot, EndLoop(n, k) \/ QuitLoop(n, k)
    PROVE  ClaimInv'
<1>1. loop' = [loop EXCEPT ![n][k] = NoLoop] /\ UNCHANGED <<claimed, seen, local, cursor>>
  BY DEF EndLoop, QuitLoop, Goto, store, past
<1> QED
  BY <1>1, NoLoopSound, LoopMovesOnly

LEMMA GetUpdatesClaims ==
    ASSUME ClaimInv, NEW n \in Node, NEW k \in Slot, NEW j \in Msg, NEW fresh \in BOOLEAN,
           GetUpdates(n, k, j, fresh)
    PROVE  ClaimInv'
<1>1. PICK l : l = loop[n][k]
  OBVIOUS
<1>2. PICK pos : pos = l.pos
  OBVIOUS
<1>3. PICK batch : batch = [i \in 1..(j - pos) |-> pos + i]
  OBVIOUS
<1>4. PICK buf : buf = IF fresh THEN j ELSE pos
  OBVIOUS
<1> DEFINE r == [l EXCEPT !.pc = "claim", !.batch = batch, !.buf = buf]
<1>5. /\ l.pc = "poll" /\ j \in (pos + 1)..MaxMsg
      /\ loop' = [loop EXCEPT ![n][k] = r] /\ UNCHANGED <<claimed, seen, local, cursor>>
  BY <1>1, <1>2, <1>3, <1>4 DEF GetUpdates, Goto, store, past
<1>6. l \in Loop /\ pos \in 0..MaxMsg /\ Below(pos, claimed) /\ MaxMsg \in Nat /\ j \in Nat
  BY <1>1, <1>2, LoopFacts, InboundConstants DEF LoopSound, Msg
<1>7. /\ batch \in Seq(Msg) /\ Len(batch) = j - pos /\ batch # <<>>
      /\ \A i \in 1..Len(batch) : batch[i] = pos + i
  <2>1. j - pos \in Nat \ {0}
    BY <1>5, <1>6
  <2>2. batch \in [1..(j - pos) -> Msg]
    BY <1>3, <1>5, <1>6 DEF Msg
  <2>3. batch \in Seq(Msg) /\ Len(batch) = j - pos
    BY <1>3, <2>1, <2>2
  <2> QED
    BY <1>3, <2>1, <2>3
<1>8. Lined(batch) /\ batch[1] = pos + 1
  <2>1. Len(batch) \in Nat \ {0} /\ pos \in Nat
    BY <1>5, <1>6, <1>7
  <2>2. batch[1] = pos + 1
    BY <1>7, <2>1
  <2>3. ASSUME NEW i \in 1..Len(batch) PROVE batch[i] = batch[1] + i - 1
    <3>1. batch[i] = pos + i
      BY <1>7, <2>3
    <3> QED
      BY <2>1, <2>2, <3>1
  <2> QED
    BY <2>2, <2>3 DEF Lined
<1>9. buf \in 0..MaxMsg /\ buf < batch[1] + Len(batch)
  BY <1>4, <1>5, <1>6, <1>7, <1>8
<1>10. r \in Loop /\ r.pc = "claim" /\ r.pos = pos /\ r.batch = batch /\ r.buf = buf
  BY <1>2, <1>6, <1>7, <1>9 DEF Loop, LoopPc
<1> HIDE DEF r
<1>11. batch[1] - 1 = pos
  BY <1>6, <1>8
<1>12. LoopSound(r, claimed)
  BY <1>6, <1>7, <1>8, <1>9, <1>10, <1>11 DEF LoopSound
<1> QED
  BY <1>5, <1>10, <1>12, LoopMovesOnly

LEMMA ClaimClaims ==
    ASSUME ClaimInv, NEW n \in Node, NEW k \in Slot, Claim(n, k) PROVE ClaimInv'
<1>1. PICK l : l = loop[n][k]
  OBVIOUS
<1>2. PICK m : m = Head(l.batch)
  OBVIOUS
<1>3. /\ l.pc = "claim" /\ UNCHANGED cursor
      /\ local' = [local EXCEPT ![n] = @ \cup {m}]
  BY <1>1, <1>2 DEF Claim
<1>4. l \in Loop /\ LoopSound(l, claimed) /\ m = l.batch[1] /\ m \in Msg
  BY <1>1, <1>2, <1>3, LoopFacts
<1>5. CASE /\ Known(n, m) /\ loop' = [loop EXCEPT ![n][k] = NextMessage(l)]
           /\ UNCHANGED <<seen, claimed>>
  <2>1. m \in claimed
    BY <1>5 DEF Known, ClaimInv
  <2>2. NextMessage(l) \in Loop /\ LoopSound(NextMessage(l), claimed)
    BY <1>1, <1>2, <1>3, <2>1, NextIsSound
  <2>3. local' \in [Node -> SUBSET claimed']
    BY <1>3, <1>5, <2>1 DEF ClaimInv
  <2>4. LoopSound(NextMessage(l), claimed')
    BY <1>5, <2>2
  <2>5. /\ claimed \subseteq claimed' /\ claimed' \subseteq Msg /\ seen' \subseteq claimed'
        /\ cursor' \in 0..MaxMsg /\ Below(cursor', claimed')
    BY <1>3, <1>5 DEF ClaimInv, Below
  <2> QED
    BY <1>5, <2>2, <2>3, <2>4, <2>5, LoopMoves
<1>6. CASE /\ loop' = [loop EXCEPT ![n][k] = [l EXCEPT !.pc = "route"]]
           /\ claimed' = claimed \cup {m} /\ seen' \subseteq seen \cup {m}
  <2>1. PICK r : r = [l EXCEPT !.pc = "route"]
    OBVIOUS
  <2>2. /\ r \in Loop /\ r.pc = "route" /\ r.batch = l.batch /\ r.pos = l.pos /\ r.buf = l.buf
    BY <1>4, <2>1 DEF Loop, LoopPc
  <2>3. LoopSound(l, claimed')
    BY <1>4, <1>6, SoundStays
  <2>4. LoopSound(r, claimed')
    BY <1>3, <1>4, <1>6, <2>2, <2>3 DEF LoopSound
  <2>5. /\ claimed \subseteq claimed' /\ claimed' \subseteq Msg /\ seen' \subseteq claimed'
        /\ local' \in [Node -> SUBSET claimed']
        /\ cursor' \in 0..MaxMsg /\ Below(cursor', claimed')
    BY <1>3, <1>4, <1>6 DEF ClaimInv, Below
  <2> QED
    BY <1>6, <2>1, <2>2, <2>4, <2>5, LoopMoves
<1>7. \/ /\ Known(n, m) /\ loop' = [loop EXCEPT ![n][k] = NextMessage(l)]
         /\ UNCHANGED <<seen, claimed>>
      \/ /\ loop' = [loop EXCEPT ![n][k] = [l EXCEPT !.pc = "route"]]
         /\ claimed' = claimed \cup {m} /\ seen' \subseteq seen \cup {m}
  BY <1>1, <1>2 DEF Claim, Goto
<1> QED
  BY <1>5, <1>6, <1>7

LEMMA RouteClaims ==
    ASSUME ClaimInv, NEW n \in Node, NEW k \in Slot, RouteDirect(n, k) \/ RouteBatch(n, k)
    PROVE  ClaimInv'
<1>1. /\ loop[n][k].pc = "route" /\ loop' = [loop EXCEPT ![n][k] = NextMessage(loop[n][k])]
      /\ UNCHANGED <<claimed, seen, local, cursor>>
  BY DEF RouteDirect, RouteBatch, Goto, store
<1>2. Head(loop[n][k].batch) \in claimed
  BY <1>1, LoopFacts DEF LoopSound
<1>3. NextMessage(loop[n][k]) \in Loop /\ LoopSound(NextMessage(loop[n][k]), claimed)
  BY <1>1, <1>2, NextIsSound
<1> QED
  BY <1>1, <1>3, LoopMovesOnly

LEMMA SaveCursorClaims ==
    ASSUME ClaimInv, NEW n \in Node, NEW k \in Slot, SaveCursor(n, k) PROVE ClaimInv'
<1>1. PICK l : l = loop[n][k]
  OBVIOUS
<1>2. PICK r : r = [l EXCEPT !.pc = "poll", !.pos = l.buf]
  OBVIOUS
<1>3. /\ l.pc = "save" /\ loop' = [loop EXCEPT ![n][k] = r]
      /\ UNCHANGED <<claimed, seen, local>> /\ cursor' \in {cursor, l.buf}
  BY <1>1, <1>2 DEF SaveCursor, Goto, past
<1>4. l \in Loop /\ l.buf \in 0..MaxMsg /\ Below(l.buf, claimed)
  BY <1>1, <1>3, LoopFacts DEF LoopSound
<1>5. r \in Loop /\ r.pc = "poll" /\ r.pos = l.buf
  BY <1>2, <1>4 DEF Loop, LoopPc
<1>6. LoopSound(r, claimed')
  BY <1>3, <1>4, <1>5 DEF LoopSound, Below
<1>7. /\ claimed \subseteq claimed' /\ claimed' \subseteq Msg /\ seen' \subseteq claimed'
      /\ local' \in [Node -> SUBSET claimed']
      /\ cursor' \in 0..MaxMsg /\ Below(cursor', claimed')
  BY <1>3, <1>4 DEF ClaimInv, Below
<1> QED
  BY <1>3, <1>5, <1>6, <1>7, LoopMoves

\* The loops of a process are told to stop.
LEMMA LoopsToldClaims ==
    ASSUME ClaimInv, NEW n \in Node, DropLoop(n) \/ Stop(n) PROVE ClaimInv'
<1>1. /\ loop' = [loop EXCEPT ![n] = [k \in Slot |-> [loop[n][k] EXCEPT !.live = FALSE]]]
      /\ UNCHANGED <<claimed, seen, local, cursor>>
  BY DEF DropLoop, Stop, store, past
<1>2. ASSUME NEW k \in Slot
      PROVE  /\ [loop[n][k] EXCEPT !.live = FALSE] \in Loop
             /\ LoopSound([loop[n][k] EXCEPT !.live = FALSE], claimed)
  <2>1. PICK l : l = loop[n][k]
    OBVIOUS
  <2>2. PICK r : r = [l EXCEPT !.live = FALSE]
    OBVIOUS
  <2>3. l \in Loop /\ LoopSound(l, claimed)
    BY <2>1, LoopFacts
  <2>4. r \in Loop /\ r.pc = l.pc /\ r.pos = l.pos /\ r.buf = l.buf /\ r.batch = l.batch
    BY <2>2, <2>3 DEF Loop
  <2>5. LoopSound(r, claimed)
    BY <2>3, <2>4 DEF LoopSound
  <2> QED
    BY <2>1, <2>2, <2>4, <2>5
<1>3. loop' \in [Node -> [Slot -> Loop]]
  BY <1>1, <1>2 DEF ClaimInv
<1>4. ASSUME NEW o \in Node, NEW k \in Slot PROVE LoopSound(loop'[o][k], claimed)
  <2>1. loop'[o][k] = IF o = n THEN [loop[n][k] EXCEPT !.live = FALSE] ELSE loop[o][k]
    BY <1>1 DEF ClaimInv
  <2> QED
    BY <1>2, <2>1, LoopFacts
<1> QED
  BY <1>1, <1>3, <1>4 DEF ClaimInv, Below

LEMMA GoneClaims == ASSUME ClaimInv, NEW n \in Node, NEW why, Gone(n, why) PROVE ClaimInv'
<1>1. /\ loop' = [loop EXCEPT ![n] = [k \in Slot |-> NoLoop]]
      /\ local' = [local EXCEPT ![n] = {}] /\ UNCHANGED <<claimed, seen, cursor>>
  BY DEF Gone, store
<1>2. loop' \in [Node -> [Slot -> Loop]] /\ local' \in [Node -> SUBSET claimed]
  BY <1>1, NoLoopSound DEF ClaimInv
<1>3. ASSUME NEW o \in Node, NEW k \in Slot PROVE LoopSound(loop'[o][k], claimed)
  <2>1. loop'[o][k] = IF o = n THEN NoLoop ELSE loop[o][k]
    BY <1>1 DEF ClaimInv
  <2> QED
    BY <2>1, LoopFacts, NoLoopSound
<1> QED
  BY <1>1, <1>2, <1>3 DEF ClaimInv, Below

LEMMA ExpireClaims == ASSUME ClaimInv, NEW m \in Msg, ExpireSeen(m) PROVE ClaimInv'
<1>1. /\ seen' \subseteq seen /\ local' = [n \in Node |-> local[n] \ {m}]
      /\ UNCHANGED <<loop, claimed, cursor>>
  BY DEF ExpireSeen
<1>2. local' \in [Node -> SUBSET claimed] /\ seen' \subseteq claimed
  BY <1>1 DEF ClaimInv
<1> QED
  BY <1>1, <1>2 DEF ClaimInv, Below, LoopSound

LEMMA RestClaims ==
    ASSUME ClaimInv, NEW n \in Node,
           \/ Boot(n) \/ DrainNext(n) \/ DrainDone(n) \/ FinishStopping(n)
           \/ \E p \in Peer : Reply(n, p)
    PROVE  ClaimInv'
<1>1. UNCHANGED <<loop, claimed, seen, local, cursor>>
  BY DEF Boot, DrainNext, DrainDone, FinishStopping, Reply, CloseBatch, BeginJob, EndJob, store,
         past
<1> QED
  BY <1>1, LoopsStay

LEMMA ClaimKeeps == ASSUME ClaimInv, [Next]_vars PROVE ClaimInv'
<1>1. CASE UNCHANGED vars
  BY <1>1, LoopsStay DEF vars, store, past
<1>2. ASSUME NEW n \in Node, Live(n) PROVE ClaimInv'
  BY <1>2, LoopsToldClaims, GoneClaims, RestClaims DEF Live, Exit, Crash
<1>3. ASSUME NEW n \in Node, NEW k \in Slot, Poll(n, k) PROVE ClaimInv'
  BY <1>3, StartLoopClaims, BootLoopClaims, LoopEndsClaims, GetUpdatesClaims, ClaimClaims,
     RouteClaims, SaveCursorClaims DEF Poll
<1>4. ASSUME NEW n \in Node, NEW p \in Peer, Reply(n, p) PROVE ClaimInv'
  BY <1>4, RestClaims
<1>5. ASSUME NEW m \in Msg, ExpireSeen(m) PROVE ClaimInv'
  BY <1>5, ExpireClaims
<1> QED
  BY <1>1, <1>2, <1>3, <1>4, <1>5 DEF Next

LEMMA ClaimInitHolds == ASSUME Init PROVE ClaimInv
<1>1. /\ cursor = 0 /\ seen = {} /\ claimed = {}
      /\ loop = [n \in Node |-> [k \in Slot |-> NoLoop]] /\ local = [n \in Node |-> {}]
  BY DEF Init
<1>2. cursor \in 0..MaxMsg /\ Below(cursor, claimed)
  BY <1>1, InboundConstants DEF Below, Msg
<1> QED
  BY <1>1, <1>2, NoLoopSound DEF ClaimInv

LEMMA ClaimInvariant == Spec => []ClaimInv
<1>1. Init => ClaimInv
  BY ClaimInitHolds
<1>2. ClaimInv /\ [Next]_vars => ClaimInv'
  BY ClaimKeeps
<1> QED
  BY <1>1, <1>2, PTL DEF Spec

\* No cursor, in Redis or in a poll loop of whatever process, stands behind a
\* message nobody has claimed: each loop leaves behind only what it claimed or
\* found claimed, and a cursor is saved once its whole batch was accepted.
THEOREM NothingSkipped == Spec => []NoSkip
<1>1. ClaimInv => NoSkip
  <2> SUFFICES ASSUME ClaimInv, NEW m \in Msg \ claimed
               PROVE  /\ cursor < m
                      /\ \A n \in Node, k \in Slot :
                           /\ loop[n][k].pos < m
                           /\ loop[n][k].pc = "save" => loop[n][k].buf < m
    BY DEF NoSkip
  <2>1. ASSUME NEW j \in 0..MaxMsg, Below(j, claimed) PROVE j < m
    BY <2>1, InboundConstants DEF Below, Msg
  <2>2. cursor < m
    BY <2>1 DEF ClaimInv
  <2>3. ASSUME NEW n \in Node, NEW k \in Slot
        PROVE  loop[n][k].pos < m /\ (loop[n][k].pc = "save" => loop[n][k].buf < m)
    BY <2>1, LoopFacts DEF LoopSound
  <2> QED
    BY <2>2, <2>3
<1> QED
  BY <1>1, ClaimInvariant, PTL

-----------------------------------------------------------------------------
(* Pipes                                                                   *)

\* A job is about messages of one peer.
WellMade(job) ==
    /\ job \in Job /\ job.msgs # <<>>
    /\ \A m \in ToSet(job.msgs) : PeerOf[m] = JobPeer(job)

\* What a pipe holds of a peer in its batch and on its chain.
Mine(q, p) == ToSet(q.open[p]) \cup JobMsgs(q.chain[p])

Sound(q) ==
    /\ q \in Pipe
    /\ \A p \in q.busy : q.chain[p] # <<>>
    /\ \A p \in Peer : \A m \in Mine(q, p) : PeerOf[m] = p
    /\ \A i \in DOMAIN q.inbox : WellMade(q.inbox[i])

\* S consists of T and U.
Joined(S, T, U) == S = T \cup U

LEMMA SetIs == ASSUME NEW S, NEW s \in Seq(S) PROVE ToSet(s) \subseteq S /\ (s = <<>> => ToSet(s) = {})
BY DEF ToSet

LEMMA JobMsgsIs ==
    ASSUME NEW jobs, NEW m
    PROVE  m \in JobMsgs(jobs) <=> \E i \in DOMAIN jobs : m \in ToSet(jobs[i].msgs)
BY DEF JobMsgs

LEMMA HeldIs ==
    ASSUME NEW q, NEW m
    PROVE  m \in Held(q) <=> (\E p \in Peer : m \in Mine(q, p)) \/ m \in JobMsgs(q.inbox)
BY DEF Held, Mine

LEMMA AppendJob ==
    ASSUME NEW jobs \in Seq(Job), NEW job \in Job
    PROVE  JobMsgs(Append(jobs, job)) = JobMsgs(jobs) \cup ToSet(job.msgs)
<1> DEFINE new == Append(jobs, job)
<1>1. /\ Len(jobs) \in Nat /\ DOMAIN jobs = 1..Len(jobs) /\ DOMAIN new = 1..(Len(jobs) + 1)
      /\ new[Len(jobs) + 1] = job /\ \A i \in 1..Len(jobs) : new[i] = jobs[i]
  OBVIOUS
<1> HIDE DEF new
<1>2. ASSUME NEW m PROVE m \in JobMsgs(new) <=> m \in JobMsgs(jobs) \cup ToSet(job.msgs)
  <2>1. ASSUME m \in JobMsgs(new) PROVE m \in JobMsgs(jobs) \cup ToSet(job.msgs)
    <3>1. PICK i \in 1..(Len(jobs) + 1) : m \in ToSet(new[i].msgs)
      BY <1>1, <2>1, JobMsgsIs
    <3>2. i \in 1..Len(jobs) \/ i = Len(jobs) + 1
      BY <1>1
    <3> QED
      BY <1>1, <3>1, <3>2, JobMsgsIs
  <2>2. ASSUME m \in JobMsgs(jobs) PROVE m \in JobMsgs(new)
    <3>1. PICK i \in 1..Len(jobs) : m \in ToSet(jobs[i].msgs)
      BY <1>1, <2>2, JobMsgsIs
    <3>2. i \in DOMAIN new /\ m \in ToSet(new[i].msgs)
      BY <1>1, <3>1
    <3> QED
      BY <3>2, JobMsgsIs
  <2>3. ASSUME m \in ToSet(job.msgs) PROVE m \in JobMsgs(new)
    <3>1. Len(jobs) + 1 \in DOMAIN new /\ m \in ToSet(new[Len(jobs) + 1].msgs)
      BY <1>1, <2>3
    <3> QED
      BY <3>1, JobMsgsIs
  <2> QED
    BY <2>1, <2>2, <2>3
<1> QED
  BY <1>2 DEF new

LEMMA TailJobs ==
    ASSUME NEW jobs \in Seq(Job), jobs # <<>>
    PROVE  /\ JobMsgs(jobs) = JobMsgs(Tail(jobs)) \cup ToSet(Head(jobs).msgs)
           /\ Head(jobs) \in Job /\ Tail(jobs) \in Seq(Job)
<1>1. PICK rest : rest = Tail(jobs)
  OBVIOUS
<1>2. PICK first : first = Head(jobs)
  OBVIOUS
<1>3. /\ rest \in Seq(Job) /\ Len(jobs) \in Nat \ {0} /\ Len(rest) = Len(jobs) - 1
      /\ DOMAIN jobs = 1..Len(jobs) /\ DOMAIN rest = 1..Len(rest)
      /\ first = jobs[1] /\ first \in Job /\ \A i \in 1..Len(rest) : rest[i] = jobs[i + 1]
  BY <1>1, <1>2
<1>4. \A i \in 1..Len(jobs) : i = 1 \/ (i - 1 \in 1..Len(rest) /\ jobs[i] = rest[i - 1])
  <2> TAKE i \in 1..Len(jobs)
  <2>1. i # 1 => i - 1 \in 1..Len(rest) /\ (i - 1) + 1 = i
    BY <1>3
  <2> QED
    BY <1>3, <2>1
<1>5. \A i \in 1..Len(rest) : i + 1 \in 1..Len(jobs) /\ i + 1 # 1
  BY <1>3
<1>6. ASSUME NEW m PROVE m \in JobMsgs(jobs) <=> m \in JobMsgs(rest) \cup ToSet(first.msgs)
  <2>1. ASSUME m \in JobMsgs(jobs) PROVE m \in JobMsgs(rest) \cup ToSet(first.msgs)
    <3>1. PICK i \in 1..Len(jobs) : m \in ToSet(jobs[i].msgs)
      BY <1>3, <2>1, JobMsgsIs
    <3> QED
      BY <1>3, <1>4, <3>1, JobMsgsIs
  <2>2. ASSUME m \in JobMsgs(rest) PROVE m \in JobMsgs(jobs)
    <3>1. PICK i \in 1..Len(rest) : m \in ToSet(rest[i].msgs)
      BY <1>3, <2>2, JobMsgsIs
    <3> QED
      BY <1>3, <1>5, <3>1, JobMsgsIs
  <2>3. ASSUME m \in ToSet(first.msgs) PROVE m \in JobMsgs(jobs)
    <3>1. 1 \in DOMAIN jobs /\ m \in ToSet(jobs[1].msgs)
      BY <1>3, <2>3
    <3> QED
      BY <3>1, JobMsgsIs
  <2> QED
    BY <2>1, <2>2, <2>3
<1> QED
  BY <1>1, <1>2, <1>3, <1>6

LEMMA PipeFacts ==
    ASSUME NEW q, Sound(q)
    PROVE  /\ q.open \in [Peer -> Seq(Msg)] /\ q.inbox \in Seq(Job)
           /\ q.chain \in [Peer -> Seq(Job)] /\ q.busy \subseteq Peer
           /\ q = [open |-> q.open, inbox |-> q.inbox, chain |-> q.chain, busy |-> q.busy]
BY DEF Sound, Pipe

-----------------------------------------------------------------------------
(* What the operations on a pipe do to it                                  *)

\* A pipe r that holds what q holds and a job, or the same and no job.
Gains(q, r, S) == Sound(r) /\ Held(r) = Held(q) \cup S

\* A pipe r that holds what q holds but for S.
Gives(q, r, S) == Sound(r) /\ Held(q) = Held(r) \cup S

\* A pipe whose chain of p changes, and nothing else but perhaps `busy`.
OnChain(q, r, p) ==
    /\ r.open = q.open /\ r.inbox = q.inbox
    /\ \A o \in Peer : o # p => r.chain[o] = q.chain[o]

LEMMA ChainHeld ==
    ASSUME NEW q, NEW r, NEW p \in Peer, NEW S, OnChain(q, r, p),
           Joined(JobMsgs(r.chain[p]), JobMsgs(q.chain[p]), S)
    PROVE  Joined(Held(r), Held(q), S)
<1>1. \A o \in Peer : o # p => Mine(r, o) = Mine(q, o)
  BY DEF Mine, OnChain
<1>2. Mine(r, p) = Mine(q, p) \cup S
  BY DEF Mine, OnChain, Joined
<1>4. r.inbox = q.inbox
  BY DEF OnChain
<1>3. ASSUME NEW m PROVE m \in Held(r) <=> m \in Held(q) \/ m \in S
  <2>1. (\E o \in Peer : m \in Mine(r, o)) <=> (\E o \in Peer : m \in Mine(q, o)) \/ m \in S
    BY <1>1, <1>2
  <2> QED
    BY <1>4, <2>1, HeldIs
<1> QED
  BY <1>3 DEF Joined

LEMMA Enchained ==
    ASSUME NEW q, Sound(q), NEW job, WellMade(job)
    PROVE  Gains(q, Enchain(q, job), ToSet(job.msgs))
<1>1. PICK p : p = JobPeer(job)
  OBVIOUS
<1>2. PICK jobs : jobs = q.chain[p]
  OBVIOUS
<1>3. PICK r : r = Enchain(q, job)
  OBVIOUS
<1>4. job \in Job /\ job.msgs \in Seq(Msg) /\ job.msgs # <<>>
  BY DEF WellMade, Job
<1>5. p \in Peer
  <2>1. Head(job.msgs) \in Msg
    BY <1>4
  <2> QED
    BY <1>1, <2>1, InboundConstants DEF JobPeer
<1>c. /\ q.open \in [Peer -> Seq(Msg)] /\ q.inbox \in Seq(Job)
      /\ q.chain \in [Peer -> Seq(Job)] /\ q.busy \subseteq Peer
      /\ q = [open |-> q.open, inbox |-> q.inbox, chain |-> q.chain, busy |-> q.busy]
  BY PipeFacts
<1>d. PICK chain : chain = [q.chain EXCEPT ![p] = Append(jobs, job)]
  OBVIOUS
<1>6. r = [q EXCEPT !.chain = chain]
  BY <1>1, <1>2, <1>3, <1>5, <1>c, <1>d DEF Enchain
<1>7. /\ r.open = q.open /\ r.inbox = q.inbox /\ r.busy = q.busy /\ r.chain = chain
      /\ r = [open |-> r.open, inbox |-> r.inbox, chain |-> r.chain, busy |-> r.busy]
  <2>1. r = [open |-> q.open, inbox |-> q.inbox, chain |-> chain, busy |-> q.busy]
    BY <1>c, <1>6
  <2> QED
    BY <2>1
<1>8. jobs \in Seq(Job) /\ Append(jobs, job) \in Seq(Job) /\ Append(jobs, job) # <<>>
  <2>1. jobs \in Seq(Job)
    BY <1>2, <1>5, <1>c
  <2>2. Append(jobs, job) \in Seq(Job) /\ Len(Append(jobs, job)) = Len(jobs) + 1 /\ Len(jobs) \in Nat
    BY <1>4, <2>1
  <2>3. Append(jobs, job) # <<>>
    BY <2>2
  <2> QED
    BY <2>1, <2>2, <2>3
<1>9. /\ r.chain \in [Peer -> Seq(Job)] /\ r.chain[p] = Append(jobs, job)
      /\ \A o \in Peer : o # p => r.chain[o] = q.chain[o]
  BY <1>5, <1>7, <1>8, <1>c, <1>d
<1>10. JobMsgs(r.chain[p]) = JobMsgs(q.chain[p]) \cup ToSet(job.msgs)
  BY <1>2, <1>4, <1>8, <1>9, AppendJob
<1>11. Sound(r)
  <2>1. r \in Pipe
    BY <1>7, <1>9, <1>c DEF Pipe
  <2>2. \A o \in r.busy : r.chain[o] # <<>>
    BY <1>7, <1>8, <1>9, <1>c DEF Sound
  <2>3. ASSUME NEW o \in Peer, NEW m \in Mine(r, o) PROVE PeerOf[m] = o
    <3>1. m \in Mine(q, o) \/ (o = p /\ m \in ToSet(job.msgs))
      BY <1>7, <1>9, <1>10, <2>3 DEF Mine
    <3> QED
      BY <1>1, <3>1 DEF Sound, WellMade
  <2> QED
    BY <1>7, <2>1, <2>2, <2>3 DEF Sound
<1>12. Held(r) = Held(q) \cup ToSet(job.msgs)
  <2>1. OnChain(q, r, p) /\ Joined(JobMsgs(r.chain[p]), JobMsgs(q.chain[p]), ToSet(job.msgs))
    BY <1>7, <1>9, <1>10 DEF OnChain, Joined
  <2>2. Joined(Held(r), Held(q), ToSet(job.msgs))
    BY <1>5, <2>1, ChainHeld
  <2> QED
    BY <2>2 DEF Joined
<1> QED
  BY <1>3, <1>11, <1>12 DEF Gains

\* A pipe whose inbox changes.
LEMMA InboxSound ==
    ASSUME NEW q, Sound(q), NEW jobs \in Seq(Job), NEW r, r = [q EXCEPT !.inbox = jobs],
           \A i \in DOMAIN jobs : WellMade(jobs[i])
    PROVE  /\ Sound(r) /\ r.inbox = jobs /\ r.open = q.open /\ r.chain = q.chain
           /\ r.busy = q.busy /\ \A p \in Peer : Mine(r, p) = Mine(q, p)
<1>1. /\ r.inbox = jobs /\ r.open = q.open /\ r.chain = q.chain /\ r.busy = q.busy
      /\ r = [open |-> r.open, inbox |-> r.inbox, chain |-> r.chain, busy |-> r.busy]
  BY PipeFacts
<1>2. \A p \in Peer : Mine(r, p) = Mine(q, p)
  BY <1>1 DEF Mine
<1>3. Sound(r)
  <2>1. r \in Pipe
    BY <1>1, PipeFacts DEF Pipe
  <2> QED
    BY <1>1, <1>2, <2>1 DEF Sound
<1> QED
  BY <1>1, <1>2, <1>3

LEMMA InboxHeld ==
    ASSUME NEW q, NEW r, NEW S, \A p \in Peer : Mine(r, p) = Mine(q, p),
           Joined(JobMsgs(r.inbox), JobMsgs(q.inbox), S)
    PROVE  Joined(Held(r), Held(q), S)
<1>1. ASSUME NEW m PROVE m \in Held(r) <=> m \in Held(q) \/ m \in S
  BY HeldIs DEF Joined
<1> QED
  BY <1>1 DEF Joined

LEMMA Queued ==
    ASSUME NEW q, Sound(q), NEW job, WellMade(job)
    PROVE  Gains(q, [q EXCEPT !.inbox = Append(@, job)], ToSet(job.msgs))
<1>1. PICK jobs : jobs = Append(q.inbox, job)
  OBVIOUS
<1>2. PICK r : r = [q EXCEPT !.inbox = jobs]
  OBVIOUS
<1>3. job \in Job /\ q.inbox \in Seq(Job) /\ jobs \in Seq(Job)
  BY <1>1, PipeFacts DEF WellMade
<1>4. \A i \in DOMAIN jobs : WellMade(jobs[i])
  BY <1>1, <1>3 DEF Sound
<1>5. JobMsgs(jobs) = JobMsgs(q.inbox) \cup ToSet(job.msgs)
  BY <1>1, <1>3, AppendJob
<1>6. Sound(r) /\ Held(r) = Held(q) \cup ToSet(job.msgs)
      /\ r.inbox = jobs /\ r.open = q.open /\ r.chain = q.chain
  <2>1. /\ Sound(r) /\ r.inbox = jobs /\ r.open = q.open /\ r.chain = q.chain
        /\ \A p \in Peer : Mine(r, p) = Mine(q, p)
    BY <1>2, <1>3, <1>4, InboxSound
  <2>2. Joined(JobMsgs(r.inbox), JobMsgs(q.inbox), ToSet(job.msgs))
    BY <1>5, <2>1 DEF Joined
  <2>3. Joined(Held(r), Held(q), ToSet(job.msgs))
    BY <2>1, <2>2, InboxHeld
  <2> QED
    BY <2>1, <2>3 DEF Joined
<1> QED
  BY <1>1, <1>2, <1>6 DEF Gains

LEMMA Dequeued ==
    ASSUME NEW q, Sound(q), q.inbox # <<>>
    PROVE  /\ Gives(q, [q EXCEPT !.inbox = Tail(@)], ToSet(Head(q.inbox).msgs))
           /\ WellMade(Head(q.inbox))
<1>1. PICK jobs : jobs = Tail(q.inbox)
  OBVIOUS
<1>2. PICK r : r = [q EXCEPT !.inbox = jobs]
  OBVIOUS
<1>3. PICK S : S = ToSet(Head(q.inbox).msgs)
  OBVIOUS
<1>4. q.inbox \in Seq(Job) /\ jobs \in Seq(Job) /\ Head(q.inbox) \in Job
  BY <1>1, PipeFacts, TailJobs
<1>5. WellMade(Head(q.inbox)) /\ \A i \in DOMAIN jobs : WellMade(jobs[i])
  <2>1. Len(q.inbox) \in Nat \ {0} /\ DOMAIN q.inbox = 1..Len(q.inbox)
        /\ DOMAIN jobs = 1..(Len(q.inbox) - 1) /\ Head(q.inbox) = q.inbox[1]
        /\ \A i \in DOMAIN jobs : jobs[i] = q.inbox[i + 1] /\ i + 1 \in DOMAIN q.inbox
    BY <1>1, <1>4
  <2> QED
    BY <2>1 DEF Sound
<1>6. JobMsgs(q.inbox) = JobMsgs(jobs) \cup S
  BY <1>1, <1>3, <1>4, TailJobs
<1>7. /\ Sound(r) /\ Held(q) = Held(r) \cup S /\ r.inbox = jobs
      /\ \A p \in Peer : Mine(r, p) = Mine(q, p)
      /\ r.open = q.open /\ r.chain = q.chain
  <2>1. /\ Sound(r) /\ r.inbox = jobs /\ r.open = q.open /\ r.chain = q.chain
        /\ \A p \in Peer : Mine(r, p) = Mine(q, p)
    BY <1>2, <1>4, <1>5, InboxSound
  <2>2. Joined(JobMsgs(q.inbox), JobMsgs(r.inbox), S)
    BY <1>6, <2>1 DEF Joined
  <2>4. \A p \in Peer : Mine(q, p) = Mine(r, p)
    BY <2>1
  <2>3. Joined(Held(q), Held(r), S)
    BY <2>2, <2>4, InboxHeld
  <2> QED
    BY <2>1, <2>3 DEF Joined
<1> QED
  BY <1>1, <1>2, <1>3, <1>5, <1>7 DEF Gives

\* The job at the head of a chain is over.
LEMMA Unchained ==
    ASSUME NEW q, Sound(q), NEW p \in Peer, q.chain[p] # <<>>
    PROVE  Gives(q, [q EXCEPT !.chain[p] = Tail(@), !.busy = @ \ {p}],
                 ToSet(Head(q.chain[p]).msgs))
<1>1. PICK jobs : jobs = q.chain[p]
  OBVIOUS
<1>2. PICK rest : rest = Tail(jobs)
  OBVIOUS
<1>3. PICK S : S = ToSet(Head(jobs).msgs)
  OBVIOUS
<1>4. PICK busy : busy = q.busy \ {p}
  OBVIOUS
<1>5. PICK chain : chain = [q.chain EXCEPT ![p] = rest]
  OBVIOUS
<1>6. PICK r : r = [q EXCEPT !.chain[p] = Tail(@), !.busy = @ \ {p}]
  OBVIOUS
<1>c. /\ q.open \in [Peer -> Seq(Msg)] /\ q.inbox \in Seq(Job)
      /\ q.chain \in [Peer -> Seq(Job)] /\ q.busy \subseteq Peer
      /\ q = [open |-> q.open, inbox |-> q.inbox, chain |-> q.chain, busy |-> q.busy]
  BY PipeFacts
<1>7. r = [q EXCEPT !.chain = chain, !.busy = busy]
  BY <1>1, <1>2, <1>4, <1>5, <1>6, <1>c
<1>8. /\ r.open = q.open /\ r.inbox = q.inbox /\ r.busy = busy /\ r.chain = chain
      /\ r = [open |-> r.open, inbox |-> r.inbox, chain |-> r.chain, busy |-> r.busy]
  <2>1. r = [open |-> q.open, inbox |-> q.inbox, chain |-> chain, busy |-> busy]
    BY <1>c, <1>7
  <2> QED
    BY <2>1
<1>9. /\ jobs \in Seq(Job) /\ rest \in Seq(Job)
      /\ JobMsgs(jobs) = JobMsgs(rest) \cup S
  <2>1. jobs \in Seq(Job) /\ jobs # <<>>
    BY <1>1, <1>c
  <2> QED
    BY <1>2, <1>3, <2>1, TailJobs
<1>10. /\ r.chain \in [Peer -> Seq(Job)] /\ r.chain[p] = rest
       /\ \A o \in Peer : o # p => r.chain[o] = q.chain[o]
  BY <1>5, <1>8, <1>9, <1>c
<1>11. \A o \in Peer : \A m \in Mine(r, o) : m \in Mine(q, o)
  BY <1>1, <1>8, <1>9, <1>10 DEF Mine
<1>12. Sound(r)
  <2>1. r \in Pipe
    BY <1>4, <1>8, <1>10, <1>c DEF Pipe
  <2>2. \A o \in r.busy : r.chain[o] # <<>>
    BY <1>4, <1>8, <1>10, <1>c DEF Sound
  <2>3. \A o \in Peer : \A m \in Mine(r, o) : PeerOf[m] = o
    BY <1>11 DEF Sound
  <2> QED
    BY <1>8, <2>1, <2>2, <2>3 DEF Sound
<1>13. OnChain(r, q, p) /\ OnChain(q, r, p)
  BY <1>8, <1>10 DEF OnChain
<1>14. Joined(Held(q), Held(r), S)
  <2>1. Joined(JobMsgs(q.chain[p]), JobMsgs(r.chain[p]), S)
    BY <1>1, <1>9, <1>10 DEF Joined
  <2> QED
    BY <1>13, <2>1, ChainHeld
<1> QED
  BY <1>1, <1>3, <1>6, <1>12, <1>14 DEF Gives, Joined

\* A pipe whose batch of p changes, and nothing else.
OnBatch(q, r, p) ==
    /\ r.chain = q.chain /\ r.inbox = q.inbox
    /\ \A o \in Peer : o # p => r.open[o] = q.open[o]

LEMMA BatchHeld ==
    ASSUME NEW q, NEW r, NEW p \in Peer, NEW S, OnBatch(q, r, p),
           Joined(ToSet(r.open[p]), ToSet(q.open[p]), S)
    PROVE  Joined(Held(r), Held(q), S)
<1>1. \A o \in Peer : o # p => Mine(r, o) = Mine(q, o)
  BY DEF Mine, OnBatch
<1>2. Mine(r, p) = Mine(q, p) \cup S
  BY DEF Mine, OnBatch, Joined
<1>3. r.inbox = q.inbox
  BY DEF OnBatch
<1>4. ASSUME NEW m PROVE m \in Held(r) <=> m \in Held(q) \/ m \in S
  <2>1. (\E o \in Peer : m \in Mine(r, o)) <=> (\E o \in Peer : m \in Mine(q, o)) \/ m \in S
    BY <1>1, <1>2
  <2> QED
    BY <1>3, <2>1, HeldIs
<1> QED
  BY <1>4 DEF Joined

Batched(q, p, items) == [q EXCEPT !.open[p] = items]
BelongsTo(items, p) == items \in Seq(Msg) /\ \A m \in ToSet(items) : PeerOf[m] = p

LEMMA BatchSound ==
    ASSUME NEW q, Sound(q), NEW p \in Peer, NEW items, BelongsTo(items, p)
    PROVE  LET r == Batched(q, p, items)
           IN  Sound(r) /\ OnBatch(q, r, p) /\ OnBatch(r, q, p) /\ r.open[p] = items
<1>r. PICK r : r = Batched(q, p, items)
  OBVIOUS
<1>i. items \in Seq(Msg) /\ \A m \in ToSet(items) : PeerOf[m] = p
  BY DEF BelongsTo
<1>1. PICK open : open = [q.open EXCEPT ![p] = items]
  OBVIOUS
<1>c. /\ q.open \in [Peer -> Seq(Msg)] /\ q.inbox \in Seq(Job)
      /\ q.chain \in [Peer -> Seq(Job)] /\ q.busy \subseteq Peer
      /\ q = [open |-> q.open, inbox |-> q.inbox, chain |-> q.chain, busy |-> q.busy]
  BY PipeFacts
<1>2. r = [q EXCEPT !.open = open]
  BY <1>1, <1>c, <1>r DEF Batched
<1>3. /\ r.open = open /\ r.inbox = q.inbox /\ r.busy = q.busy /\ r.chain = q.chain
      /\ r = [open |-> r.open, inbox |-> r.inbox, chain |-> r.chain, busy |-> r.busy]
  <2>1. r = [open |-> open, inbox |-> q.inbox, chain |-> q.chain, busy |-> q.busy]
    BY <1>c, <1>2
  <2>2. r.open = open /\ r.inbox = q.inbox /\ r.busy = q.busy /\ r.chain = q.chain
    BY <2>1
  <2> QED
    BY <2>1, <2>2
<1>4. /\ r.open \in [Peer -> Seq(Msg)] /\ r.open[p] = items
      /\ \A o \in Peer : o # p => r.open[o] = q.open[o]
  BY <1>1, <1>3, <1>c, <1>i
<1>5. OnBatch(q, r, p) /\ OnBatch(r, q, p)
  BY <1>3, <1>4 DEF OnBatch
<1>6. r \in Pipe
  BY <1>3, <1>4, <1>c DEF Pipe
<1>7. ASSUME NEW o \in Peer, NEW m \in Mine(r, o) PROVE PeerOf[m] = o
  <2>1. m \in Mine(q, o) \/ (o = p /\ m \in ToSet(items))
    BY <1>3, <1>4, <1>7 DEF Mine
  <2> QED
    BY <2>1, <1>i DEF Sound
<1>8. Sound(r)
  BY <1>3, <1>6, <1>7 DEF Sound
<1> QED
  BY <1>r, <1>4, <1>5, <1>8

\* A message joins the open batch of its peer.
LEMMA Added ==
    ASSUME NEW q, Sound(q), NEW m \in Msg
    PROVE  Gains(q, AddItem(q, PeerOf[m], m), {m})
<1>1. PICK p : p = PeerOf[m]
  OBVIOUS
<1>2. p \in Peer
  BY <1>1, InboundConstants
<1>3. PICK items : items = Append(q.open[p], m)
  OBVIOUS
<1>4. PICK r : r = Batched(q, p, items)
  OBVIOUS
<1>5. q.open \in [Peer -> Seq(Msg)] /\ q.open[p] \in Seq(Msg) /\ items \in Seq(Msg)
  BY <1>2, <1>3, PipeFacts
<1>6. AddItem(q, p, m) = r
  BY <1>3, <1>4 DEF AddItem, Batched
<1>7. ToSet(items) = ToSet(q.open[p]) \cup {m}
  <2>1. /\ Len(q.open[p]) \in Nat /\ DOMAIN q.open[p] = 1..Len(q.open[p])
        /\ DOMAIN items = 1..(Len(q.open[p]) + 1) /\ items[Len(q.open[p]) + 1] = m
        /\ \A i \in 1..Len(q.open[p]) : items[i] = q.open[p][i]
    BY <1>3, <1>5
  <2>2. \A i \in 1..(Len(q.open[p]) + 1) : i \in 1..Len(q.open[p]) \/ i = Len(q.open[p]) + 1
    BY <2>1
  <2>3. \A i \in 1..Len(q.open[p]) : i \in 1..(Len(q.open[p]) + 1)
    BY <2>1
  <2>4. Len(q.open[p]) + 1 \in DOMAIN items
    BY <2>1
  <2>5. ASSUME NEW x PROVE x \in ToSet(items) <=> x \in ToSet(q.open[p]) \/ x = m
    BY <2>1, <2>2, <2>3, <2>4 DEF ToSet
  <2> QED
    BY <2>5
<1>8. \A o \in ToSet(items) : PeerOf[o] = p
  BY <1>1, <1>2, <1>7 DEF Sound, Mine
<1>9. Sound(r) /\ OnBatch(q, r, p) /\ r.open[p] = items
  <2>1. BelongsTo(items, p)
    BY <1>5, <1>8 DEF BelongsTo
  <2> QED
    BY <1>2, <1>4, <2>1, BatchSound
<1>10. Joined(Held(r), Held(q), {m})
  <2>1. Joined(ToSet(r.open[p]), ToSet(q.open[p]), {m})
    BY <1>7, <1>9 DEF Joined
  <2> QED
    BY <1>2, <1>9, <2>1, BatchHeld
<1> QED
  BY <1>1, <1>6, <1>9, <1>10 DEF Gains, Joined

\* A batch is closed, and its messages make up a job.
LEMMA Emptied ==
    ASSUME NEW q, Sound(q), NEW p \in Peer, q.open[p] # <<>>
    PROVE  /\ Gives(q, Batched(q, p, <<>>), ToSet(q.open[p]))
           /\ WellMade(NewJob(q.open[p], FALSE))
           /\ OnBatch(q, Batched(q, p, <<>>), p) /\ Batched(q, p, <<>>).open[p] = <<>>
<1>1. PICK r : r = Batched(q, p, <<>>)
  OBVIOUS
<1>2. PICK items : items = q.open[p]
  OBVIOUS
<1>3. PICK none : none = <<>>
  OBVIOUS
<1>4. items \in Seq(Msg) /\ items # <<>>
  BY <1>2, PipeFacts
<1>5. none \in Seq(Msg) /\ ToSet(none) = {}
  <2>1. none \in Seq(Msg)
    BY <1>3
  <2> QED
    BY <1>3, <2>1, SetIs
<1>6. r = Batched(q, p, none)
  BY <1>1, <1>3
<1>7. Sound(r) /\ OnBatch(q, r, p) /\ OnBatch(r, q, p) /\ r.open[p] = none
  <2>1. BelongsTo(none, p)
    BY <1>5 DEF BelongsTo
  <2> QED
    BY <1>6, <2>1, BatchSound
<1>8. Joined(Held(q), Held(r), ToSet(items))
  <2>1. Joined(ToSet(q.open[p]), ToSet(r.open[p]), ToSet(items))
    BY <1>2, <1>5, <1>7 DEF Joined
  <2> QED
    BY <1>7, <2>1, BatchHeld
<1>10. WellMade(NewJob(items, FALSE))
  <2>1. PICK job : job = NewJob(items, FALSE)
    OBVIOUS
  <2>2. job \in Job /\ job.msgs = items
    BY <1>4, <2>1 DEF NewJob, Job
  <2>3. \A m \in ToSet(items) : PeerOf[m] = p
    BY <1>2 DEF Sound, Mine
  <2>4. Head(items) \in ToSet(items)
    BY <1>4 DEF ToSet
  <2>5. JobPeer(job) = p
    BY <2>2, <2>3, <2>4 DEF JobPeer
  <2> QED
    BY <1>4, <2>1, <2>2, <2>3, <2>5 DEF WellMade
<1> QED
  BY <1>1, <1>2, <1>3, <1>7, <1>8, <1>10 DEF Gives, Joined

\* A message answered without the model is a job of its own.
LEMMA DirectJob ==
    ASSUME ClaimInv, NEW n \in Node, NEW k \in Slot, loop[n][k].pc = "route",
           NEW job, job = NewJob(<<Head(loop[n][k].batch)>>, TRUE)
    PROVE  /\ WellMade(job) /\ job \in Job /\ job.direct = TRUE
           /\ ToSet(job.msgs) = {Head(loop[n][k].batch)}
<1>1. PICK m : m = Head(loop[n][k].batch)
  OBVIOUS
<1>2. m \in Msg
  BY <1>1, LoopFacts
<1>3. job \in Job /\ job.msgs = <<m>> /\ job.direct = TRUE
  <2>1. PICK ms : ms = <<m>>
    OBVIOUS
  <2>2. ms \in Seq(Msg)
    BY <1>2, <2>1
  <2>3. NewJob(ms, TRUE) \in Job /\ NewJob(ms, TRUE).msgs = ms /\ NewJob(ms, TRUE).direct = TRUE
    BY <2>2 DEF NewJob, Job
  <2>4. job = NewJob(ms, TRUE)
    BY <1>1, <2>1
  <2> QED
    BY <2>1, <2>3, <2>4
<1>4. ToSet(<<m>>) = {m}
  BY DEF ToSet
<1>5. JobPeer(job) = PeerOf[m] /\ job.msgs # <<>>
  <2>1. Head(<<m>>) = m /\ <<m>> # <<>>
    OBVIOUS
  <2> QED
    BY <1>3, <2>1 DEF JobPeer
<1> QED
  BY <1>1, <1>3, <1>4, <1>5 DEF WellMade

\* Neither a chain nor the inbox changes what waits in the open batches.
LEMMA EnchainOpen ==
    ASSUME NEW q, Sound(q), NEW job
    PROVE  Enchain(q, job).open = q.open /\ Enchain(q, job).inbox = q.inbox
<1>1. PICK chain : chain = [q.chain EXCEPT ![JobPeer(job)] = Append(@, job)]
  OBVIOUS
<1>2. PICK r : r = Enchain(q, job)
  OBVIOUS
<1>3. r = [q EXCEPT !.chain = chain]
  BY <1>1, <1>2 DEF Enchain
<1>4. r = [open |-> q.open, inbox |-> q.inbox, chain |-> chain, busy |-> q.busy]
  BY <1>3, PipeFacts
<1>5. r.open = q.open /\ r.inbox = q.inbox
  BY <1>4
<1> QED
  BY <1>2, <1>5

Boxed(q, jobs) == [q EXCEPT !.inbox = jobs]

LEMMA InboxOpen ==
    ASSUME NEW q, Sound(q), NEW jobs
    PROVE  /\ Boxed(q, jobs).open = q.open
           /\ Boxed(q, jobs).chain = q.chain /\ Boxed(q, jobs).inbox = jobs
<1>1. PICK r : r = Boxed(q, jobs)
  OBVIOUS
<1>2. r = [open |-> q.open, inbox |-> jobs, chain |-> q.chain, busy |-> q.busy]
  BY <1>1, PipeFacts DEF Boxed
<1>3. r.open = q.open /\ r.chain = q.chain /\ r.inbox = jobs
  BY <1>2
<1> QED
  BY <1>1, <1>3

\* A pipe r that holds what q holds; one that may have lost some of S.
Keeps(q, r) == Sound(r) /\ Held(r) = Held(q)
Loses(q, r, S) == Sound(r) /\ Held(r) \subseteq Held(q) /\ Held(q) \subseteq Held(r) \cup S

LEMMA Regained ==
    ASSUME NEW q, NEW r, NEW s, NEW S, Gives(q, r, S), Gains(r, s, S) PROVE Keeps(q, s)
BY DEF Gives, Gains, Keeps

\* A job is pushed, or dropped when the inbox is full.
LEMMA Pushed ==
    ASSUME NEW q, Sound(q), NEW job, WellMade(job), NEW up
    PROVE  /\ Gains(q, Push(q, up, job), ToSet(job.msgs)) \/ Push(q, up, job) = q
           /\ Push(q, up, job).open = q.open
           /\ up = FALSE => \/ Push(q, up, job) = q
                            \/ Push(q, up, job) = [q EXCEPT !.inbox = Append(@, job)]
<1>1. CASE IdleConsumer(q, up)
  <2>1. Push(q, up, job) = Enchain(q, job) /\ up # FALSE
    BY <1>1 DEF Push, IdleConsumer
  <2> QED
    BY <2>1, Enchained, EnchainOpen
<1>2. CASE ~IdleConsumer(q, up) /\ Len(q.inbox) < InboxMax
  <2>1. Push(q, up, job) = [q EXCEPT !.inbox = Append(@, job)]
    BY <1>2 DEF Push
  <2>2. Push(q, up, job) = Boxed(q, Append(q.inbox, job))
    BY <2>1 DEF Boxed
  <2>3. Push(q, up, job).open = q.open
    BY <2>2, InboxOpen
  <2>4. Gains(q, Push(q, up, job), ToSet(job.msgs))
    BY <2>1, Queued
  <2> QED
    BY <2>1, <2>3, <2>4
<1>3. CASE ~IdleConsumer(q, up) /\ ~(Len(q.inbox) < InboxMax)
  BY <1>3 DEF Push
<1> QED
  BY <1>1, <1>2, <1>3

LEMMA NextTaken ==
    ASSUME NEW q, Sound(q), NEW up
    PROVE  /\ Keeps(q, TakeNext(q, up)) /\ TakeNext(q, up).open = q.open
           /\ up = FALSE => TakeNext(q, up) = q
<1>1. CASE IdleConsumer(q, up) /\ q.inbox # <<>>
  <2>1. PICK d : d = [q EXCEPT !.inbox = Tail(@)]
    OBVIOUS
  <2>2. d = Boxed(q, Tail(q.inbox))
    BY <2>1 DEF Boxed
  <2>3. TakeNext(q, up) = Enchain(d, Head(q.inbox)) /\ up # FALSE
    BY <1>1, <2>1 DEF TakeNext, IdleConsumer
  <2>4. Gives(q, d, ToSet(Head(q.inbox).msgs)) /\ WellMade(Head(q.inbox))
    BY <1>1, <2>1, Dequeued
  <2>5. Sound(d)
    BY <2>4 DEF Gives
  <2>6. Gains(d, Enchain(d, Head(q.inbox)), ToSet(Head(q.inbox).msgs))
    BY <2>4, <2>5, Enchained
  <2>7. Keeps(q, Enchain(d, Head(q.inbox)))
    BY <2>4, <2>6, Regained
  <2>8. Enchain(d, Head(q.inbox)).open = q.open
    <3>1. d.open = q.open
      BY <2>2, InboxOpen
    <3>2. Enchain(d, Head(q.inbox)).open = d.open
      BY <2>5, EnchainOpen
    <3> QED
      BY <3>1, <3>2
  <2> QED
    BY <2>3, <2>7, <2>8
<1>2. CASE ~(IdleConsumer(q, up) /\ q.inbox # <<>>)
  BY <1>2 DEF TakeNext, Keeps
<1> QED
  BY <1>1, <1>2

\* A pipe whose chain of p is one job shorter.
Shorter(q, p) == [q EXCEPT !.chain[p] = Tail(@), !.busy = @ \ {p}]

LEMMA ShorterIs ==
    ASSUME NEW q, Sound(q), NEW p \in Peer
    PROVE  Shorter(q, p).open = q.open /\ Shorter(q, p).inbox = q.inbox
<1>1. PICK chain : chain = [q.chain EXCEPT ![p] = Tail(@)]
  OBVIOUS
<1>2. PICK busy : busy = q.busy \ {p}
  OBVIOUS
<1>3. PICK r : r = Shorter(q, p)
  OBVIOUS
<1>c. /\ q.chain \in [Peer -> Seq(Job)] /\ q.busy \subseteq Peer
      /\ q = [open |-> q.open, inbox |-> q.inbox, chain |-> q.chain, busy |-> q.busy]
  BY PipeFacts
<1>4. r = [q EXCEPT !.chain = chain, !.busy = busy]
  BY <1>1, <1>2, <1>3, <1>c DEF Shorter
<1>5. r = [open |-> q.open, inbox |-> q.inbox, chain |-> chain, busy |-> busy]
  BY <1>4, <1>c
<1>6. r.open = q.open /\ r.inbox = q.inbox
  BY <1>5
<1> QED
  BY <1>3, <1>6

LEMMA Finished ==
    ASSUME NEW q, Sound(q), NEW up, NEW p \in Peer, q.chain[p] # <<>>
    PROVE  /\ Gives(q, Finish(q, up, p), ToSet(Head(q.chain[p]).msgs))
           /\ Finish(q, up, p).open = q.open
           /\ up = FALSE => Finish(q, up, p) = Shorter(q, p)
<1>1. PICK d : d = Shorter(q, p)
  OBVIOUS
<1>2. PICK S : S = ToSet(Head(q.chain[p]).msgs)
  OBVIOUS
<1>3. Finish(q, up, p) = TakeNext(d, up)
  BY <1>1 DEF Finish, Shorter
<1>4. Gives(q, d, S)
  BY <1>1, <1>2, Unchained DEF Shorter
<1>5. d.open = q.open /\ Sound(d)
  BY <1>1, <1>4, ShorterIs DEF Gives
<1>6. /\ Keeps(d, TakeNext(d, up)) /\ TakeNext(d, up).open = d.open
      /\ up = FALSE => TakeNext(d, up) = d
  BY <1>5, NextTaken
<1>7. Gives(q, TakeNext(d, up), S)
  BY <1>4, <1>6 DEF Gives, Keeps
<1> QED
  BY <1>1, <1>2, <1>3, <1>5, <1>6, <1>7

\* A batch becomes a job, or is lost when the inbox is full.
LEMMA Closed ==
    ASSUME NEW q, Sound(q), NEW up, NEW p \in Peer
    PROVE  /\ Loses(q, Close(q, up, p), ToSet(q.open[p]))
           /\ Close(q, up, p).open[p] = <<>>
           /\ \A o \in Peer : o # p => Close(q, up, p).open[o] = q.open[o]
<1>1. CASE q.open[p] = <<>>
  BY <1>1 DEF Close, Loses
<1>2. CASE q.open[p] # <<>>
  <2>1. PICK d : d = Batched(q, p, <<>>)
    OBVIOUS
  <2>2. PICK job : job = NewJob(q.open[p], FALSE)
    OBVIOUS
  <2>3. PICK S : S = ToSet(q.open[p])
    OBVIOUS
  <2>4. PICK r : r = Push(d, up, job)
    OBVIOUS
  <2>5. Close(q, up, p) = r
    BY <1>2, <2>1, <2>2, <2>4 DEF Close, Batched
  <2>6. Gives(q, d, S) /\ WellMade(job)
    BY <1>2, <2>1, <2>2, <2>3, Emptied
  <2>7. job.msgs = q.open[p] /\ Sound(d)
    BY <2>2, <2>6 DEF NewJob, Gives
  <2>8. (Gains(d, r, S) \/ r = d) /\ r.open = d.open
    BY <2>3, <2>4, <2>6, <2>7, Pushed
  <2>9. Loses(q, r, S)
    <3>1. CASE Gains(d, r, S)
      <4>1. Keeps(q, r)
        BY <2>6, <3>1, Regained
      <4> QED
        BY <4>1 DEF Keeps, Loses
    <3>2. CASE r = d
      BY <2>6, <3>2 DEF Gives, Loses
    <3> QED
      BY <2>8, <3>1, <3>2
  <2>10. d.open[p] = <<>> /\ \A o \in Peer : o # p => d.open[o] = q.open[o]
    BY <1>2, <2>1, Emptied DEF OnBatch
  <2> QED
    BY <2>3, <2>5, <2>8, <2>9, <2>10
<1> QED
  BY <1>1, <1>2

\* A set of naturals that is not empty has a least element.
LEMMA Least ==
    ASSUME NEW U \in SUBSET Nat, U # {}
    PROVE  \E u \in U : \A v \in U : u <= v
<1>1. PICK u \in U : \A v \in U : ~(<<v, u>> \in OpToRel(<, Nat))
  BY NatLessThanWellFounded, WFMin
<1>2. \A v \in U : ~(v < u)
  BY <1>1 DEF OpToRel
<1> QED
  BY <1>2

\* What holds of 0, and of i when it holds of i - 1, holds of each number up to n.
LEMMA UpTo ==
    ASSUME NEW n \in Nat, NEW Good, 0 \in Good, \A i \in 1..n : i - 1 \in Good => i \in Good
    PROVE  \A i \in 0..n : i \in Good
<1> DEFINE Bad == {i \in 0..n : i \notin Good}
<1>1. CASE Bad = {}
  BY <1>1
<1>2. CASE Bad # {}
  <2>1. Bad \in SUBSET Nat
    OBVIOUS
  <2>2. PICK u \in Bad : \A v \in Bad : u <= v
    BY <1>2, <2>1, Least
  <2>3. u \in 1..n /\ u - 1 \in 0..n /\ ~(u <= u - 1)
    BY <2>2
  <2>4. u - 1 \in Good
    BY <2>2, <2>3
  <2> QED
    BY <2>2, <2>3, <2>4
<1> QED
  BY <1>1, <1>2

\* Closing the batches of n peers one after the other.
Closing(q, order, n, f) == f = [i \in 0..n |-> IF i = 0 THEN q ELSE Close(f[i - 1], TRUE, order[i])]

OneByOne(q, order, f) ==
    f[0] = q /\ \A i \in 1..Len(order) : f[i] = Close(f[i - 1], TRUE, order[i])

LEMMA FlushedIs ==
    ASSUME NEW q, NEW order, Len(order) \in Nat
    PROVE  OneByOne(q, order, Flushed(q, order))
<1> DEFINE Good == {n \in Nat : \E f : Closing(q, order, n, f)}
<1>1. 0 \in Good
  <2> DEFINE f == [i \in 0..0 |-> q]
  <2>1. f = [i \in 0..0 |-> IF i = 0 THEN q ELSE Close(f[i - 1], TRUE, order[i])]
    OBVIOUS
  <2> QED
    BY <2>1 DEF Closing
<1>2. ASSUME NEW n \in 1..Len(order), n - 1 \in Good PROVE n \in Good
  <2>1. PICK g : Closing(q, order, n - 1, g)
    BY <1>2
  <2>2. PICK last : last = Close(g[n - 1], TRUE, order[n])
    OBVIOUS
  <2> DEFINE f == [i \in 0..n |-> IF i = n THEN last ELSE g[i]]
  <2>3. \A i \in 0..(n - 1) : g[i] = IF i = 0 THEN q ELSE Close(g[i - 1], TRUE, order[i])
    BY <2>1 DEF Closing
  <2>4. ASSUME NEW i \in 0..n
        PROVE  f[i] = IF i = 0 THEN q ELSE Close(f[i - 1], TRUE, order[i])
    <3>1. n \in Nat /\ n # 0 /\ i \in Nat
      OBVIOUS
    <3>2. CASE i = 0
      <4>1. 0 \in 0..(n - 1)
        BY <3>1
      <4>2. g[0] = q
        BY <2>3, <4>1
      <4> QED
        BY <3>1, <3>2, <4>2
    <3>3. CASE i # 0 /\ i # n
      <4>1. i \in 0..(n - 1) /\ i - 1 \in 0..n /\ i - 1 # n
        BY <3>1, <3>3
      <4> QED
        BY <2>3, <3>3, <4>1
    <3>4. CASE i = n
      <4>1. i - 1 \in 0..n /\ i - 1 # n
        BY <3>1, <3>4
      <4> QED
        BY <2>2, <3>1, <3>4, <4>1
    <3> QED
      BY <3>2, <3>3, <3>4
  <2> HIDE DEF f
  <2>5. f = [i \in 0..n |-> IF i = 0 THEN q ELSE Close(f[i - 1], TRUE, order[i])]
    <3>1. f = [i \in 0..n |-> f[i]]
      BY DEF f
    <3> QED
      BY <2>4, <3>1
  <2>6. n \in Nat
    OBVIOUS
  <2> QED
    BY <2>5, <2>6 DEF Closing
<1>3. PICK g : Closing(q, order, Len(order), g)
  <2>1. \A i \in 0..Len(order) : i \in Good
    <3> HIDE DEF Good
    <3> QED
      BY <1>1, <1>2, UpTo
  <2>2. Len(order) \in Good
    BY <2>1
  <2> QED
    BY <2>2
<1>4. PICK f : f = Flushed(q, order)
  OBVIOUS
<1>5. f = [i \in 0..Len(order) |-> IF i = 0 THEN q ELSE Close(f[i - 1], TRUE, order[i])]
  BY <1>3, <1>4 DEF Closing, Flushed
<1>6. /\ f[0] = q
      /\ \A i \in 1..Len(order) : f[i] = Close(f[i - 1], TRUE, order[i])
  <2>1. \A i \in 0..Len(order) : f[i] = IF i = 0 THEN q ELSE Close(f[i - 1], TRUE, order[i])
    BY <1>5
  <2>2. 0 \in 0..Len(order) /\ \A i \in 1..Len(order) : i \in 0..Len(order) /\ i # 0
    OBVIOUS
  <2> QED
    BY <2>1, <2>2
<1> QED
  BY <1>4, <1>6 DEF OneByOne

Opens(q) == UNION {ToSet(q.open[p]) : p \in Peer}

\* The last flush closes the batch of every peer.
LEMMA FlushLoses ==
    ASSUME NEW q, Sound(q), NEW order \in SetToSeqs(Peer)
    PROVE  /\ Loses(q, Flush(q, order), Opens(q))
           /\ \A p \in Peer : Flush(q, order).open[p] = <<>>
<1>1. PICK n : n = Cardinality(Peer)
  OBVIOUS
<1>2. n \in Nat /\ IsFiniteSet(Peer)
  BY <1>1, InboundConstants, FS_CardinalityType
<1>3. /\ order \in [1..n -> Peer]
      /\ \A i, j \in 1..n : i # j => order[i] # order[j]
  BY <1>1 DEF SetToSeqs
<1>4. Len(order) = n
  BY <1>2, <1>3
<1>5. \A p \in Peer : \E i \in 1..n : order[i] = p
  <2>1. order \in Injection(1..n, Peer)
    BY <1>3 DEF Injection, IsInjective
  <2>2. Cardinality(1..n) = n
    BY <1>2, FS_Interval
  <2>3. order \in Surjection(1..n, Peer)
    BY <1>1, <1>2, <2>1, <2>2, FS_Injection
  <2> QED
    BY <2>3 DEF Surjection
<1>6. PICK f : f = Flushed(q, order)
  OBVIOUS
<1>7. f[0] = q /\ \A i \in 1..n : f[i] = Close(f[i - 1], TRUE, order[i])
  <2>1. Len(order) \in Nat
    BY <1>2, <1>4
  <2>2. f[0] = q /\ \A i \in 1..Len(order) : f[i] = Close(f[i - 1], TRUE, order[i])
    <3>1. OneByOne(q, order, f)
      BY <1>6, <2>1, FlushedIs
    <3> QED
      BY <3>1 DEF OneByOne
  <2> QED
    BY <1>4, <2>2
<1> DEFINE Part(i) == /\ Loses(q, f[i], Opens(q))
                      /\ \A p \in Peer : ToSet(f[i].open[p]) \subseteq ToSet(q.open[p])
                      /\ \A j \in 1..i : f[i].open[order[j]] = <<>>
           Good == {i \in Nat : Part(i)}
<1>8. 0 \in Good
  BY <1>7 DEF Loses
<1>9. ASSUME NEW i \in 1..n, i - 1 \in Good PROVE i \in Good
  <2>1. PICK s : s = f[i - 1]
    OBVIOUS
  <2>2. PICK r : r = f[i]
    OBVIOUS
  <2>3. PICK p : p = order[i]
    OBVIOUS
  <2>4. p \in Peer /\ i \in Nat /\ i - 1 \in Nat /\ r = Close(s, TRUE, p)
    <3>1. f[i] = Close(f[i - 1], TRUE, order[i])
      BY <1>7
    <3>2. p \in Peer
      BY <1>3, <2>3
    <3> QED
      BY <1>2, <2>1, <2>2, <2>3, <3>1, <3>2
  <2>5. /\ Loses(q, s, Opens(q)) /\ \A o \in Peer : ToSet(s.open[o]) \subseteq ToSet(q.open[o])
        /\ \A j \in 1..(i - 1) : s.open[order[j]] = <<>>
    BY <1>9, <2>1
  <2>6. /\ Loses(s, r, ToSet(s.open[p])) /\ r.open[p] = <<>>
        /\ \A o \in Peer : o # p => r.open[o] = s.open[o]
    <3>1. Sound(s)
      BY <2>5 DEF Loses
    <3>2. /\ Loses(s, Close(s, TRUE, p), ToSet(s.open[p])) /\ Close(s, TRUE, p).open[p] = <<>>
          /\ \A o \in Peer : o # p => Close(s, TRUE, p).open[o] = s.open[o]
      <4>1. PICK up : up = TRUE
        OBVIOUS
      <4>2. /\ Loses(s, Close(s, up, p), ToSet(s.open[p])) /\ Close(s, up, p).open[p] = <<>>
            /\ \A o \in Peer : o # p => Close(s, up, p).open[o] = s.open[o]
        BY <2>4, <3>1, Closed
      <4> QED
        BY <4>1, <4>2
    <3> QED
      BY <2>4, <3>2
  <2>7. ToSet(s.open[p]) \subseteq Opens(q)
    BY <2>4, <2>5 DEF Opens
  <2>8. Loses(q, r, Opens(q))
    BY <2>5, <2>6, <2>7 DEF Loses
  <2>9. ASSUME NEW o \in Peer PROVE ToSet(r.open[o]) \subseteq ToSet(q.open[o])
    <3>1. r.open[p] \in Seq(Msg)
      BY <2>4, <2>8, PipeFacts DEF Loses
    <3>2. ToSet(r.open[p]) = {}
      BY <2>6, <3>1, SetIs
    <3> QED
      BY <2>5, <2>6, <3>2
  <2>10. ASSUME NEW j \in 1..i PROVE r.open[order[j]] = <<>>
    <3>1. CASE j = i
      BY <2>3, <2>6, <3>1
    <3>2. CASE j # i
      <4>1. j \in 1..(i - 1) /\ j \in 1..n /\ order[j] # p /\ order[j] \in Peer
        BY <1>2, <1>3, <2>3, <3>2
      <4> QED
        BY <2>5, <2>6, <4>1
    <3> QED
      BY <3>1, <3>2
  <2>11. Part(i)
    BY <2>2, <2>8, <2>9, <2>10
  <2> QED
    BY <2>4, <2>11
<1>10. Part(n)
  <2>1. \A i \in 0..n : i \in Good
    <3> HIDE DEF Good
    <3> QED
      BY <1>2, <1>8, <1>9, UpTo
  <2>2. n \in 0..n
    BY <1>2
  <2>3. n \in Good
    BY <2>1, <2>2
  <2> QED
    BY <2>3
<1>11. Flush(q, order) = f[n]
  BY <1>4, <1>6 DEF Flush
<1> QED
  BY <1>5, <1>10, <1>11

\* A job begins to run.
LEMMA Begun ==
    ASSUME NEW q, Sound(q), NEW p \in Peer, q.chain[p] # <<>>
    PROVE  LET r == [q EXCEPT !.busy = @ \cup {p}]
           IN  Keeps(q, r) /\ r.open = q.open /\ r.inbox = q.inbox /\ r.chain = q.chain
<1>1. PICK busy : busy = q.busy \cup {p}
  OBVIOUS
<1>2. PICK r : r = [q EXCEPT !.busy = @ \cup {p}]
  OBVIOUS
<1>c. /\ q.open \in [Peer -> Seq(Msg)] /\ q.inbox \in Seq(Job)
      /\ q.chain \in [Peer -> Seq(Job)] /\ q.busy \subseteq Peer
      /\ q = [open |-> q.open, inbox |-> q.inbox, chain |-> q.chain, busy |-> q.busy]
  BY PipeFacts
<1>3. r = [open |-> q.open, inbox |-> q.inbox, chain |-> q.chain, busy |-> busy]
  BY <1>1, <1>2, <1>c
<1>4. r.open = q.open /\ r.inbox = q.inbox /\ r.chain = q.chain /\ r.busy = busy
  BY <1>3
<1>5. r \in Pipe
  BY <1>1, <1>3, <1>c DEF Pipe
<1>6. \A o \in Peer : Mine(r, o) = Mine(q, o)
  BY <1>4 DEF Mine
<1>7. Sound(r)
  BY <1>1, <1>4, <1>5, <1>6 DEF Sound
<1>8. ASSUME NEW m PROVE m \in Held(r) <=> m \in Held(q)
  BY <1>4, <1>6, HeldIs
<1> QED
  BY <1>2, <1>4, <1>7, <1>8 DEF Keeps

\* The drain moves a job from the inbox to its chain.
LEMMA Drained ==
    ASSUME NEW q, Sound(q), q.inbox # <<>>
    PROVE  LET r == Enchain([q EXCEPT !.inbox = Tail(@)], [Head(q.inbox) EXCEPT !.drain = TRUE])
           IN  Keeps(q, r) /\ r.open = q.open
<1>1. PICK d : d = [q EXCEPT !.inbox = Tail(@)]
  OBVIOUS
<1>2. PICK first : first = Head(q.inbox)
  OBVIOUS
<1>3. PICK job : job = [first EXCEPT !.drain = TRUE]
  OBVIOUS
<1>4. Gives(q, d, ToSet(first.msgs)) /\ WellMade(first)
  BY <1>1, <1>2, Dequeued
<1>5. first = [msgs |-> first.msgs, direct |-> first.direct, drain |-> first.drain]
      /\ first.msgs \in Seq(Msg) /\ first.direct \in BOOLEAN
  BY <1>4 DEF WellMade, Job
<1>6. job = [msgs |-> first.msgs, direct |-> first.direct, drain |-> TRUE]
  BY <1>3, <1>5
<1>7. job \in Job /\ job.msgs = first.msgs
  BY <1>5, <1>6 DEF Job
<1>8. WellMade(job)
  BY <1>4, <1>7 DEF WellMade, JobPeer
<1>9. Sound(d)
  BY <1>4 DEF Gives
<1>10. Gains(d, Enchain(d, job), ToSet(first.msgs))
  BY <1>7, <1>8, <1>9, Enchained
<1>11. Keeps(q, Enchain(d, job))
  BY <1>4, <1>10, Regained
<1>12. Enchain(d, job).open = q.open
  <2>1. d = Boxed(q, Tail(q.inbox))
    BY <1>1 DEF Boxed
  <2>2. d.open = q.open
    BY <2>1, InboxOpen
  <2>3. Enchain(d, job).open = d.open
    BY <1>9, EnchainOpen
  <2> QED
    BY <2>2, <2>3
<1> QED
  BY <1>1, <1>2, <1>3, <1>11, <1>12

LEMMA EmptySound == Sound(EmptyPipe) /\ Held(EmptyPipe) = {}
<1>1. PICK q : q = EmptyPipe
  OBVIOUS
<1>2. /\ q = [open |-> [p \in Peer |-> <<>>], inbox |-> <<>>, chain |-> [p \in Peer |-> <<>>],
              busy |-> {}]
  BY <1>1 DEF EmptyPipe
<1>3. /\ q.inbox = <<>> /\ q.busy = {}
      /\ \A p \in Peer : q.open[p] = <<>> /\ q.chain[p] = <<>>
  BY <1>2
<1>4. q \in Pipe
  BY <1>2 DEF Pipe
<1>5. JobMsgs(<<>>) = {}
  BY DEF JobMsgs
<1>6. ToSet(<<>>) = {}
  BY DEF ToSet
<1>7. \A p \in Peer : Mine(q, p) = {}
  BY <1>3, <1>5, <1>6 DEF Mine
<1>8. Sound(q)
  BY <1>3, <1>4, <1>7 DEF Sound
<1>9. ASSUME NEW m PROVE m \notin Held(q)
  BY <1>3, <1>5, <1>7, HeldIs
<1> QED
  BY <1>1, <1>8, <1>9


-----------------------------------------------------------------------------
(* The order in which the messages of a pipe stand                         *)

\* The item x, a message with the `direct` of its job, stands in a job or in a
\* sequence of jobs; x stands before y.
In(job, x) == \E a \in DOMAIN job.msgs : x = <<job.direct, job.msgs[a]>>
Within(job, x, y) ==
    \E a, b \in DOMAIN job.msgs :
        a < b /\ x = <<job.direct, job.msgs[a]>> /\ y = <<job.direct, job.msgs[b]>>
Stands(jobs, x) == \E i \in DOMAIN jobs : In(jobs[i], x)
Precedes(jobs, x, y) ==
    \/ \E i \in DOMAIN jobs : Within(jobs[i], x, y)
    \/ \E i, j \in DOMAIN jobs : i < j /\ In(jobs[i], x) /\ In(jobs[j], y)

\* x stands before y in the jobs c, followed by the jobs b, followed by job o.
Lines(c, b, o, x, y) ==
    \/ Precedes(c, x, y) \/ Precedes(b, x, y) \/ Within(o, x, y)
    \/ Stands(c, x) /\ (Stands(b, y) \/ In(o, y))
    \/ Stands(b, x) /\ In(o, y)

\* Of the messages of p in a pipe, y is answered after x.
Follows(q, p, x, y) ==
    /\ PeerOf[x[2]] = p /\ PeerOf[y[2]] = p
    /\ Lines(q.chain[p], q.inbox, NewJob(q.open[p], FALSE), x, y)

\* A pipe r in which no message stands before another that did not do so in q.
Calm(q, r) == \A p \in Peer : \A x, y : Follows(r, p, x, y) => Follows(q, p, x, y)

LEMMA CalmSteps == ASSUME NEW q, NEW r, NEW s, Calm(q, r), Calm(r, s) PROVE Calm(q, s)
BY DEF Calm

LEMMA Appended ==
    ASSUME NEW jobs \in Seq(Job), NEW job \in Job, NEW x, NEW y
    PROVE  /\ Stands(Append(jobs, job), x) => Stands(jobs, x) \/ In(job, x)
           /\ Precedes(Append(jobs, job), x, y) =>
                Precedes(jobs, x, y) \/ Within(job, x, y) \/ (Stands(jobs, x) /\ In(job, y))
<1>1. PICK new : new = Append(jobs, job)
  OBVIOUS
<1>2. /\ Len(jobs) \in Nat /\ DOMAIN jobs = 1..Len(jobs) /\ DOMAIN new = 1..(Len(jobs) + 1)
      /\ new[Len(jobs) + 1] = job /\ \A i \in 1..Len(jobs) : new[i] = jobs[i]
  BY <1>1
<1>3. \A i \in DOMAIN new : i = Len(jobs) + 1 \/ i \in DOMAIN jobs
  BY <1>2
<1>4. ASSUME Stands(new, x) PROVE Stands(jobs, x) \/ In(job, x)
  BY <1>2, <1>3, <1>4 DEF Stands
<1>5. ASSUME Precedes(new, x, y)
      PROVE  Precedes(jobs, x, y) \/ Within(job, x, y) \/ (Stands(jobs, x) /\ In(job, y))
  <2>1. CASE \E i \in DOMAIN new : Within(new[i], x, y)
    BY <1>2, <1>3, <2>1 DEF Precedes
  <2>2. ASSUME NEW i \in DOMAIN new, NEW j \in DOMAIN new, i < j, In(new[i], x), In(new[j], y)
        PROVE  Precedes(jobs, x, y) \/ (Stands(jobs, x) /\ In(job, y))
    <3>1. i \in DOMAIN jobs /\ new[i] = jobs[i]
      BY <1>2, <1>3, <2>2
    <3>2. Stands(jobs, x)
      BY <2>2, <3>1 DEF Stands
    <3>3. CASE j = Len(jobs) + 1
      BY <1>2, <2>2, <3>2, <3>3
    <3>4. CASE j \in DOMAIN jobs
      BY <1>2, <2>2, <3>1, <3>4 DEF Precedes
    <3> QED
      BY <1>3, <3>3, <3>4
  <2> QED
    BY <1>5, <2>1, <2>2 DEF Precedes
<1> QED
  BY <1>1, <1>4, <1>5

LEMMA HeadFirst ==
    ASSUME NEW jobs \in Seq(Job), jobs # <<>>, NEW x, NEW y
    PROVE  /\ Stands(Tail(jobs), x) \/ In(Head(jobs), x) => Stands(jobs, x)
           /\ Precedes(Tail(jobs), x, y) \/ Within(Head(jobs), x, y) => Precedes(jobs, x, y)
           /\ In(Head(jobs), x) /\ Stands(Tail(jobs), y) => Precedes(jobs, x, y)
<1>1. PICK rest : rest = Tail(jobs)
  OBVIOUS
<1>2. PICK first : first = Head(jobs)
  OBVIOUS
<1>3. /\ Len(jobs) \in Nat \ {0} /\ DOMAIN jobs = 1..Len(jobs)
      /\ DOMAIN rest = 1..(Len(jobs) - 1) /\ first = jobs[1]
      /\ \A i \in DOMAIN rest : rest[i] = jobs[i + 1]
  BY <1>1, <1>2
<1>4. 1 \in DOMAIN jobs /\ \A i \in DOMAIN rest : i + 1 \in DOMAIN jobs /\ 1 < i + 1
  BY <1>3
<1>5. \A i, j \in DOMAIN rest : i < j => i + 1 < j + 1
  BY <1>3
<1>6. Stands(rest, x) \/ In(first, x) => Stands(jobs, x)
  BY <1>3, <1>4 DEF Stands
<1>7. Within(first, x, y) => Precedes(jobs, x, y)
  BY <1>3, <1>4 DEF Precedes
<1>8. Precedes(rest, x, y) => Precedes(jobs, x, y)
  BY <1>3, <1>4, <1>5 DEF Precedes
<1>9. In(first, x) /\ Stands(rest, y) => Precedes(jobs, x, y)
  BY <1>3, <1>4 DEF Precedes, Stands
<1> QED
  BY <1>1, <1>2, <1>6, <1>7, <1>8, <1>9

\* A job of the same messages holds the same items in the same order.
LEMMA SameItems ==
    ASSUME NEW job, NEW copy, copy.msgs = job.msgs, copy.direct = job.direct, NEW x, NEW y
    PROVE  (In(copy, x) <=> In(job, x)) /\ (Within(copy, x, y) <=> Within(job, x, y))
BY DEF In, Within

\* An empty batch stands nowhere.
LEMMA NoItems ==
    ASSUME NEW job, job.msgs = <<>>, NEW x, NEW y PROVE ~In(job, x) /\ ~Within(job, x, y)
BY DEF In, Within

LEMMA ItemsHeld ==
    ASSUME NEW q, NEW p \in Peer, NEW x
    PROVE  /\ Stands(q.chain[p], x) => x[2] \in Held(q)
           /\ Stands(q.inbox, x) => x[2] \in Held(q)
           /\ In(NewJob(q.open[p], FALSE), x) => x[2] \in Held(q)
<1>1. \A job : In(job, x) => x[2] \in ToSet(job.msgs)
  BY DEF In, ToSet
<1>2. \A jobs : Stands(jobs, x) => x[2] \in JobMsgs(jobs)
  BY <1>1, JobMsgsIs DEF Stands
<1>3. ASSUME In(NewJob(q.open[p], FALSE), x) PROVE x[2] \in ToSet(q.open[p])
  <2>1. NewJob(q.open[p], FALSE).msgs = q.open[p]
    BY DEF NewJob
  <2> QED
    BY <1>1, <1>3, <2>1
<1> QED
  BY <1>2, <1>3, HeldIs DEF Mine

LEMMA ItemsPeer ==
    ASSUME NEW q, Sound(q), NEW job, WellMade(job), NEW x, In(job, x)
    PROVE  PeerOf[x[2]] = JobPeer(job)
BY DEF WellMade, In, ToSet

LEMMA ShorterChain ==
    ASSUME NEW q, Sound(q), NEW p \in Peer
    PROVE  /\ Shorter(q, p).chain[p] = Tail(q.chain[p])
           /\ \A o \in Peer : o # p => Shorter(q, p).chain[o] = q.chain[o]
<1>1. PICK chain : chain = [q.chain EXCEPT ![p] = Tail(@)]
  OBVIOUS
<1>2. PICK busy : busy = q.busy \ {p}
  OBVIOUS
<1>3. PICK r : r = Shorter(q, p)
  OBVIOUS
<1>c. /\ q.chain \in [Peer -> Seq(Job)]
      /\ q = [open |-> q.open, inbox |-> q.inbox, chain |-> q.chain, busy |-> q.busy]
  BY PipeFacts
<1>4. r = [q EXCEPT !.chain = chain, !.busy = busy]
  BY <1>1, <1>2, <1>3, <1>c DEF Shorter
<1>5. r = [open |-> q.open, inbox |-> q.inbox, chain |-> chain, busy |-> busy]
  BY <1>4, <1>c
<1>6. r.chain = chain
  BY <1>5
<1>7. chain[p] = Tail(q.chain[p]) /\ \A o \in Peer : o # p => chain[o] = q.chain[o]
  BY <1>1, <1>c
<1> QED
  BY <1>3, <1>6, <1>7

\* How the line of one peer's messages changes with the pieces it is made of.
LEMMA LinesShrink ==
    ASSUME NEW c \in Seq(Job), NEW b \in Seq(Job), NEW o, NEW x, NEW y
    PROVE  /\ c # <<>> /\ Lines(Tail(c), b, o, x, y) => Lines(c, b, o, x, y)
           /\ b # <<>> /\ Lines(c, Tail(b), o, x, y) => Lines(c, b, o, x, y)
<1>1. ASSUME c # <<>>, Lines(Tail(c), b, o, x, y) PROVE Lines(c, b, o, x, y)
  <2>1. /\ Stands(Tail(c), x) => Stands(c, x)
        /\ Precedes(Tail(c), x, y) => Precedes(c, x, y)
    BY <1>1, HeadFirst
  <2> QED
    BY <1>1, <2>1 DEF Lines
<1>2. ASSUME b # <<>>, Lines(c, Tail(b), o, x, y) PROVE Lines(c, b, o, x, y)
  <2>1. /\ Stands(Tail(b), x) => Stands(b, x)
        /\ Precedes(Tail(b), x, y) => Precedes(b, x, y)
    BY <1>2, HeadFirst
  <2>2. Stands(Tail(b), y) => Stands(b, y)
    BY <1>2, HeadFirst
  <2> QED
    BY <1>2, <2>1, <2>2 DEF Lines
<1> QED
  BY <1>1, <1>2

\* The first job of the inbox joins the end of its chain.
LEMMA LinesMove ==
    ASSUME NEW c \in Seq(Job), NEW b \in Seq(Job), b # <<>>, NEW o, NEW x, NEW y,
           NEW job \in Job, job.msgs = Head(b).msgs, job.direct = Head(b).direct,
           Lines(Append(c, job), Tail(b), o, x, y)
    PROVE  Lines(c, b, o, x, y)
<1>1. PICK h : h = Head(b)
  OBVIOUS
<1>2. /\ In(job, x) <=> In(h, x)
      /\ In(job, y) <=> In(h, y)
      /\ Within(job, x, y) <=> Within(h, x, y)
  BY <1>1 DEF In, Within
<1>3. /\ Stands(Tail(b), x) \/ In(h, x) => Stands(b, x)
      /\ Precedes(Tail(b), x, y) \/ Within(h, x, y) => Precedes(b, x, y)
      /\ In(h, x) /\ Stands(Tail(b), y) => Precedes(b, x, y)
  BY <1>1, HeadFirst
<1>4. Stands(Tail(b), y) \/ In(h, y) => Stands(b, y)
  BY <1>1, HeadFirst
<1>5. /\ Stands(Append(c, job), x) => Stands(c, x) \/ In(job, x)
      /\ Precedes(Append(c, job), x, y) =>
           Precedes(c, x, y) \/ Within(job, x, y) \/ (Stands(c, x) /\ In(job, y))
  BY Appended
<1> QED
  BY <1>2, <1>3, <1>4, <1>5 DEF Lines

\* A job joins the chain or the inbox.
LEMMA LinesGrow ==
    ASSUME NEW c \in Seq(Job), NEW b \in Seq(Job), NEW o, NEW x, NEW y, NEW job \in Job
    PROVE  /\ Lines(Append(c, job), b, o, x, y) =>
                \/ Lines(c, b, o, x, y) \/ Within(job, x, y) \/ (Stands(c, x) /\ In(job, y))
                \/ In(job, x) /\ (Stands(b, y) \/ In(o, y))
           /\ Lines(c, Append(b, job), o, x, y) =>
                \/ Lines(c, b, o, x, y) \/ Within(job, x, y)
                \/ (Stands(c, x) \/ Stands(b, x)) /\ In(job, y)
                \/ In(job, x) /\ In(o, y)
<1>1. /\ Stands(Append(c, job), x) => Stands(c, x) \/ In(job, x)
      /\ Precedes(Append(c, job), x, y) =>
           Precedes(c, x, y) \/ Within(job, x, y) \/ (Stands(c, x) /\ In(job, y))
  BY Appended
<1>2. /\ Stands(Append(b, job), x) => Stands(b, x) \/ In(job, x)
      /\ Precedes(Append(b, job), x, y) =>
           Precedes(b, x, y) \/ Within(job, x, y) \/ (Stands(b, x) /\ In(job, y))
  BY Appended
<1>3. Stands(Append(b, job), y) => Stands(b, y) \/ In(job, y)
  BY Appended
<1> QED
  BY <1>1, <1>2, <1>3 DEF Lines

LEMMA WithinIn == ASSUME NEW job, NEW x, NEW y, Within(job, x, y) PROVE In(job, x) /\ In(job, y)
BY DEF Within, In

\* The messages of other peers do not matter to the line of a peer.
LEMMA LinesOthers ==
    ASSUME NEW c \in Seq(Job), NEW b \in Seq(Job), NEW o, NEW x, NEW y, NEW job \in Job,
           ~In(job, x), ~In(job, y), Lines(c, Append(b, job), o, x, y)
    PROVE  Lines(c, b, o, x, y)
BY LinesGrow, WithinIn

\* The open batch becomes a job, on the chain or in the inbox.
LEMMA LinesClose ==
    ASSUME NEW c \in Seq(Job), NEW b \in Seq(Job), NEW o \in Job, NEW x, NEW y, NEW none,
           none.msgs = <<>>
    PROVE  /\ b = <<>> /\ Lines(Append(c, o), b, none, x, y) => Lines(c, b, o, x, y)
           /\ Lines(c, Append(b, o), none, x, y) => Lines(c, b, o, x, y)
           /\ Lines(c, b, none, x, y) => Lines(c, b, o, x, y)
<1>1. ~In(none, x) /\ ~In(none, y) /\ ~Within(none, x, y)
  BY DEF In, Within
<1>2. b = <<>> => ~Stands(b, y)
  BY DEF Stands
<1>3. /\ Lines(Append(c, o), b, none, x, y) =>
           \/ Lines(c, b, none, x, y) \/ Within(o, x, y) \/ (Stands(c, x) /\ In(o, y))
           \/ In(o, x) /\ (Stands(b, y) \/ In(none, y))
      /\ Lines(c, Append(b, o), none, x, y) =>
           \/ Lines(c, b, none, x, y) \/ Within(o, x, y)
           \/ (Stands(c, x) \/ Stands(b, x)) /\ In(o, y)
           \/ In(o, x) /\ In(none, y)
  BY LinesGrow
<1>4. Lines(c, b, none, x, y) => Lines(c, b, o, x, y)
  BY <1>1 DEF Lines
<1>5. Within(o, x, y) \/ ((Stands(c, x) \/ Stands(b, x)) /\ In(o, y)) => Lines(c, b, o, x, y)
  BY DEF Lines
<1> QED
  BY <1>1, <1>2, <1>3, <1>4, <1>5

LEMMA EnchainIs ==
    ASSUME NEW q, Sound(q), NEW job, WellMade(job)
    PROVE  /\ JobPeer(job) \in Peer /\ Sound(Enchain(q, job))
           /\ Enchain(q, job).open = q.open /\ Enchain(q, job).inbox = q.inbox
           /\ Enchain(q, job).chain[JobPeer(job)] = Append(q.chain[JobPeer(job)], job)
           /\ \A o \in Peer : o # JobPeer(job) => Enchain(q, job).chain[o] = q.chain[o]
<1>1. PICK p : p = JobPeer(job)
  OBVIOUS
<1>2. PICK chain : chain = [q.chain EXCEPT ![p] = Append(@, job)]
  OBVIOUS
<1>3. PICK r : r = Enchain(q, job)
  OBVIOUS
<1>4. r = [q EXCEPT !.chain = chain]
  BY <1>1, <1>2, <1>3 DEF Enchain
<1>5. r = [open |-> q.open, inbox |-> q.inbox, chain |-> chain, busy |-> q.busy]
  BY <1>4, PipeFacts
<1>6. r.open = q.open /\ r.inbox = q.inbox /\ r.chain = chain
  BY <1>5
<1>7. p \in Peer
  <2>1. job.msgs \in Seq(Msg) /\ job.msgs # <<>>
    BY DEF WellMade, Job
  <2>2. Head(job.msgs) \in Msg
    BY <2>1
  <2> QED
    BY <1>1, <2>2, InboundConstants DEF JobPeer
<1>8. q.chain \in [Peer -> Seq(Job)]
  BY PipeFacts
<1>9. chain[p] = Append(q.chain[p], job) /\ \A o \in Peer : o # p => chain[o] = q.chain[o]
  BY <1>2, <1>7, <1>8
<1>10. Sound(r)
  BY <1>3, Enchained DEF Gains
<1> QED
  BY <1>1, <1>3, <1>6, <1>7, <1>9, <1>10

\* While jobs wait in the inbox, no consumer waits for one.
Manned(q) == q.inbox # <<>> => ~(Occupied(q) < Consumers)

\* The pipe r has one message more, with the `direct` d, and the rest keeps its
\* order; an ordinary message stands behind all others.
Adds(q, r, d, m) ==
    \A p \in Peer : \A x, y : Follows(r, p, x, y) =>
        \/ Follows(q, p, x, y)
        \/ y = <<d, m>> /\ x[2] \in Held(q)
        \/ d = TRUE /\ x = <<d, m>> /\ y[2] \in Held(q)

LEMMA AlikeCalm ==
    ASSUME NEW q, NEW r, r.chain = q.chain, r.inbox = q.inbox, r.open = q.open
    PROVE  Calm(q, r)
BY DEF Calm, Follows

LEMMA ShorterCalm ==
    ASSUME NEW q, Sound(q), NEW p \in Peer, q.chain[p] # <<>> PROVE Calm(q, Shorter(q, p))
<1>1. PICK r : r = Shorter(q, p)
  OBVIOUS
<1>c. q.chain \in [Peer -> Seq(Job)] /\ q.inbox \in Seq(Job)
  BY PipeFacts
<1>2. PICK chain : chain = r.chain
  OBVIOUS
<1>6. r.open = q.open /\ r.inbox = q.inbox /\ r.chain = chain
  BY <1>1, <1>2, ShorterIs
<1>7. chain[p] = Tail(q.chain[p]) /\ \A o \in Peer : o # p => chain[o] = q.chain[o]
  BY <1>1, <1>2, ShorterChain
<1>8. ASSUME NEW o \in Peer, NEW x, NEW y, Follows(r, o, x, y) PROVE Follows(q, o, x, y)
  <2>1. PICK last : last = NewJob(q.open[o], FALSE)
    OBVIOUS
  <2>2. /\ PeerOf[x[2]] = o /\ PeerOf[y[2]] = o /\ Lines(chain[o], q.inbox, last, x, y)
    BY <1>6, <1>8, <2>1 DEF Follows
  <2>3. Lines(q.chain[o], q.inbox, last, x, y)
    <3>1. CASE o = p
      <4>1. q.chain[p] \in Seq(Job)
        BY <1>c
      <4>2. Lines(Tail(q.chain[p]), q.inbox, last, x, y)
        BY <1>7, <2>2, <3>1
      <4> QED
        BY <1>c, <3>1, <4>1, <4>2, LinesShrink
    <3>2. CASE o # p
      BY <1>7, <2>2, <3>2
    <3> QED
      BY <3>1, <3>2
  <2> QED
    BY <2>1, <2>2, <2>3 DEF Follows
<1> QED
  BY <1>1, <1>8 DEF Calm

\* The first job of the inbox goes to its chain, as it is or marked as drained.
LEMMA MoveCalm ==
    ASSUME NEW q, Sound(q), q.inbox # <<>>, NEW job, WellMade(job),
           job.msgs = Head(q.inbox).msgs, job.direct = Head(q.inbox).direct
    PROVE  Calm(q, Enchain([q EXCEPT !.inbox = Tail(@)], job))
<1>1. PICK d : d = Boxed(q, Tail(q.inbox))
  OBVIOUS
<1>2. PICK r : r = Enchain(d, job)
  OBVIOUS
<1>3. PICK p : p = JobPeer(job)
  OBVIOUS
<1>4. d = [q EXCEPT !.inbox = Tail(@)]
  BY <1>1 DEF Boxed
<1>5. Sound(d)
  BY <1>4, Dequeued DEF Gives
<1>6. d.open = q.open /\ d.chain = q.chain /\ d.inbox = Tail(q.inbox)
  BY <1>1, InboxOpen
<1>7. /\ p \in Peer /\ r.open = q.open /\ r.inbox = Tail(q.inbox)
      /\ r.chain[p] = Append(q.chain[p], job)
      /\ \A o \in Peer : o # p => r.chain[o] = q.chain[o]
  <2>1. /\ p \in Peer /\ r.open = d.open /\ r.inbox = d.inbox
        /\ r.chain[p] = Append(d.chain[p], job)
        /\ \A o \in Peer : o # p => r.chain[o] = d.chain[o]
    BY <1>2, <1>3, <1>5, EnchainIs
  <2> QED
    BY <1>6, <2>1
<1>c. q.chain \in [Peer -> Seq(Job)] /\ q.inbox \in Seq(Job)
  BY PipeFacts
<1>8. ASSUME NEW o \in Peer, NEW x, NEW y, Follows(r, o, x, y) PROVE Follows(q, o, x, y)
  <2>1. PICK last : last = NewJob(q.open[o], FALSE)
    OBVIOUS
  <2>2. /\ PeerOf[x[2]] = o /\ PeerOf[y[2]] = o
        /\ Lines(r.chain[o], Tail(q.inbox), last, x, y)
    BY <1>7, <1>8, <2>1 DEF Follows
  <2>3. q.chain[o] \in Seq(Job) /\ job \in Job
    BY <1>c DEF WellMade
  <2>4. Lines(q.chain[o], q.inbox, last, x, y)
    <3>1. CASE o = p
      <4>1. Lines(Append(q.chain[o], job), Tail(q.inbox), last, x, y)
        BY <1>7, <2>2, <3>1
      <4> QED
        BY <1>c, <2>3, <4>1, LinesMove
    <3>2. CASE o # p
      <4>1. Lines(q.chain[o], Tail(q.inbox), last, x, y)
        BY <1>7, <2>2, <3>2
      <4> QED
        BY <1>c, <2>3, <4>1, LinesShrink
    <3> QED
      BY <3>1, <3>2
  <2> QED
    BY <2>1, <2>2, <2>4 DEF Follows
<1> QED
  BY <1>2, <1>4, <1>8 DEF Calm

LEMMA TakeCalm == ASSUME NEW q, Sound(q), NEW up PROVE Calm(q, TakeNext(q, up))
<1>1. CASE IdleConsumer(q, up) /\ q.inbox # <<>>
  <2>1. TakeNext(q, up) = Enchain([q EXCEPT !.inbox = Tail(@)], Head(q.inbox))
    BY <1>1 DEF TakeNext
  <2>2. WellMade(Head(q.inbox))
    BY <1>1, Dequeued
  <2> QED
    BY <1>1, <2>1, <2>2, MoveCalm
<1>2. CASE ~(IdleConsumer(q, up) /\ q.inbox # <<>>)
  <2>1. TakeNext(q, up) = q
    BY <1>2 DEF TakeNext
  <2> QED
    BY <2>1 DEF Calm
<1> QED
  BY <1>1, <1>2

LEMMA FinishCalm ==
    ASSUME NEW q, Sound(q), NEW up, NEW p \in Peer, q.chain[p] # <<>>
    PROVE  Calm(q, Finish(q, up, p))
<1>1. PICK d : d = Shorter(q, p)
  OBVIOUS
<1>2. Finish(q, up, p) = TakeNext(d, up)
  BY <1>1 DEF Finish, Shorter
<1>3. Sound(d)
  BY <1>1, Unchained DEF Gives, Shorter
<1>4. Calm(q, d) /\ Calm(d, TakeNext(d, up))
  BY <1>1, <1>3, ShorterCalm, TakeCalm
<1> QED
  BY <1>2, <1>4, CalmSteps

LEMMA DrainCalm ==
    ASSUME NEW q, Sound(q), q.inbox # <<>>
    PROVE  Calm(q, Enchain([q EXCEPT !.inbox = Tail(@)], [Head(q.inbox) EXCEPT !.drain = TRUE]))
<1>1. PICK first : first = Head(q.inbox)
  OBVIOUS
<1>2. PICK job : job = [first EXCEPT !.drain = TRUE]
  OBVIOUS
<1>3. WellMade(first)
  BY <1>1, Dequeued
<1>4. first = [msgs |-> first.msgs, direct |-> first.direct, drain |-> first.drain]
      /\ first.msgs \in Seq(Msg) /\ first.direct \in BOOLEAN
  BY <1>3 DEF WellMade, Job
<1>5. job = [msgs |-> first.msgs, direct |-> first.direct, drain |-> TRUE]
  BY <1>2, <1>4
<1>6. job \in Job /\ job.msgs = first.msgs /\ job.direct = first.direct
  BY <1>4, <1>5 DEF Job
<1>7. WellMade(job)
  BY <1>3, <1>6 DEF WellMade, JobPeer
<1> QED
  BY <1>1, <1>2, <1>6, <1>7, MoveCalm

\* A pipe that has dropped its open batch of p.
LEMMA DropCalm ==
    ASSUME NEW q, Sound(q), NEW p \in Peer PROVE Calm(q, Batched(q, p, <<>>))
<1>1. PICK r : r = Batched(q, p, <<>>)
  OBVIOUS
<1>2. PICK none : none = <<>>
  OBVIOUS
<1>3. BelongsTo(none, p)
  BY <1>2 DEF BelongsTo, ToSet
<1>4. OnBatch(q, r, p) /\ r.open[p] = none
  BY <1>1, <1>2, <1>3, BatchSound
<1>c. q.chain \in [Peer -> Seq(Job)] /\ q.inbox \in Seq(Job) /\ q.open \in [Peer -> Seq(Msg)]
  BY PipeFacts
<1>5. ASSUME NEW o \in Peer, NEW x, NEW y, Follows(r, o, x, y) PROVE Follows(q, o, x, y)
  <2>1. CASE o = p
    <3>1. PICK last : last = NewJob(q.open[o], FALSE)
      OBVIOUS
    <3>2. PICK gone : gone = NewJob(none, FALSE)
      OBVIOUS
    <3>3. gone.msgs = <<>> /\ last \in Job /\ q.chain[o] \in Seq(Job)
      BY <1>2, <1>c, <3>1, <3>2 DEF NewJob, Job
    <3>4. Lines(q.chain[o], q.inbox, gone, x, y)
      BY <1>4, <1>5, <2>1, <3>2 DEF Follows, OnBatch
    <3>5. Lines(q.chain[o], q.inbox, last, x, y)
      BY <1>c, <3>3, <3>4, LinesClose
    <3> QED
      BY <1>5, <3>1, <3>5 DEF Follows
  <2>2. CASE o # p
    BY <1>4, <1>5, <2>2 DEF Follows, OnBatch
  <2> QED
    BY <2>1, <2>2
<1> QED
  BY <1>1, <1>5 DEF Calm

LEMMA CloseCalm ==
    ASSUME NEW q, Sound(q), NEW up, NEW p \in Peer, Manned(q)
    PROVE  Calm(q, Close(q, up, p))
<1>1. CASE q.open[p] = <<>>
  BY <1>1 DEF Close, Calm
<1>2. CASE q.open[p] # <<>>
  <2>1. PICK d : d = Batched(q, p, <<>>)
    OBVIOUS
  <2>2. PICK job : job = NewJob(q.open[p], FALSE)
    OBVIOUS
  <2>3. PICK r : r = Push(d, up, job)
    OBVIOUS
  <2>4. Close(q, up, p) = r
    BY <1>2, <2>1, <2>2, <2>3 DEF Close, Batched
  <2>5. Sound(d) /\ WellMade(job) /\ OnBatch(q, d, p) /\ d.open[p] = <<>>
    BY <1>2, <2>1, <2>2, Emptied DEF Gives
  <2>c. q.chain \in [Peer -> Seq(Job)] /\ q.inbox \in Seq(Job) /\ job \in Job
    BY <2>5, PipeFacts DEF WellMade
  <2>6. JobPeer(job) = p
    <3>1. job.msgs = q.open[p] /\ q.open[p] \in Seq(Msg)
      BY <2>2, PipeFacts DEF NewJob
    <3>2. Head(job.msgs) \in ToSet(q.open[p])
      BY <1>2, <3>1 DEF ToSet
    <3> QED
      BY <3>2 DEF JobPeer, Sound, Mine
  <2>7. PICK none : none = NewJob(<<>>, FALSE)
    OBVIOUS
  <2>8. none.msgs = <<>>
    BY <2>7 DEF NewJob
  <2>9. Calm(q, d)
    BY <2>1, DropCalm
  <2>10. CASE IdleConsumer(d, up)
    <3>1. r = Enchain(d, job)
      BY <2>3, <2>10 DEF Push
    <3>2. q.inbox = <<>>
      BY <2>5, <2>10 DEF OnBatch, Manned, IdleConsumer, Occupied, Taken
    <3>3. /\ r.open = d.open /\ r.inbox = d.inbox /\ r.chain[p] = Append(d.chain[p], job)
          /\ \A o \in Peer : o # p => r.chain[o] = d.chain[o]
      BY <2>5, <2>6, <3>1, EnchainIs
    <3>4. ASSUME NEW o \in Peer, NEW x, NEW y, Follows(r, o, x, y) PROVE Follows(q, o, x, y)
      <4>1. CASE o = p
        <5>1. /\ PeerOf[x[2]] = o /\ PeerOf[y[2]] = o
              /\ Lines(Append(q.chain[p], job), q.inbox, none, x, y)
          BY <2>5, <2>7, <3>3, <3>4, <4>1 DEF Follows, OnBatch
        <5>2. q.chain[p] \in Seq(Job)
          BY <2>c
        <5>3. Lines(q.chain[p], q.inbox, job, x, y)
          BY <2>8, <2>c, <3>2, <5>1, <5>2, LinesClose
        <5> QED
          BY <2>2, <4>1, <5>1, <5>3 DEF Follows
      <4>2. CASE o # p
        BY <2>5, <3>3, <3>4, <4>2 DEF Follows, OnBatch
      <4> QED
        BY <4>1, <4>2
    <3> QED
      BY <2>4, <3>4 DEF Calm
  <2>11. CASE ~IdleConsumer(d, up) /\ Len(d.inbox) < InboxMax
    <3>1. r = Boxed(d, Append(d.inbox, job))
      BY <2>3, <2>11 DEF Push, Boxed
    <3>2. r.open = d.open /\ r.chain = d.chain /\ r.inbox = Append(d.inbox, job)
      BY <2>5, <3>1, InboxOpen
    <3>3. ASSUME NEW o \in Peer, NEW x, NEW y, Follows(r, o, x, y) PROVE Follows(q, o, x, y)
      <4>1. CASE o = p
        <5>1. /\ PeerOf[x[2]] = o /\ PeerOf[y[2]] = o
              /\ Lines(q.chain[p], Append(q.inbox, job), none, x, y)
          BY <2>5, <2>7, <3>2, <3>3, <4>1 DEF Follows, OnBatch
        <5>2. q.chain[p] \in Seq(Job)
          BY <2>c
        <5>3. Lines(q.chain[p], q.inbox, job, x, y)
          BY <2>8, <2>c, <5>1, <5>2, LinesClose
        <5> QED
          BY <2>2, <4>1, <5>1, <5>3 DEF Follows
      <4>2. CASE o # p
        <5>1. PICK last : last = NewJob(q.open[o], FALSE)
          OBVIOUS
        <5>2. /\ PeerOf[x[2]] = o /\ PeerOf[y[2]] = o
              /\ Lines(q.chain[o], Append(q.inbox, job), last, x, y)
          BY <2>5, <3>2, <3>3, <4>2, <5>1 DEF Follows, OnBatch
        <5>3. ~In(job, x) /\ ~In(job, y)
          BY <2>5, <2>6, <4>2, <5>2, ItemsPeer
        <5>4. q.chain[o] \in Seq(Job)
          BY <2>c
        <5>5. Lines(q.chain[o], q.inbox, last, x, y)
          BY <2>c, <5>2, <5>3, <5>4, LinesOthers
        <5> QED
          BY <5>1, <5>2, <5>5 DEF Follows
      <4> QED
        BY <4>1, <4>2
    <3> QED
      BY <2>4, <3>3 DEF Calm
  <2>12. CASE ~IdleConsumer(d, up) /\ ~(Len(d.inbox) < InboxMax)
    <3>1. r = d
      BY <2>3, <2>12 DEF Push
    <3> QED
      BY <2>4, <2>9, <3>1
  <2> QED
    BY <2>10, <2>11, <2>12
<1> QED
  BY <1>1, <1>2

\* A message answered without the model becomes a job of its own.
LEMMA PushAdds ==
    ASSUME NEW q, Sound(q), NEW m \in Msg, NEW job, WellMade(job), job = NewJob(<<m>>, TRUE), NEW up
    PROVE  Adds(q, Push(q, up, job), TRUE, m) \/ Push(q, up, job) = q
<1>1. PICK r : r = Push(q, up, job)
  OBVIOUS
<1>2. PICK p : p = JobPeer(job)
  OBVIOUS
<1>3. job \in Job /\ job.direct = TRUE /\ job.msgs = <<m>>
  BY DEF WellMade, NewJob
<1>d. PICK d : d = TRUE
  OBVIOUS
<1>c. q.chain \in [Peer -> Seq(Job)] /\ q.inbox \in Seq(Job)
  BY PipeFacts
<1>4. ASSUME NEW x, NEW y PROVE (In(job, x) => x = <<TRUE, m>>) /\ ~Within(job, x, y)
  <2>1. PICK ms : ms = <<m>>
    OBVIOUS
  <2>2. DOMAIN ms = {1} /\ ms[1] = m
    BY <2>1
  <2>3. \A a, b \in DOMAIN ms : ~(a < b)
    BY <2>2
  <2> QED
    BY <1>3, <2>1, <2>2, <2>3 DEF In, Within
<1>5. CASE IdleConsumer(q, up)
  <2>1. r = Enchain(q, job)
    BY <1>1, <1>5 DEF Push
  <2>2. /\ r.open = q.open /\ r.inbox = q.inbox /\ r.chain[p] = Append(q.chain[p], job)
        /\ \A o \in Peer : o # p => r.chain[o] = q.chain[o]
    BY <1>2, <2>1, EnchainIs
  <2>3. ASSUME NEW o \in Peer, NEW x, NEW y, Follows(r, o, x, y), ~Follows(q, o, x, y)
        PROVE  \/ y = <<TRUE, m>> /\ x[2] \in Held(q)
               \/ x = <<TRUE, m>> /\ y[2] \in Held(q)
    <3>1. o = p
      BY <2>2, <2>3 DEF Follows
    <3>2. PICK last : last = NewJob(q.open[o], FALSE)
      OBVIOUS
    <3>3. /\ PeerOf[x[2]] = o /\ PeerOf[y[2]] = o
          /\ Lines(Append(q.chain[o], job), q.inbox, last, x, y)
      BY <2>2, <2>3, <3>1, <3>2 DEF Follows
    <3>4. ~Lines(q.chain[o], q.inbox, last, x, y)
      BY <2>3, <3>2, <3>3 DEF Follows
    <3>5. q.chain[o] \in Seq(Job)
      BY <1>c
    <3>6. \/ Stands(q.chain[o], x) /\ In(job, y)
          \/ In(job, x) /\ (Stands(q.inbox, y) \/ In(last, y))
      <4>1. PICK c \in Seq(Job) : c = q.chain[o]
        BY <3>5
      <4>2. PICK b \in Seq(Job) : b = q.inbox
        BY <1>c
      <4>3. ~Within(job, x, y) /\ job \in Job
        BY <1>3, <1>4
      <4>4. Lines(Append(c, job), b, last, x, y)
        BY <3>3, <4>1, <4>2
      <4>5. ~Lines(c, b, last, x, y)
        BY <3>4, <4>1, <4>2
      <4>6. (Stands(c, x) /\ In(job, y)) \/ (In(job, x) /\ (Stands(b, y) \/ In(last, y)))
        BY <4>3, <4>4, <4>5, LinesGrow
      <4> QED
        BY <4>1, <4>2, <4>6
    <3>7. Stands(q.chain[o], x) => x[2] \in Held(q)
      BY ItemsHeld
    <3>8. Stands(q.inbox, y) \/ In(last, y) => y[2] \in Held(q)
      BY <3>2, ItemsHeld
    <3> QED
      BY <1>4, <3>6, <3>7, <3>8
  <2>4. Adds(q, r, d, m)
    BY <1>d, <2>3 DEF Adds
  <2> QED
    BY <1>1, <1>d, <2>4
<1>6. CASE ~IdleConsumer(q, up) /\ Len(q.inbox) < InboxMax
  <2>1. r = Boxed(q, Append(q.inbox, job))
    BY <1>1, <1>6 DEF Push, Boxed
  <2>2. r.open = q.open /\ r.chain = q.chain /\ r.inbox = Append(q.inbox, job)
    BY <2>1, InboxOpen
  <2>3. ASSUME NEW o \in Peer, NEW x, NEW y, Follows(r, o, x, y), ~Follows(q, o, x, y)
        PROVE  \/ y = <<TRUE, m>> /\ x[2] \in Held(q)
               \/ x = <<TRUE, m>> /\ y[2] \in Held(q)
    <3>2. PICK last : last = NewJob(q.open[o], FALSE)
      OBVIOUS
    <3>3. /\ PeerOf[x[2]] = o /\ PeerOf[y[2]] = o
          /\ Lines(q.chain[o], Append(q.inbox, job), last, x, y)
      BY <2>2, <2>3, <3>2 DEF Follows
    <3>4. ~Lines(q.chain[o], q.inbox, last, x, y)
      BY <2>3, <3>2, <3>3 DEF Follows
    <3>5. q.chain[o] \in Seq(Job)
      BY <1>c
    <3>6. \/ (Stands(q.chain[o], x) \/ Stands(q.inbox, x)) /\ In(job, y)
          \/ In(job, x) /\ In(last, y)
      <4>1. PICK c \in Seq(Job) : c = q.chain[o]
        BY <3>5
      <4>2. PICK b \in Seq(Job) : b = q.inbox
        BY <1>c
      <4>3. ~Within(job, x, y) /\ job \in Job
        BY <1>3, <1>4
      <4>4. Lines(c, Append(b, job), last, x, y)
        BY <3>3, <4>1, <4>2
      <4>5. ~Lines(c, b, last, x, y)
        BY <3>4, <4>1, <4>2
      <4>6. ((Stands(c, x) \/ Stands(b, x)) /\ In(job, y)) \/ (In(job, x) /\ In(last, y))
        BY <4>3, <4>4, <4>5, LinesGrow
      <4> QED
        BY <4>1, <4>2, <4>6
    <3>7. Stands(q.chain[o], x) \/ Stands(q.inbox, x) => x[2] \in Held(q)
      BY ItemsHeld
    <3>8. In(last, y) => y[2] \in Held(q)
      BY <3>2, ItemsHeld
    <3> QED
      BY <1>4, <3>6, <3>7, <3>8
  <2>4. Adds(q, r, d, m)
    BY <1>d, <2>3 DEF Adds
  <2> QED
    BY <1>1, <1>d, <2>4
<1>7. CASE ~IdleConsumer(q, up) /\ ~(Len(q.inbox) < InboxMax)
  BY <1>7 DEF Push
<1> QED
  BY <1>5, <1>6, <1>7

\* A message joins the open batch of its peer.
LEMMA AddAdds ==
    ASSUME NEW q, Sound(q), NEW m \in Msg
    PROVE  Adds(q, AddItem(q, PeerOf[m], m), FALSE, m)
<1>1. PICK p : p = PeerOf[m]
  OBVIOUS
<1>2. PICK ms : ms = q.open[p]
  OBVIOUS
<1>3. PICK items : items = Append(ms, m)
  OBVIOUS
<1>4. PICK r : r = Batched(q, p, items)
  OBVIOUS
<1>5. AddItem(q, p, m) = r
  BY <1>2, <1>3, <1>4 DEF AddItem, Batched
<1>6. p \in Peer
  BY <1>1, InboundConstants
<1>7. ms \in Seq(Msg) /\ items \in Seq(Msg)
  <2>1. ms \in Seq(Msg)
    BY <1>2, <1>6, PipeFacts
  <2> QED
    BY <1>3, <2>1
<1>8. /\ Len(ms) \in Nat /\ DOMAIN ms = 1..Len(ms) /\ DOMAIN items = 1..(Len(ms) + 1)
      /\ items[Len(ms) + 1] = m /\ \A i \in 1..Len(ms) : items[i] = ms[i]
  BY <1>3, <1>7
<1>9. \A a \in DOMAIN items : a = Len(ms) + 1 \/ a \in DOMAIN ms
  BY <1>8
<1>10. BelongsTo(items, p)
  <2>1. \A x \in ToSet(items) : x = m \/ x \in ToSet(ms)
    BY <1>8, <1>9 DEF ToSet
  <2>2. \A x \in ToSet(ms) : PeerOf[x] = p
    BY <1>2, <1>6 DEF Sound, Mine
  <2> QED
    BY <1>1, <1>7, <2>1, <2>2 DEF BelongsTo
<1>11. OnBatch(q, r, p) /\ r.open[p] = items
  BY <1>4, <1>6, <1>10, BatchSound
<1>12. PICK old : old = NewJob(ms, FALSE)
  OBVIOUS
<1>13. PICK new : new = NewJob(items, FALSE)
  OBVIOUS
<1>14. old.msgs = ms /\ old.direct = FALSE /\ new.msgs = items /\ new.direct = FALSE
  BY <1>12, <1>13 DEF NewJob
<1>15. ASSUME NEW x PROVE In(new, x) => In(old, x) \/ x = <<FALSE, m>>
  BY <1>8, <1>9, <1>14 DEF In
<1>16. ASSUME NEW x, NEW y, Within(new, x, y)
       PROVE  Within(old, x, y) \/ (In(old, x) /\ y = <<FALSE, m>>)
  <2>1. PICK a, b \in DOMAIN items : a < b /\ x = <<FALSE, items[a]>> /\ y = <<FALSE, items[b]>>
    BY <1>14, <1>16 DEF Within
  <2>2. a \in DOMAIN ms /\ items[a] = ms[a]
    BY <1>8, <1>9, <2>1
  <2>3. In(old, x)
    BY <1>14, <2>1, <2>2 DEF In
  <2>4. CASE b = Len(ms) + 1
    BY <1>8, <2>1, <2>3, <2>4
  <2>5. CASE b \in DOMAIN ms
    <3>1. items[b] = ms[b]
      BY <1>8, <2>5
    <3> QED
      BY <1>14, <2>1, <2>2, <2>5, <3>1 DEF Within
  <2> QED
    BY <1>9, <2>4, <2>5
<1>17. ASSUME NEW o \in Peer, NEW x, NEW y, Follows(r, o, x, y), ~Follows(q, o, x, y)
       PROVE  y = <<FALSE, m>> /\ x[2] \in Held(q)
  <2>1. o = p
    BY <1>11, <1>17 DEF Follows, OnBatch
  <2>2. /\ PeerOf[x[2]] = o /\ PeerOf[y[2]] = o
        /\ Lines(q.chain[o], q.inbox, new, x, y)
    BY <1>11, <1>13, <1>17, <2>1 DEF Follows, OnBatch
  <2>3. ~Lines(q.chain[o], q.inbox, old, x, y)
    BY <1>2, <1>12, <1>17, <2>1, <2>2 DEF Follows
  <2>4. /\ y = <<FALSE, m>>
        /\ Stands(q.chain[o], x) \/ Stands(q.inbox, x) \/ In(old, x)
    <3>1. In(new, y) => In(old, y) \/ y = <<FALSE, m>>
      BY <1>15
    <3>2. Within(new, x, y) => Within(old, x, y) \/ (In(old, x) /\ y = <<FALSE, m>>)
      BY <1>16
    <3> QED
      BY <2>2, <2>3, <3>1, <3>2 DEF Lines
  <2> QED
    BY <1>2, <1>12, <2>1, <2>4, ItemsHeld
<1> QED
  BY <1>1, <1>5, <1>17 DEF Adds

-----------------------------------------------------------------------------
(* The limits of a pipe                                                    *)

\* The places on the chains of jobs a consumer waits for, or the drain.
Loaded(q, d) == {s \in Peer \X Nat : s[2] \in DOMAIN q.chain[s[1]] /\ q.chain[s[1]][s[2]].drain = d}
Bounded(S, n) == IsFiniteSet(S) /\ Cardinality(S) <= n

Room(q) ==
    /\ Len(q.inbox) <= InboxMax /\ \A i \in DOMAIN q.inbox : ~q.inbox[i].drain
    /\ Bounded(Loaded(q, FALSE), Consumers) /\ Bounded(Loaded(q, TRUE), 1)

\* The job with number i of a chain is one of them.
Counted(jobs, d, i) == i \in DOMAIN jobs /\ jobs[i].drain = d

LEMMA OnPeer ==
    ASSUME NEW q, NEW d, NEW p \in Peer, NEW i \in Nat
    PROVE  <<p, i>> \in Loaded(q, d) <=> Counted(q.chain[p], d, i)
BY DEF Loaded, Counted

\* No chain is longer than the consumers and the drain can make it, so that Taken
\* misses none of its jobs.
LEMMA ChainShort ==
    ASSUME NEW q, Sound(q), Room(q), NEW p \in Peer PROVE Len(q.chain[p]) <= Consumers + 1
<1>1. PICK jobs \in Seq(Job) : jobs = q.chain[p]
  BY PipeFacts
<1>2. PICK n \in Nat : n = Len(jobs) /\ DOMAIN jobs = 1..n
  BY <1>1
<1>3. PICK U : U = Loaded(q, FALSE) \cup Loaded(q, TRUE)
  OBVIOUS
<1> DEFINE f == [i \in 1..n |-> <<p, i>>]
<1>4. IsFiniteSet(U) /\ Cardinality(U) <= Consumers + 1
  <2>1. PICK S : S = Loaded(q, FALSE)
    OBVIOUS
  <2>2. PICK T : T = Loaded(q, TRUE)
    OBVIOUS
  <2>3. IsFiniteSet(S) /\ Cardinality(S) <= Consumers /\ IsFiniteSet(T) /\ Cardinality(T) <= 1
    BY <2>1, <2>2 DEF Room, Bounded
  <2>4. IsFiniteSet(S \cap T)
    BY <2>3, FS_Subset
  <2>5. Cardinality(S) \in Nat /\ Cardinality(T) \in Nat /\ Cardinality(S \cap T) \in Nat
    BY <2>3, <2>4, FS_CardinalityType
  <2>6. /\ IsFiniteSet(S \cup T)
        /\ Cardinality(S \cup T) = Cardinality(S) + Cardinality(T) - Cardinality(S \cap T)
    BY <2>3, FS_Union
  <2>7. U = S \cup T /\ Consumers \in Nat
    BY <1>3, <2>1, <2>2, InboundConstants
  <2> QED
    BY <2>3, <2>5, <2>6, <2>7
<1>5. ASSUME NEW i \in 1..n PROVE <<p, i>> \in U
  <2>1. i \in Nat /\ jobs[i] \in Job
    BY <1>2
  <2>2. jobs[i].drain \in BOOLEAN
    BY <2>1 DEF Job
  <2> QED
    BY <1>1, <1>2, <1>3, <2>1, <2>2, OnPeer DEF Counted
<1>6. f \in Injection(1..n, U)
  <2>1. f \in [1..n -> U]
    BY <1>5
  <2>2. \A a, b \in 1..n : f[a] = f[b] => a = b
    OBVIOUS
  <2> QED
    BY <2>1, <2>2 DEF Injection, IsInjective
<1> HIDE DEF f
<1>7. Cardinality(1..n) <= Cardinality(U)
  BY <1>4, <1>6, FS_Injection
<1>8. Cardinality(1..n) = n
  BY FS_Interval
<1>9. Cardinality(U) \in Nat
  BY <1>4, FS_CardinalityType
<1> QED
  BY <1>1, <1>2, <1>4, <1>7, <1>8, <1>9, InboundConstants

LEMMA TakenIs ==
    ASSUME NEW q, Sound(q), Room(q), NEW d PROVE Taken(q, d) = Loaded(q, d)
<1>1. ASSUME NEW s \in Peer \X Nat, s[2] \in DOMAIN q.chain[s[1]]
      PROVE  s \in Peer \X (1..(Consumers + 1))
  <2>1. PICK p \in Peer, i \in Nat : s = <<p, i>>
    OBVIOUS
  <2>2. q.chain[p] \in Seq(Job) /\ i \in DOMAIN q.chain[p]
    BY <1>1, <2>1, PipeFacts
  <2>3. i \in 1..Len(q.chain[p]) /\ Len(q.chain[p]) \in Nat
    BY <2>2
  <2>4. Len(q.chain[p]) <= Consumers + 1
    BY ChainShort
  <2>5. i \in 1..(Consumers + 1)
    BY <2>3, <2>4, InboundConstants
  <2> QED
    BY <2>1, <2>5
<1>2. \A s \in Peer \X (1..(Consumers + 1)) : s \in Peer \X Nat
  OBVIOUS
<1> QED
  BY <1>1, <1>2 DEF Taken, Loaded

\* A job joins the end of a chain.
LEMMA LoadedMore ==
    ASSUME NEW q, Sound(q), NEW job, WellMade(job), NEW d
    PROVE  LET s == <<JobPeer(job), Len(q.chain[JobPeer(job)]) + 1>>
           IN  /\ s \notin Loaded(q, d)
               /\ Loaded(Enchain(q, job), d) =
                    IF job.drain = d THEN Loaded(q, d) \cup {s} ELSE Loaded(q, d)
<1>1. PICK p : p = JobPeer(job)
  OBVIOUS
<1>2. PICK r : r = Enchain(q, job)
  OBVIOUS
<1>3. /\ p \in Peer /\ r.chain[p] = Append(q.chain[p], job)
      /\ \A o \in Peer : o # p => r.chain[o] = q.chain[o]
  BY <1>1, <1>2, EnchainIs
<1>4. PICK jobs \in Seq(Job) : jobs = q.chain[p]
  BY <1>3, PipeFacts
<1>5. PICK n \in Nat : n = Len(jobs) /\ DOMAIN jobs = 1..n
  BY <1>4
<1>6. PICK new : new = Append(jobs, job)
  OBVIOUS
<1>7. DOMAIN new = 1..(n + 1) /\ new[n + 1] = job /\ \A i \in 1..n : new[i] = jobs[i]
  BY <1>4, <1>5, <1>6
<1>8. ASSUME NEW o \in Peer, NEW i \in Nat
      PROVE  <<o, i>> \in Loaded(r, d) <=>
               <<o, i>> \in Loaded(q, d) \/ (o = p /\ i = n + 1 /\ job.drain = d)
  <2>1. CASE o # p
    <3>1. r.chain[o] = q.chain[o]
      BY <1>3, <2>1
    <3>2. <<o, i>> \in Loaded(r, d) <=> Counted(q.chain[o], d, i)
      BY <3>1, OnPeer
    <3> QED
      BY <2>1, <3>2, OnPeer
  <2>2. CASE o = p
    <3>1. i \in DOMAIN new <=> i \in DOMAIN jobs \/ i = n + 1
      BY <1>5, <1>7
    <3>2. n + 1 \notin DOMAIN jobs
      BY <1>5
    <3>3. r.chain[o] = new /\ q.chain[o] = jobs
      BY <1>3, <1>4, <1>6, <2>2
    <3>4. <<o, i>> \in Loaded(r, d) <=> Counted(new, d, i)
      BY <3>3, OnPeer
    <3>5. <<o, i>> \in Loaded(q, d) <=> Counted(jobs, d, i)
      BY <3>3, OnPeer
    <3>6. Counted(new, d, i) <=> Counted(jobs, d, i) \/ (i = n + 1 /\ job.drain = d)
      BY <1>5, <1>7, <3>1, <3>2 DEF Counted
    <3> QED
      BY <2>2, <3>4, <3>5, <3>6
  <2> QED
    BY <2>1, <2>2
<1>9. <<p, n + 1>> \notin Loaded(q, d)
  <2>1. n + 1 \notin DOMAIN jobs
    BY <1>5
  <2>2. ~Counted(jobs, d, n + 1)
    BY <2>1 DEF Counted
  <2>3. n + 1 \in Nat
    OBVIOUS
  <2> QED
    BY <1>3, <1>4, <2>2, <2>3, OnPeer
<1>10. \A s \in Loaded(r, d) \cup Loaded(q, d) : \E o \in Peer, i \in Nat : s = <<o, i>>
  BY DEF Loaded
<1>11. ASSUME NEW s
       PROVE  s \in Loaded(r, d) <=> s \in Loaded(q, d) \/ (s = <<p, n + 1>> /\ job.drain = d)
  <2>1. ASSUME s \in Loaded(r, d)
        PROVE  s \in Loaded(q, d) \/ (s = <<p, n + 1>> /\ job.drain = d)
    BY <1>8, <1>10, <2>1
  <2>2. ASSUME s \in Loaded(q, d) PROVE s \in Loaded(r, d)
    BY <1>8, <1>10, <2>2
  <2>3. ASSUME s = <<p, n + 1>>, job.drain = d PROVE s \in Loaded(r, d)
    BY <1>3, <1>5, <1>8, <2>3
  <2> QED
    BY <2>1, <2>2, <2>3
<1>12. Loaded(r, d) = IF job.drain = d THEN Loaded(q, d) \cup {<<p, n + 1>>} ELSE Loaded(q, d)
  <2>1. CASE job.drain = d
    BY <1>11, <2>1
  <2>2. CASE job.drain # d
    BY <1>11, <2>2
  <2> QED
    BY <2>1, <2>2
<1> QED
  BY <1>1, <1>2, <1>4, <1>5, <1>9, <1>12

\* The job at the head of the chain of p is over.
LEMMA LoadedLess ==
    ASSUME NEW q, Sound(q), NEW p \in Peer, q.chain[p] # <<>>, NEW d, IsFiniteSet(Loaded(q, d))
    PROVE  /\ IsFiniteSet(Loaded(Shorter(q, p), d))
           /\ Cardinality(Loaded(Shorter(q, p), d)) <= Cardinality(Loaded(q, d))
           /\ Cardinality(Loaded(Shorter(q, p), d)) >= Cardinality(Loaded(q, d)) - 1
<1>1. PICK r : r = Shorter(q, p)
  OBVIOUS
<1>2. PICK jobs \in Seq(Job) : jobs = q.chain[p]
  BY PipeFacts
<1>3. PICK rest : rest = Tail(jobs)
  OBVIOUS
<1>4. PICK n \in Nat \ {0} : n = Len(jobs) /\ DOMAIN jobs = 1..n
  BY <1>2
<1>5. DOMAIN rest = 1..(n - 1) /\ \A i \in 1..(n - 1) : rest[i] = jobs[i + 1]
  BY <1>2, <1>3, <1>4
<1>6. r.chain[p] = rest /\ \A o \in Peer : o # p => r.chain[o] = q.chain[o]
  BY <1>1, <1>2, <1>3, ShorterChain
<1>7. PICK x : x = <<p, 1>>
  OBVIOUS
<1>8. PICK S : S = Loaded(r, d)
  OBVIOUS
<1>9. PICK T : T = Loaded(q, d) \ {x}
  OBVIOUS
<1>10. /\ IsFiniteSet(T)
       /\ Cardinality(T) = IF x \in Loaded(q, d) THEN Cardinality(Loaded(q, d)) - 1
                           ELSE Cardinality(Loaded(q, d))
  BY <1>9, FS_RemoveElement
<1> DEFINE f == [s \in S |-> IF s[1] = p THEN <<p, s[2] + 1>> ELSE s]
<1>11. ASSUME NEW i \in Nat
       PROVE  <<p, i>> \in S <=> <<p, i + 1>> \in T
  <2>1. <<p, i>> \in S <=> Counted(rest, d, i)
    BY <1>6, <1>8, OnPeer
  <2>2. PICK j \in Nat : j = i + 1
    OBVIOUS
  <2>3. <<p, j>> \in Loaded(q, d) <=> Counted(jobs, d, j)
    BY <1>2, OnPeer
  <2>4. <<p, j>> = x <=> i = 0
    BY <1>7, <2>2
  <2>5. i \in 1..(n - 1) <=> j \in 1..n /\ i # 0
    BY <1>4, <2>2
  <2>6. Counted(rest, d, i) <=> Counted(jobs, d, j) /\ i # 0
    BY <1>4, <1>5, <2>2, <2>5 DEF Counted
  <2>7. <<p, j>> \in T <=> <<p, j>> \in Loaded(q, d) /\ <<p, j>> # x
    BY <1>9
  <2> QED
    BY <2>1, <2>2, <2>3, <2>4, <2>6, <2>7
<1>12. ASSUME NEW o \in Peer, o # p, NEW i \in Nat
       PROVE  <<o, i>> \in S <=> <<o, i>> \in T
  <2>1. <<o, i>> # x
    BY <1>7, <1>12
  <2>2. r.chain[o] = q.chain[o]
    BY <1>6, <1>12
  <2>3. <<o, i>> \in S <=> Counted(q.chain[o], d, i)
    BY <1>8, <2>2, OnPeer
  <2>4. <<o, i>> \in Loaded(q, d) <=> Counted(q.chain[o], d, i)
    BY OnPeer
  <2> QED
    BY <1>9, <2>1, <2>3, <2>4
<1>13. \A s \in S : \E o \in Peer, i \in Nat : s = <<o, i>>
  BY <1>8 DEF Loaded
<1>14. \A s \in T : \E o \in Peer, i \in Nat : s = <<o, i>>
  BY <1>9 DEF Loaded
<1>15. f \in [S -> T]
  <2> SUFFICES ASSUME NEW s \in S PROVE f[s] \in T
    OBVIOUS
  <2>1. PICK o \in Peer, i \in Nat : s = <<o, i>>
    BY <1>13
  <2>2. CASE o = p
    BY <1>11, <2>1, <2>2
  <2>3. CASE o # p
    BY <1>12, <2>1, <2>3
  <2> QED
    BY <2>2, <2>3
<1>16. ASSUME NEW s \in S, NEW t \in S, f[s] = f[t] PROVE s = t
  <2>1. PICK o \in Peer, i \in Nat : s = <<o, i>>
    BY <1>13
  <2>2. PICK u \in Peer, j \in Nat : t = <<u, j>>
    BY <1>13
  <2>3. f[s] = IF o = p THEN <<p, i + 1>> ELSE <<o, i>>
    BY <2>1
  <2>4. f[t] = IF u = p THEN <<p, j + 1>> ELSE <<u, j>>
    BY <2>2
  <2> QED
    BY <1>16, <2>1, <2>2, <2>3, <2>4
<1>17. ASSUME NEW t \in T PROVE \E s \in S : f[s] = t
  <2>1. PICK u \in Peer, j \in Nat : t = <<u, j>>
    BY <1>14
  <2>2. CASE u = p
    <3>1. j # 0
      <4>1. j \in DOMAIN q.chain[p]
        BY <1>9, <2>1, <2>2, OnPeer DEF Counted
      <4> QED
        BY <1>2, <1>4, <4>1
    <3>2. PICK i \in Nat : j = i + 1
      <4>1. j - 1 \in Nat /\ j = (j - 1) + 1
        BY <3>1
      <4> QED
        BY <4>1
    <3>3. <<p, i>> \in S
      BY <1>11, <2>1, <2>2, <3>2
    <3>4. f[<<p, i>>] = t
      BY <2>1, <2>2, <3>2, <3>3
    <3> QED
      BY <3>3, <3>4
  <2>3. CASE u # p
    <3>1. t \in S
      BY <1>12, <2>1, <2>3
    <3>2. f[t] = t
      BY <2>1, <2>3, <3>1
    <3> QED
      BY <3>1, <3>2
  <2> QED
    BY <2>2, <2>3
<1>18. f \in Injection(S, T) /\ f \in Surjection(S, T)
  BY <1>15, <1>16, <1>17 DEF Injection, IsInjective, Surjection
<1> HIDE DEF f
<1>19. IsFiniteSet(S) /\ Cardinality(S) = Cardinality(T)
  BY <1>10, <1>18, FS_Injection
<1>20. Cardinality(Loaded(q, d)) \in Nat
  BY FS_CardinalityType
<1> QED
  BY <1>1, <1>8, <1>10, <1>19, <1>20

LEMMA RoomFacts ==
    ASSUME NEW q, Sound(q), Room(q)
    PROVE  /\ Occupied(q) = Cardinality(Loaded(q, FALSE)) /\ Occupied(q) \in Nat
           /\ Occupied(q) <= Consumers /\ Consumers \in Nat \ {0} /\ InboxMax \in Nat \ {0}
           /\ q.inbox \in Seq(Job) /\ q.chain \in [Peer -> Seq(Job)]
<1>1. PICK d : d = FALSE
  OBVIOUS
<1>2. Taken(q, d) = Loaded(q, d)
  BY TakenIs
<1>3. IsFiniteSet(Loaded(q, d)) /\ Cardinality(Loaded(q, d)) <= Consumers
  BY <1>1 DEF Room, Bounded
<1>4. Cardinality(Loaded(q, d)) \in Nat
  BY <1>3, FS_CardinalityType
<1> QED
  BY <1>1, <1>2, <1>3, <1>4, PipeFacts, InboundConstants DEF Occupied

\* Pipes with the same chains have the same load.
LEMMA SameLoad ==
    ASSUME NEW q, NEW r, r.chain = q.chain
    PROVE  Occupied(r) = Occupied(q) /\ \A d : Loaded(r, d) = Loaded(q, d)
BY DEF Occupied, Taken, Loaded

\* A consumer, or the drain, puts a job on its chain.
LEMMA RoomEnchain ==
    ASSUME NEW q, Sound(q), Room(q), NEW job, WellMade(job),
           \/ job.drain = FALSE /\ Occupied(q) < Consumers
           \/ job.drain = TRUE /\ Taken(q, TRUE) = {}
    PROVE  /\ Room(Enchain(q, job))
           /\ job.drain = FALSE => Occupied(Enchain(q, job)) = Occupied(q) + 1
<1>1. PICK r : r = Enchain(q, job)
  OBVIOUS
<1>2. PICK s : s = <<JobPeer(job), Len(q.chain[JobPeer(job)]) + 1>>
  OBVIOUS
<1>3. \A d : /\ s \notin Loaded(q, d)
             /\ Loaded(r, d) = IF job.drain = d THEN Loaded(q, d) \cup {s} ELSE Loaded(q, d)
  BY <1>1, <1>2, LoadedMore
<1>4. r.inbox = q.inbox /\ Sound(r)
  BY <1>1, EnchainIs
<1>5. \A d \in BOOLEAN : IsFiniteSet(Loaded(q, d)) /\ Cardinality(Loaded(q, d)) \in Nat
  BY FS_CardinalityType DEF Room, Bounded
<1>6. CASE job.drain = FALSE /\ Occupied(q) < Consumers
  <2>1. PICK S : S = Loaded(q, FALSE)
    OBVIOUS
  <2>2. IsFiniteSet(S) /\ s \notin S /\ Loaded(r, FALSE) = S \cup {s}
    BY <1>3, <1>5, <1>6, <2>1
  <2>3. IsFiniteSet(S \cup {s}) /\ Cardinality(S \cup {s}) = Cardinality(S) + 1
    BY <2>2, FS_AddElement
  <2>4. Cardinality(S) = Occupied(q) /\ Occupied(q) \in Nat /\ Consumers \in Nat
    BY <2>1, RoomFacts
  <2>5. Bounded(Loaded(r, FALSE), Consumers) /\ Cardinality(Loaded(r, FALSE)) = Occupied(q) + 1
    <3>1. PICK T : T = Loaded(r, FALSE)
      OBVIOUS
    <3>2. IsFiniteSet(T) /\ Cardinality(T) = Occupied(q) + 1
      BY <2>2, <2>3, <2>4, <3>1
    <3>3. Bounded(T, Consumers)
      BY <1>6, <2>4, <3>2 DEF Bounded
    <3> QED
      BY <3>1, <3>2, <3>3
  <2>6. Bounded(Loaded(r, TRUE), 1)
    BY <1>3, <1>6 DEF Room
  <2>7. Room(r)
    BY <1>4, <2>5, <2>6 DEF Room
  <2>8. Occupied(r) = Cardinality(Loaded(r, FALSE))
    BY <1>4, <2>7, RoomFacts
  <2> QED
    BY <1>1, <2>5, <2>7, <2>8
<1>7. CASE job.drain = TRUE /\ Taken(q, TRUE) = {}
  <2>1. PICK d : d = TRUE
    OBVIOUS
  <2>2. Loaded(q, d) = {}
    BY <1>7, <2>1, TakenIs
  <2>3. Loaded(r, d) = {s}
    BY <1>3, <1>7, <2>1, <2>2
  <2>4. Bounded(Loaded(r, TRUE), 1)
    <3>1. PICK T : T = {s}
      OBVIOUS
    <3>2. IsFiniteSet(T) /\ Cardinality(T) = 1
      BY <3>1, FS_Singleton
    <3>3. Bounded(T, 1)
      BY <3>2 DEF Bounded
    <3> QED
      BY <2>1, <2>3, <3>1, <3>3
  <2>5. Bounded(Loaded(r, FALSE), Consumers)
    BY <1>3, <1>7 DEF Room
  <2>6. Room(r)
    BY <1>4, <2>4, <2>5 DEF Room
  <2> QED
    BY <1>1, <1>7, <2>6
<1> QED
  BY <1>6, <1>7

\* A job is over: at most one place is free after it that was not before.
LEMMA RoomShorter ==
    ASSUME NEW q, Sound(q), Room(q), NEW p \in Peer, q.chain[p] # <<>>
    PROVE  Room(Shorter(q, p)) /\ Occupied(q) <= Occupied(Shorter(q, p)) + 1
<1>1. PICK r : r = Shorter(q, p)
  OBVIOUS
<1>2. r.inbox = q.inbox /\ Sound(r)
  BY <1>1, ShorterIs, Unchained DEF Gives, Shorter
<1>3. ASSUME NEW d \in BOOLEAN, NEW n \in Nat, Bounded(Loaded(q, d), n)
      PROVE  /\ Bounded(Loaded(r, d), n)
             /\ Cardinality(Loaded(q, d)) <= Cardinality(Loaded(r, d)) + 1
  <2>1. IsFiniteSet(Loaded(q, d)) /\ Cardinality(Loaded(q, d)) <= n
    BY <1>3 DEF Bounded
  <2>2. /\ IsFiniteSet(Loaded(r, d)) /\ Cardinality(Loaded(r, d)) <= Cardinality(Loaded(q, d))
        /\ Cardinality(Loaded(r, d)) >= Cardinality(Loaded(q, d)) - 1
    BY <1>1, <2>1, LoadedLess
  <2>3. Cardinality(Loaded(q, d)) \in Nat /\ Cardinality(Loaded(r, d)) \in Nat
    BY <2>1, <2>2, FS_CardinalityType
  <2> QED
    BY <2>1, <2>2, <2>3 DEF Bounded
<1>4. Consumers \in Nat /\ 1 \in Nat
  BY InboundConstants
<1>5. Room(r)
  BY <1>2, <1>3, <1>4 DEF Room
<1>6. Occupied(q) = Cardinality(Loaded(q, FALSE)) /\ Occupied(r) = Cardinality(Loaded(r, FALSE))
  BY <1>2, <1>5, RoomFacts
<1>7. Cardinality(Loaded(q, FALSE)) <= Cardinality(Loaded(r, FALSE)) + 1
  BY <1>3, <1>4 DEF Room
<1> QED
  BY <1>1, <1>5, <1>6, <1>7

\* A job is taken out of the inbox, or put into it.
LEMMA RoomDequeue ==
    ASSUME NEW q, Sound(q), Room(q), q.inbox # <<>>
    PROVE  /\ Room(Boxed(q, Tail(q.inbox))) /\ Sound(Boxed(q, Tail(q.inbox)))
           /\ WellMade(Head(q.inbox)) /\ Head(q.inbox).drain = FALSE
<1>1. PICK r : r = Boxed(q, Tail(q.inbox))
  OBVIOUS
<1>2. r.chain = q.chain /\ r.inbox = Tail(q.inbox)
  BY <1>1, InboxOpen
<1>3. PICK b \in Seq(Job) : b = q.inbox
  BY PipeFacts
<1>4. /\ Len(b) \in Nat \ {0} /\ DOMAIN b = 1..Len(b) /\ Head(b) = b[1]
      /\ Len(Tail(b)) = Len(b) - 1 /\ DOMAIN Tail(b) = 1..(Len(b) - 1)
      /\ \A i \in 1..(Len(b) - 1) : Tail(b)[i] = b[i + 1] /\ i + 1 \in 1..Len(b)
  BY <1>3
<1>5. Len(b) <= InboxMax /\ \A i \in DOMAIN b : ~b[i].drain
  BY <1>3 DEF Room
<1>6. Len(r.inbox) <= InboxMax /\ \A i \in DOMAIN r.inbox : ~r.inbox[i].drain
  BY <1>2, <1>3, <1>4, <1>5, InboundConstants
<1>7. Room(r)
  BY <1>2, <1>6, SameLoad DEF Room
<1>8. Sound(r) /\ WellMade(Head(q.inbox))
  <2>1. r = [q EXCEPT !.inbox = Tail(@)]
    BY <1>1 DEF Boxed
  <2> QED
    BY <2>1, Dequeued DEF Gives
<1>9. Head(q.inbox).drain = FALSE
  <2>1. Head(q.inbox).drain \in BOOLEAN
    BY <1>8 DEF WellMade, Job
  <2>2. 1 \in DOMAIN b
    BY <1>4
  <2> QED
    BY <1>3, <1>4, <1>5, <2>1, <2>2
<1> QED
  BY <1>1, <1>7, <1>8, <1>9

LEMMA RoomQueue ==
    ASSUME NEW q, Sound(q), Room(q), NEW job, WellMade(job), job.drain = FALSE,
           Len(q.inbox) < InboxMax
    PROVE  Room(Boxed(q, Append(q.inbox, job)))
<1>1. PICK r : r = Boxed(q, Append(q.inbox, job))
  OBVIOUS
<1>2. r.chain = q.chain /\ r.inbox = Append(q.inbox, job)
  BY <1>1, InboxOpen
<1>3. PICK b \in Seq(Job) : b = q.inbox
  BY PipeFacts
<1>4. PICK new : new = Append(b, job)
  OBVIOUS
<1>5. /\ Len(b) \in Nat /\ DOMAIN b = 1..Len(b) /\ DOMAIN new = 1..(Len(b) + 1)
      /\ Len(new) = Len(b) + 1 /\ new[Len(b) + 1] = job /\ \A i \in 1..Len(b) : new[i] = b[i]
  BY <1>3, <1>4
<1>6. \A i \in DOMAIN new : i = Len(b) + 1 \/ i \in DOMAIN b
  BY <1>5
<1>7. Len(new) <= InboxMax
  BY <1>3, <1>5, InboundConstants
<1>8. \A i \in DOMAIN new : ~new[i].drain
  BY <1>3, <1>5, <1>6 DEF Room
<1> QED
  BY <1>1, <1>2, <1>3, <1>4, <1>7, <1>8, SameLoad DEF Room

\* A pipe within its limits; on a running node no consumer waits beside a job.
Fit(q) == Sound(q) /\ Room(q) /\ Manned(q)

LEMMA RoomPush ==
    ASSUME NEW q, Sound(q), Room(q), NEW job, WellMade(job), job.drain = FALSE, NEW up
    PROVE  /\ Room(Push(q, up, job))
           /\ up = TRUE /\ Manned(q) => Manned(Push(q, up, job))
<1>1. PICK r : r = Push(q, up, job)
  OBVIOUS
<1>2. CASE IdleConsumer(q, up)
  <2>1. r = Enchain(q, job) /\ Occupied(q) < Consumers
    BY <1>1, <1>2 DEF Push, IdleConsumer
  <2>2. Room(r) /\ r.inbox = q.inbox
    BY <2>1, RoomEnchain, EnchainIs
  <2>3. Manned(q) => Manned(r)
    BY <2>1, <2>2 DEF Manned
  <2> QED
    BY <1>1, <2>2, <2>3
<1>3. CASE ~IdleConsumer(q, up) /\ Len(q.inbox) < InboxMax
  <2>1. r = Boxed(q, Append(q.inbox, job))
    BY <1>1, <1>3 DEF Push, Boxed
  <2>2. Room(r) /\ r.chain = q.chain
    BY <1>3, <2>1, RoomQueue, InboxOpen
  <2>3. up = TRUE => Manned(r)
    BY <1>3, <2>2, SameLoad DEF Manned, IdleConsumer
  <2> QED
    BY <1>1, <2>2, <2>3
<1>4. CASE ~IdleConsumer(q, up) /\ ~(Len(q.inbox) < InboxMax)
  BY <1>4 DEF Push
<1> QED
  BY <1>2, <1>3, <1>4

LEMMA RoomTake ==
    ASSUME NEW q, Sound(q), Room(q), NEW up
    PROVE  /\ Room(TakeNext(q, up))
           /\ up = TRUE /\ (q.inbox # <<>> => Consumers <= Occupied(q) + 1) => Manned(TakeNext(q, up))
<1>1. CASE IdleConsumer(q, up) /\ q.inbox # <<>>
  <2>1. PICK d : d = Boxed(q, Tail(q.inbox))
    OBVIOUS
  <2>2. PICK job : job = Head(q.inbox)
    OBVIOUS
  <2>3. TakeNext(q, up) = Enchain(d, job)
    BY <1>1, <2>1, <2>2 DEF TakeNext, Boxed
  <2>4. Room(d) /\ Sound(d) /\ WellMade(job) /\ job.drain = FALSE
    BY <1>1, <2>1, <2>2, RoomDequeue
  <2>5. Occupied(d) = Occupied(q) /\ Occupied(q) < Consumers
    BY <1>1, <2>1, InboxOpen, SameLoad DEF IdleConsumer
  <2>6. Room(Enchain(d, job)) /\ Occupied(Enchain(d, job)) = Occupied(q) + 1
    BY <2>4, <2>5, RoomEnchain
  <2>7. Consumers <= Occupied(q) + 1 => ~(Occupied(q) + 1 < Consumers)
    <3>1. PICK k : k = Occupied(q)
      OBVIOUS
    <3>2. k \in Nat /\ Consumers \in Nat
      BY <3>1, RoomFacts
    <3>3. Consumers <= k + 1 => ~(k + 1 < Consumers)
      BY <3>2
    <3> QED
      BY <3>1, <3>3
  <2>8. Consumers <= Occupied(q) + 1 => Manned(Enchain(d, job))
    BY <2>6, <2>7 DEF Manned
  <2> QED
    BY <1>1, <2>3, <2>6, <2>8
<1>2. CASE ~(IdleConsumer(q, up) /\ q.inbox # <<>>)
  BY <1>2 DEF TakeNext, Manned, IdleConsumer
<1> QED
  BY <1>1, <1>2

LEMMA RoomFinish ==
    ASSUME NEW q, Sound(q), Room(q), NEW p \in Peer, q.chain[p] # <<>>, NEW up
    PROVE  /\ Room(Finish(q, up, p))
           /\ up = TRUE /\ Manned(q) => Manned(Finish(q, up, p))
<1>1. PICK d : d = Shorter(q, p)
  OBVIOUS
<1>2. Finish(q, up, p) = TakeNext(d, up)
  BY <1>1 DEF Finish, Shorter
<1>3. Room(d) /\ Occupied(q) <= Occupied(d) + 1
  BY <1>1, RoomShorter
<1>4. Sound(d) /\ d.inbox = q.inbox
  BY <1>1, Unchained, ShorterIs DEF Gives, Shorter
<1>5. ASSUME Manned(q), d.inbox # <<>> PROVE Consumers <= Occupied(d) + 1
  <2>1. ~(Occupied(q) < Consumers)
    BY <1>4, <1>5 DEF Manned
  <2>2. Occupied(q) \in Nat /\ Occupied(d) \in Nat /\ Consumers \in Nat
    BY <1>3, <1>4, RoomFacts
  <2> QED
    BY <1>3, <2>1, <2>2
<1> QED
  BY <1>2, <1>3, <1>4, <1>5, RoomTake

LEMMA FitClose ==
    ASSUME NEW q, Fit(q), NEW p \in Peer, NEW up, up = TRUE
    PROVE  Fit(Close(q, up, p)) /\ Calm(q, Close(q, up, p))
<1>1. Sound(q) /\ Room(q) /\ Manned(q)
  BY DEF Fit
<1>2. Sound(Close(q, up, p)) /\ Calm(q, Close(q, up, p))
  BY <1>1, Closed, CloseCalm DEF Loses
<1>3. Room(Close(q, up, p)) /\ Manned(Close(q, up, p))
  <2>1. CASE q.open[p] = <<>>
    BY <1>1, <2>1 DEF Close
  <2>2. CASE q.open[p] # <<>>
    <3>1. PICK d : d = Batched(q, p, <<>>)
      OBVIOUS
    <3>2. PICK job : job = NewJob(q.open[p], FALSE)
      OBVIOUS
    <3>3. Close(q, up, p) = Push(d, up, job)
      BY <2>2, <3>1, <3>2 DEF Close, Batched
    <3>4. Sound(d) /\ WellMade(job) /\ OnBatch(q, d, p)
      BY <1>1, <2>2, <3>1, <3>2, Emptied DEF Gives
    <3>5. job.drain = FALSE
      BY <3>2 DEF NewJob
    <3>6. d.chain = q.chain /\ d.inbox = q.inbox
      BY <3>4 DEF OnBatch
    <3>7. Room(d) /\ Manned(d)
      BY <1>1, <3>6, SameLoad DEF Room, Manned
    <3> QED
      BY <3>3, <3>4, <3>5, <3>7, RoomPush
  <2> QED
    BY <2>1, <2>2
<1> QED
  BY <1>2, <1>3 DEF Fit

LEMMA FitFlush ==
    ASSUME NEW q, Fit(q), NEW order \in SetToSeqs(Peer)
    PROVE  Fit(Flush(q, order)) /\ Calm(q, Flush(q, order))
<1>1. PICK n : n = Cardinality(Peer)
  OBVIOUS
<1>2. n \in Nat /\ order \in [1..n -> Peer] /\ Len(order) = n
  <2>1. n \in Nat
    BY <1>1, InboundConstants, FS_CardinalityType
  <2>2. order \in [1..n -> Peer]
    BY <1>1 DEF SetToSeqs
  <2> QED
    BY <2>1, <2>2
<1>3. PICK f : f = Flushed(q, order)
  OBVIOUS
<1>4. OneByOne(q, order, f)
  BY <1>2, <1>3, FlushedIs
<1>5. f[0] = q /\ \A i \in 1..n : f[i] = Close(f[i - 1], TRUE, order[i])
  BY <1>2, <1>4 DEF OneByOne
<1> DEFINE Good == {i \in Nat : Fit(f[i]) /\ Calm(q, f[i])}
<1>6. 0 \in Good
  BY <1>5 DEF Calm
<1>7. ASSUME NEW i \in 1..n, i - 1 \in Good PROVE i \in Good
  <2>1. PICK s : s = f[i - 1]
    OBVIOUS
  <2>2. PICK up : up = TRUE
    OBVIOUS
  <2>3. PICK p \in Peer : p = order[i]
    BY <1>2
  <2>4. Fit(s) /\ Calm(q, s) /\ f[i] = Close(s, up, p) /\ i \in Nat
    <3>1. Fit(s) /\ Calm(q, s)
      BY <1>7, <2>1
    <3>2. f[i] = Close(f[i - 1], TRUE, order[i])
      BY <1>5
    <3>3. f[i] = Close(s, up, p)
      BY <2>1, <2>2, <2>3, <3>2
    <3> QED
      BY <1>2, <3>1, <3>3
  <2>5. Fit(f[i]) /\ Calm(s, f[i])
    BY <2>2, <2>4, FitClose
  <2> QED
    BY <2>4, <2>5, CalmSteps
<1>8. n \in Good
  <2>1. \A i \in 0..n : i \in Good
    <3> HIDE DEF Good
    <3> QED
      BY <1>2, <1>6, <1>7, UpTo
  <2>2. n \in 0..n
    BY <1>2
  <2> QED
    BY <2>1, <2>2
<1>9. Flush(q, order) = f[n]
  BY <1>2, <1>3 DEF Flush
<1> QED
  BY <1>8, <1>9

-----------------------------------------------------------------------------
(* Shutdown                                                                *)

\* What a stage of the shutdown says of the pipe of its process.
Shape(q, s) ==
    /\ Sound(q)
    /\ s \in {"draining", "closing", "closed"} => \A p \in Peer : q.open[p] = <<>>
    /\ s \in {"closing", "closed"} => \A i \in DOMAIN q.inbox : q.inbox[i].direct
    /\ s = "closed" => \A p \in Peer : q.chain[p] = <<>>

ProcInv ==
    /\ proc \in [Node -> ProcState] /\ pipe \in [Node -> Pipe]
    /\ \A n \in Node : Shape(pipe[n], proc[n])

LEMMA ShapeMoves ==
    ASSUME ProcInv, NEW n \in Node, NEW r, NEW s \in ProcState,
           pipe' = [pipe EXCEPT ![n] = r], proc' = [proc EXCEPT ![n] = s], Shape(r, s)
    PROVE  ProcInv'
<1>1. r \in Pipe
  BY DEF Shape, Sound
<1>2. proc' \in [Node -> ProcState] /\ pipe' \in [Node -> Pipe]
  BY <1>1 DEF ProcInv
<1>3. ASSUME NEW o \in Node PROVE Shape(pipe'[o], proc'[o])
  <2>1. CASE o = n
    <3>1. pipe'[o] = r /\ proc'[o] = s
      BY <2>1 DEF ProcInv
    <3> QED
      BY <3>1
  <2>2. CASE o # n
    <3>1. pipe'[o] = pipe[o] /\ proc'[o] = proc[o]
      BY <2>2 DEF ProcInv
    <3> QED
      BY <3>1 DEF ProcInv
  <2> QED
    BY <2>1, <2>2
<1> QED
  BY <1>2, <1>3 DEF ProcInv

LEMMA PipeMoves ==
    ASSUME ProcInv, NEW n \in Node, NEW r, pipe' = [pipe EXCEPT ![n] = r], proc' = proc,
           Shape(r, proc[n])
    PROVE  ProcInv'
<1>1. PICK s : s = proc[n]
  OBVIOUS
<1>2. s \in ProcState /\ proc' = [proc EXCEPT ![n] = s]
  BY <1>1 DEF ProcInv
<1> QED
  BY <1>1, <1>2, ShapeMoves

LEMMA ProcMoves ==
    ASSUME ProcInv, NEW n \in Node, NEW s \in ProcState, pipe' = pipe,
           proc' = [proc EXCEPT ![n] = s], Shape(pipe[n], s)
    PROVE  ProcInv'
<1>1. PICK r : r = pipe[n]
  OBVIOUS
<1>2. pipe' = [pipe EXCEPT ![n] = r]
  BY <1>1 DEF ProcInv
<1> QED
  BY <1>1, <1>2, ShapeMoves

LEMMA ShapesStay == ASSUME ProcInv, UNCHANGED <<pipe, proc>> PROVE ProcInv'
BY DEF ProcInv

LEMMA ShapeIs ==
    ASSUME ProcInv, NEW n \in Node
    PROVE  /\ Sound(pipe[n]) /\ Shape(pipe[n], proc[n])
           /\ proc[n] \in ProcState
BY DEF ProcInv, Shape

LEMMA RouteDirectShape ==
    ASSUME ClaimInv, ProcInv, NEW n \in Node, NEW k \in Slot, RouteDirect(n, k) PROVE ProcInv'
<1>1. PICK q : q = pipe[n]
  OBVIOUS
<1>2. PICK job : job = NewJob(<<Head(loop[n][k].batch)>>, TRUE)
  OBVIOUS
<1>3. PICK up : up = Up(n)
  OBVIOUS
<1>4. PICK r : r = Push(q, up, job)
  OBVIOUS
<1>5. pipe' = [pipe EXCEPT ![n] = r] /\ proc' = proc
  BY <1>1, <1>2, <1>3, <1>4 DEF RouteDirect, Deliver
<1>6. WellMade(job) /\ job.direct = TRUE /\ job \in Job
  BY <1>2, DirectJob DEF RouteDirect
<1>7. Sound(q) /\ Shape(q, proc[n])
  BY <1>1, ShapeIs
<1>8. /\ Gains(q, r, ToSet(job.msgs)) \/ r = q
      /\ r.open = q.open
      /\ up = FALSE => r = q \/ r = [q EXCEPT !.inbox = Append(@, job)]
  BY <1>4, <1>6, <1>7, Pushed
<1>9. Sound(r)
  BY <1>7, <1>8 DEF Gains
<1>10. ASSUME proc[n] # "up" PROVE Shape(r, proc[n])
  <2>1. up = FALSE
    BY <1>3, <1>10 DEF Up
  <2>2. CASE r = q
    BY <1>7, <2>2
  <2>3. CASE r = [q EXCEPT !.inbox = Append(@, job)]
    <3>1. r = Boxed(q, Append(q.inbox, job))
      BY <2>3 DEF Boxed
    <3>2. r.chain = q.chain /\ r.inbox = Append(q.inbox, job)
      BY <1>7, <3>1, InboxOpen
    <3>3. q.inbox \in Seq(Job)
      BY <1>7, PipeFacts
    <3>4. (\A i \in DOMAIN q.inbox : q.inbox[i].direct) => \A i \in DOMAIN r.inbox : r.inbox[i].direct
      BY <1>6, <3>2, <3>3
    <3> QED
      BY <1>7, <1>8, <1>9, <3>2, <3>4 DEF Shape
  <2> QED
    BY <1>8, <2>1, <2>2, <2>3
<1>11. CASE proc[n] = "up"
  BY <1>5, <1>9, <1>11, PipeMoves DEF Shape
<1> QED
  BY <1>5, <1>10, <1>11, PipeMoves

LEMMA RouteBatchShape ==
    ASSUME ClaimInv, ProcInv, NEW n \in Node, NEW k \in Slot, RouteBatch(n, k) PROVE ProcInv'
<1>1. PICK m : m = Head(loop[n][k].batch)
  OBVIOUS
<1>2. m \in Msg
  BY <1>1, LoopFacts DEF RouteBatch
<1>3. CASE Up(n)
  <2>1. PICK r : r = AddItem(pipe[n], PeerOf[m], m)
    OBVIOUS
  <2>2. pipe' = [pipe EXCEPT ![n] = r] /\ proc' = proc
    BY <1>1, <1>3, <2>1 DEF RouteBatch
  <2>3. Sound(r)
    BY <1>2, <2>1, Added, ShapeIs DEF Gains
  <2> QED
    BY <1>3, <2>2, <2>3, PipeMoves DEF Shape, Up
<1>4. CASE ~Up(n)
  BY <1>4, ShapesStay DEF RouteBatch
<1> QED
  BY <1>3, <1>4

LEMMA CloseBatchShape ==
    ASSUME ProcInv, NEW n \in Node, NEW p \in Peer, CloseBatch(n, p) PROVE ProcInv'
<1>1. PICK up : up = TRUE
  OBVIOUS
<1>2. PICK r : r = Close(pipe[n], up, p)
  OBVIOUS
<1>3. pipe' = [pipe EXCEPT ![n] = r] /\ proc' = proc /\ proc[n] = "up"
  BY <1>1, <1>2 DEF CloseBatch, Deliver, Up
<1>4. Sound(r)
  BY <1>2, Closed, ShapeIs DEF Loses
<1> QED
  BY <1>3, <1>4, PipeMoves DEF Shape

\* A job that ends leaves its chain; on a stopping node no other follows it.
LEMMA FinishShape ==
    ASSUME ProcInv, NEW n \in Node, NEW p \in Peer, pipe[n].chain[p] # <<>>, NEW up, up = Up(n),
           pipe' = [pipe EXCEPT ![n] = Finish(pipe[n], up, p)], proc' = proc
    PROVE  ProcInv'
<1>1. PICK q : q = pipe[n]
  OBVIOUS
<1>2. PICK r : r = Finish(q, up, p)
  OBVIOUS
<1>3. Sound(q) /\ Shape(q, proc[n]) /\ q.chain[p] # <<>>
  BY <1>1, ShapeIs
<1>4. /\ Gives(q, r, ToSet(Head(q.chain[p]).msgs)) /\ r.open = q.open
      /\ up = FALSE => r = Shorter(q, p)
  BY <1>2, <1>3, Finished
<1>5. Sound(r)
  BY <1>4 DEF Gives
<1>6. ASSUME proc[n] # "up" PROVE Shape(r, proc[n])
  <2>1. r = Shorter(q, p)
    BY <1>4, <1>6 DEF Up
  <2>2. r.inbox = q.inbox
    BY <1>3, <2>1, ShorterIs
  <2>3. proc[n] # "closed"
    BY <1>3 DEF Shape
  <2> QED
    BY <1>3, <1>4, <1>5, <2>2, <2>3 DEF Shape
<1>7. ASSUME proc[n] = "up" PROVE Shape(r, proc[n])
  BY <1>5, <1>7 DEF Shape
<1>8. pipe' = [pipe EXCEPT ![n] = r]
  BY <1>1, <1>2
<1> QED
  BY <1>6, <1>7, <1>8, PipeMoves

LEMMA BeginJobShape ==
    ASSUME ProcInv, NEW n \in Node, NEW p \in Peer, BeginJob(n, p) PROVE ProcInv'
<1>1. pipe[n].chain[p] # <<>> /\ proc' = proc
  BY DEF BeginJob
<1>2. CASE n \in client
  <2>1. PICK q : q = pipe[n]
    OBVIOUS
  <2>2. PICK r : r = [q EXCEPT !.busy = @ \cup {p}]
    OBVIOUS
  <2>3. pipe' = [pipe EXCEPT ![n] = r]
    BY <1>2, <2>1, <2>2 DEF BeginJob
  <2>4. Sound(q) /\ Shape(q, proc[n])
    BY <2>1, ShapeIs
  <2>5. Sound(r) /\ r.open = q.open /\ r.inbox = q.inbox /\ r.chain = q.chain
    BY <1>1, <2>1, <2>2, <2>4, Begun DEF Keeps
  <2>6. Shape(r, proc[n])
    BY <2>4, <2>5 DEF Shape
  <2> QED
    BY <1>1, <2>3, <2>6, PipeMoves
<1>3. CASE n \notin client
  <2>1. PICK up : up = Up(n)
    OBVIOUS
  <2>2. pipe' = [pipe EXCEPT ![n] = Finish(pipe[n], up, p)]
    BY <1>3, <2>1 DEF BeginJob
  <2> QED
    BY <1>1, <2>1, <2>2, FinishShape
<1> QED
  BY <1>2, <1>3

LEMMA EndJobShape ==
    ASSUME ProcInv, NEW n \in Node, NEW p \in Peer, EndJob(n, p) PROVE ProcInv'
<1>1. PICK up : up = Up(n)
  OBVIOUS
<1>2. pipe' = [pipe EXCEPT ![n] = Finish(pipe[n], up, p)] /\ proc' = proc
  BY <1>1 DEF EndJob
<1>3. pipe[n].chain[p] # <<>>
  BY ShapeIs DEF EndJob, Sound
<1> QED
  BY <1>1, <1>2, <1>3, FinishShape

LEMMA StopShape == ASSUME ProcInv, NEW n \in Node, Stop(n) PROVE ProcInv'
<1>1. PICK order \in SetToSeqs(Peer) : pipe' = [pipe EXCEPT ![n] = Flush(pipe[n], order)]
  BY DEF Stop, Deliver
<1>2. proc' = [proc EXCEPT ![n] = "draining"]
  BY DEF Stop
<1>3. PICK r : r = Flush(pipe[n], order)
  OBVIOUS
<1>4. Sound(r) /\ \A p \in Peer : r.open[p] = <<>>
  BY <1>3, ShapeIs, FlushLoses DEF Loses
<1>5. PICK s \in ProcState : s = "draining"
  BY DEF ProcState
<1>6. Shape(r, s)
  BY <1>4, <1>5 DEF Shape
<1> QED
  BY <1>1, <1>2, <1>3, <1>5, <1>6, ShapeMoves

LEMMA DrainNextShape == ASSUME ProcInv, NEW n \in Node, DrainNext(n) PROVE ProcInv'
<1>1. PICK q : q = pipe[n]
  OBVIOUS
<1>2. PICK r : r = Enchain([q EXCEPT !.inbox = Tail(@)], [Head(q.inbox) EXCEPT !.drain = TRUE])
  OBVIOUS
<1>3. pipe' = [pipe EXCEPT ![n] = r] /\ proc' = proc /\ proc[n] = "draining" /\ q.inbox # <<>>
  BY <1>1, <1>2 DEF DrainNext
<1>4. Sound(q) /\ Shape(q, proc[n])
  BY <1>1, ShapeIs
<1>5. Sound(r) /\ r.open = q.open
  BY <1>2, <1>3, <1>4, Drained DEF Keeps
<1>6. Shape(r, proc[n])
  BY <1>3, <1>4, <1>5 DEF Shape
<1> QED
  BY <1>3, <1>6, PipeMoves

LEMMA DrainDoneShape == ASSUME ProcInv, NEW n \in Node, DrainDone(n) PROVE ProcInv'
<1>1. /\ proc[n] = "draining" /\ pipe[n].inbox = <<>> /\ pipe' = pipe
      /\ proc' = [proc EXCEPT ![n] = "closing"]
  BY DEF DrainDone
<1>2. Shape(pipe[n], "closing")
  BY <1>1, ShapeIs DEF Shape
<1>3. "closing" \in ProcState
  BY DEF ProcState
<1> QED
  BY <1>1, <1>2, <1>3, ProcMoves

LEMMA FinishStoppingShape == ASSUME ProcInv, NEW n \in Node, FinishStopping(n) PROVE ProcInv'
<1>1. pipe' = pipe /\ Shape(pipe[n], proc[n])
  BY ShapeIs DEF FinishStopping
<1>2. CASE /\ proc[n] = "closing" /\ \A p \in Peer : pipe[n].chain[p] = <<>>
           /\ proc' = [proc EXCEPT ![n] = "closed"]
  <2>1. Shape(pipe[n], "closed") /\ "closed" \in ProcState
    BY <1>1, <1>2 DEF Shape, ProcState
  <2> QED
    BY <1>1, <1>2, <2>1, ProcMoves
<1>3. CASE proc' = [proc EXCEPT ![n] = "cutoff"]
  <2>1. Shape(pipe[n], "cutoff") /\ "cutoff" \in ProcState
    BY <1>1 DEF Shape, ProcState
  <2> QED
    BY <1>1, <1>3, <2>1, ProcMoves
<1> QED
  BY <1>2, <1>3 DEF FinishStopping

LEMMA BootShape == ASSUME ProcInv, NEW n \in Node, Boot(n) PROVE ProcInv'
<1>1. pipe' = pipe /\ proc' = [proc EXCEPT ![n] = "up"] /\ Sound(pipe[n])
  BY ShapeIs DEF Boot
<1>2. Shape(pipe[n], "up") /\ "up" \in ProcState
  BY <1>1 DEF Shape, ProcState
<1> QED
  BY <1>1, <1>2, ProcMoves

LEMMA GoneShape == ASSUME ProcInv, NEW n \in Node, NEW reason, Gone(n, reason) PROVE ProcInv'
<1>1. PICK r : r = EmptyPipe
  OBVIOUS
<1>2. pipe' = [pipe EXCEPT ![n] = r] /\ proc' = [proc EXCEPT ![n] = "down"]
  BY <1>1 DEF Gone
<1>3. Shape(r, "down") /\ "down" \in ProcState
  BY <1>1, EmptySound DEF Shape, ProcState
<1> QED
  BY <1>2, <1>3, ShapeMoves

LEMMA OthersShape ==
    ASSUME ProcInv, NEW n \in Node, NEW k \in Slot,
           \/ StartLoop(n, k) \/ BootLoop(n, k) \/ EndLoop(n, k) \/ QuitLoop(n, k)
           \/ \E j \in Msg, fresh \in BOOLEAN : GetUpdates(n, k, j, fresh)
           \/ Claim(n, k) \/ SaveCursor(n, k)
    PROVE  ProcInv'
<1>1. UNCHANGED <<pipe, proc>>
  BY DEF StartLoop, BootLoop, EndLoop, QuitLoop, GetUpdates, Claim, SaveCursor
<1> QED
  BY <1>1, ShapesStay

LEMMA ProcKeeps == ASSUME ClaimInv, ProcInv, [Next]_vars PROVE ProcInv'
<1>1. CASE UNCHANGED vars
  BY <1>1, ShapesStay DEF vars
<1>2. ASSUME NEW n \in Node, Live(n) PROVE ProcInv'
  <2>1. CASE DropLoop(n)
    BY <2>1, ShapesStay DEF DropLoop
  <2> QED
    BY <1>2, <2>1, BootShape, StopShape, DrainNextShape, DrainDoneShape, FinishStoppingShape,
       GoneShape DEF Live, Exit, Crash
<1>3. ASSUME NEW n \in Node, NEW k \in Slot, Poll(n, k) PROVE ProcInv'
  BY <1>3, RouteDirectShape, RouteBatchShape, OthersShape DEF Poll
<1>4. ASSUME NEW n \in Node, NEW p \in Peer, Reply(n, p) PROVE ProcInv'
  BY <1>4, CloseBatchShape, BeginJobShape, EndJobShape DEF Reply
<1>5. ASSUME NEW m \in Msg, ExpireSeen(m) PROVE ProcInv'
  BY <1>5, ShapesStay DEF ExpireSeen
<1> QED
  BY <1>1, <1>2, <1>3, <1>4, <1>5 DEF Next

LEMMA ProcInitHolds == ASSUME Init PROVE ProcInv
<1>1. proc = [n \in Node |-> "up"] /\ pipe = [n \in Node |-> EmptyPipe]
  BY DEF Init
<1>2. EmptyPipe \in Pipe /\ "up" \in ProcState /\ Shape(EmptyPipe, "up")
  BY EmptySound DEF Sound, ProcState, Shape
<1>3. \A n \in Node : proc[n] = "up" /\ pipe[n] = EmptyPipe
  BY <1>1
<1> QED
  BY <1>1, <1>2, <1>3 DEF ProcInv

LEMMA ProcInvariant == Spec => []ProcInv
<1>1. Init => ProcInv
  BY ProcInitHolds
<1>2. ClaimInv /\ ProcInv /\ [Next]_vars => ProcInv'
  BY ProcKeeps
<1> QED
  BY <1>1, <1>2, ClaimInvariant, PTL DEF Spec

\* When a shutdown ends in time, no ordinary message is left in the process: the
\* flush has closed every batch, the drain has put every job on a chain, and
\* what the inbox took after that is direct.
THEOREM DrainedClean == Spec => []CleanShutdown
<1>1. ProcInv => CleanShutdown
  BY DEF ProcInv, Shape, CleanShutdown
<1> QED
  BY <1>1, ProcInvariant, PTL

-----------------------------------------------------------------------------
(* The limits hold                                                         *)

\* What a process at stage s has beyond Room: while it is up no consumer waits for
\* a job beside a filled inbox, and a process that is down has nothing.
Limits(q, s) ==
    /\ Room(q)
    /\ s = "up" => Manned(q)
    /\ s = "down" => q.inbox = <<>>

LimitInv == \A n \in Node : Limits(pipe[n], proc[n])

LEMMA EmptyRoom == Room(EmptyPipe) /\ Manned(EmptyPipe) /\ \A s : Limits(EmptyPipe, s)
<1>1. EmptyPipe.inbox = <<>> /\ \A p \in Peer : EmptyPipe.chain[p] = <<>>
  BY DEF EmptyPipe
<1>2. ASSUME NEW d PROVE Loaded(EmptyPipe, d) = {}
  <2>1. \A s \in Peer \X Nat : EmptyPipe.chain[s[1]] = <<>>
    BY <1>1
  <2>2. \A s \in Peer \X Nat : s[2] \notin DOMAIN EmptyPipe.chain[s[1]]
    BY <2>1
  <2> QED
    BY <2>2 DEF Loaded
<1>3. IsFiniteSet({}) /\ Cardinality({}) = 0
  BY FS_EmptySet
<1>4. Len(EmptyPipe.inbox) = 0 /\ DOMAIN EmptyPipe.inbox = {}
  BY <1>1
<1>5. Room(EmptyPipe)
  <2>1. Bounded({}, Consumers) /\ Bounded({}, 1)
    BY <1>3, InboundConstants DEF Bounded
  <2>2. Bounded(Loaded(EmptyPipe, FALSE), Consumers) /\ Bounded(Loaded(EmptyPipe, TRUE), 1)
    BY <1>2, <2>1
  <2>3. Len(EmptyPipe.inbox) <= InboxMax
    BY <1>4, InboundConstants
  <2>4. \A i \in DOMAIN EmptyPipe.inbox : ~EmptyPipe.inbox[i].drain
    BY <1>4
  <2> QED
    BY <2>2, <2>3, <2>4 DEF Room
<1>6. Manned(EmptyPipe)
  BY <1>1 DEF Manned
<1> QED
  BY <1>1, <1>5, <1>6 DEF Limits

LEMMA RoomAlike ==
    ASSUME NEW q, NEW r, r.chain = q.chain, r.inbox = q.inbox
    PROVE  /\ Room(q) => Room(r)
           /\ Manned(q) => Manned(r)
           /\ \A s : Limits(q, s) => Limits(r, s)
<1>1. Occupied(r) = Occupied(q) /\ \A d : Loaded(r, d) = Loaded(q, d)
  BY SameLoad
<1>2. Room(q) => Room(r)
  BY <1>1 DEF Room
<1>3. Manned(q) => Manned(r)
  BY <1>1 DEF Manned
<1> QED
  BY <1>2, <1>3 DEF Limits

LEMMA LimitMoves ==
    ASSUME ProcInv, LimitInv, NEW n \in Node, NEW r, NEW s,
           pipe' = [pipe EXCEPT ![n] = r], proc' = [proc EXCEPT ![n] = s], Limits(r, s)
    PROVE  LimitInv'
<1>1. ASSUME NEW o \in Node PROVE Limits(pipe'[o], proc'[o])
  <2>1. CASE o = n
    <3>1. pipe'[o] = r /\ proc'[o] = s
      BY <2>1 DEF ProcInv
    <3> QED
      BY <3>1
  <2>2. CASE o # n
    <3>1. pipe'[o] = pipe[o] /\ proc'[o] = proc[o]
      BY <2>2 DEF ProcInv
    <3> QED
      BY <3>1 DEF LimitInv
  <2> QED
    BY <2>1, <2>2
<1> QED
  BY <1>1 DEF LimitInv

LEMMA LimitPipe ==
    ASSUME ProcInv, LimitInv, NEW n \in Node, NEW r, pipe' = [pipe EXCEPT ![n] = r],
           proc' = proc, Limits(r, proc[n])
    PROVE  LimitInv'
<1>1. PICK s : s = proc[n]
  OBVIOUS
<1>2. proc' = [proc EXCEPT ![n] = s]
  BY <1>1 DEF ProcInv
<1> QED
  BY <1>1, <1>2, LimitMoves

LEMMA LimitStage ==
    ASSUME ProcInv, LimitInv, NEW n \in Node, NEW s, pipe' = pipe,
           proc' = [proc EXCEPT ![n] = s], Limits(pipe[n], s)
    PROVE  LimitInv'
<1>1. PICK r : r = pipe[n]
  OBVIOUS
<1>2. pipe' = [pipe EXCEPT ![n] = r]
  BY <1>1 DEF ProcInv
<1> QED
  BY <1>1, <1>2, LimitMoves

LEMMA LimitsStay == ASSUME LimitInv, UNCHANGED <<pipe, proc>> PROVE LimitInv'
BY DEF LimitInv

LEMMA RouteDirectLimits ==
    ASSUME ClaimInv, ProcInv, LimitInv, NEW n \in Node, NEW k \in Slot, RouteDirect(n, k)
    PROVE  LimitInv'
<1>1. PICK q : q = pipe[n]
  OBVIOUS
<1>2. PICK job : job = NewJob(<<Head(loop[n][k].batch)>>, TRUE)
  OBVIOUS
<1>3. PICK up : up = Up(n)
  OBVIOUS
<1>4. PICK r : r = Push(q, up, job)
  OBVIOUS
<1>5. pipe' = [pipe EXCEPT ![n] = r] /\ proc' = proc /\ proc[n] # "down"
  BY <1>1, <1>2, <1>3, <1>4 DEF RouteDirect, Deliver, HasProcess
<1>6. WellMade(job) /\ job.drain = FALSE
  BY <1>2, DirectJob DEF RouteDirect, NewJob
<1>7. Sound(q) /\ Room(q) /\ (proc[n] = "up" => Manned(q))
  BY <1>1, ShapeIs DEF LimitInv, Limits
<1>8. Room(r) /\ (up = TRUE /\ Manned(q) => Manned(r))
  BY <1>4, <1>6, <1>7, RoomPush
<1>9. proc[n] = "up" => up = TRUE
  BY <1>3 DEF Up
<1>10. Limits(r, proc[n])
  BY <1>5, <1>7, <1>8, <1>9 DEF Limits
<1> QED
  BY <1>5, <1>10, LimitPipe

\* A message that joins a batch changes nothing else.
LEMMA AddedRest ==
    ASSUME NEW q, Sound(q), NEW m \in Msg
    PROVE  /\ AddItem(q, PeerOf[m], m).chain = q.chain
           /\ AddItem(q, PeerOf[m], m).inbox = q.inbox
<1>1. PICK p : p = PeerOf[m]
  OBVIOUS
<1>2. PICK open : open = [q.open EXCEPT ![p] = Append(@, m)]
  OBVIOUS
<1>3. PICK r : r = AddItem(q, p, m)
  OBVIOUS
<1>4. q = [open |-> q.open, inbox |-> q.inbox, chain |-> q.chain, busy |-> q.busy]
  BY PipeFacts
<1>5. r = [q EXCEPT !.open = open]
  BY <1>2, <1>3, <1>4 DEF AddItem
<1>6. r = [open |-> open, inbox |-> q.inbox, chain |-> q.chain, busy |-> q.busy]
  BY <1>4, <1>5
<1>7. r.chain = q.chain /\ r.inbox = q.inbox
  BY <1>6
<1> QED
  BY <1>1, <1>3, <1>7

LEMMA RouteBatchLimits ==
    ASSUME ClaimInv, ProcInv, LimitInv, NEW n \in Node, NEW k \in Slot, RouteBatch(n, k)
    PROVE  LimitInv'
<1>1. PICK m : m = Head(loop[n][k].batch)
  OBVIOUS
<1>2. m \in Msg
  BY <1>1, LoopFacts DEF RouteBatch
<1>3. CASE Up(n)
  <2>1. PICK q : q = pipe[n]
    OBVIOUS
  <2>2. PICK r : r = AddItem(q, PeerOf[m], m)
    OBVIOUS
  <2>3. pipe' = [pipe EXCEPT ![n] = r] /\ proc' = proc
    BY <1>1, <1>3, <2>1, <2>2 DEF RouteBatch
  <2>4. Sound(q) /\ Limits(q, proc[n])
    BY <2>1, ShapeIs DEF LimitInv
  <2>5. r.chain = q.chain /\ r.inbox = q.inbox
    BY <1>2, <2>2, <2>4, AddedRest
  <2>6. Limits(r, proc[n])
    BY <2>4, <2>5, RoomAlike
  <2> QED
    BY <2>3, <2>6, LimitPipe
<1>4. CASE ~Up(n)
  BY <1>4, LimitsStay DEF RouteBatch
<1> QED
  BY <1>3, <1>4

LEMMA CloseBatchLimits ==
    ASSUME ProcInv, LimitInv, NEW n \in Node, NEW p \in Peer, CloseBatch(n, p) PROVE LimitInv'
<1>1. PICK up : up = TRUE
  OBVIOUS
<1>2. PICK q : q = pipe[n]
  OBVIOUS
<1>3. PICK r : r = Close(q, up, p)
  OBVIOUS
<1>4. pipe' = [pipe EXCEPT ![n] = r] /\ proc' = proc /\ proc[n] = "up"
  BY <1>1, <1>2, <1>3 DEF CloseBatch, Deliver, Up
<1>5. Fit(q)
  BY <1>2, <1>4, ShapeIs DEF LimitInv, Limits, Fit
<1>6. Fit(r)
  BY <1>1, <1>3, <1>5, FitClose
<1>7. Limits(r, proc[n])
  BY <1>4, <1>6 DEF Limits, Fit
<1> QED
  BY <1>4, <1>7, LimitPipe

LEMMA FinishLimits ==
    ASSUME ProcInv, LimitInv, NEW n \in Node, NEW p \in Peer, pipe[n].chain[p] # <<>>,
           NEW up, up = Up(n), proc[n] # "down",
           pipe' = [pipe EXCEPT ![n] = Finish(pipe[n], up, p)], proc' = proc
    PROVE  LimitInv'
<1>1. PICK q : q = pipe[n]
  OBVIOUS
<1>2. PICK r : r = Finish(q, up, p)
  OBVIOUS
<1>3. Sound(q) /\ Room(q) /\ (proc[n] = "up" => Manned(q))
  BY <1>1, ShapeIs DEF LimitInv, Limits
<1>4. Room(r) /\ (up = TRUE /\ Manned(q) => Manned(r))
  BY <1>1, <1>2, <1>3, RoomFinish
<1>5. Limits(r, proc[n])
  BY <1>3, <1>4 DEF Limits, Up
<1> QED
  BY <1>1, <1>2, <1>5, LimitPipe

LEMMA BeginJobLimits ==
    ASSUME ProcInv, LimitInv, NEW n \in Node, NEW p \in Peer, BeginJob(n, p) PROVE LimitInv'
<1>1. pipe[n].chain[p] # <<>> /\ proc' = proc /\ proc[n] # "down"
  BY DEF BeginJob, HasProcess
<1>2. CASE n \in client
  <2>1. PICK q : q = pipe[n]
    OBVIOUS
  <2>2. PICK r : r = [q EXCEPT !.busy = @ \cup {p}]
    OBVIOUS
  <2>3. pipe' = [pipe EXCEPT ![n] = r]
    BY <1>2, <2>1, <2>2 DEF BeginJob
  <2>4. Sound(q) /\ Limits(q, proc[n])
    BY <2>1, ShapeIs DEF LimitInv
  <2>5. r.inbox = q.inbox /\ r.chain = q.chain
    BY <1>1, <2>1, <2>2, <2>4, Begun
  <2>6. Limits(r, proc[n])
    BY <2>4, <2>5, RoomAlike
  <2> QED
    BY <1>1, <2>3, <2>6, LimitPipe
<1>3. CASE n \notin client
  <2>1. PICK up : up = Up(n)
    OBVIOUS
  <2>2. pipe' = [pipe EXCEPT ![n] = Finish(pipe[n], up, p)]
    BY <1>3, <2>1 DEF BeginJob
  <2> QED
    BY <1>1, <2>1, <2>2, FinishLimits
<1> QED
  BY <1>2, <1>3

LEMMA EndJobLimits ==
    ASSUME ProcInv, LimitInv, NEW n \in Node, NEW p \in Peer, EndJob(n, p) PROVE LimitInv'
<1>1. PICK up : up = Up(n)
  OBVIOUS
<1>2. pipe' = [pipe EXCEPT ![n] = Finish(pipe[n], up, p)] /\ proc' = proc /\ proc[n] # "down"
  BY <1>1 DEF EndJob, HasProcess
<1>3. pipe[n].chain[p] # <<>>
  BY ShapeIs DEF EndJob, Sound
<1> QED
  BY <1>1, <1>2, <1>3, FinishLimits

LEMMA StopLimits == ASSUME ProcInv, LimitInv, NEW n \in Node, Stop(n) PROVE LimitInv'
<1>1. PICK q : q = pipe[n]
  OBVIOUS
<1>2. PICK order \in SetToSeqs(Peer) : pipe' = [pipe EXCEPT ![n] = Flush(q, order)]
  BY <1>1 DEF Stop, Deliver
<1>3. proc' = [proc EXCEPT ![n] = "draining"] /\ proc[n] = "up"
  BY DEF Stop, Up
<1>4. PICK r : r = Flush(q, order)
  OBVIOUS
<1>5. Fit(q)
  BY <1>1, <1>3, ShapeIs DEF LimitInv, Limits, Fit
<1>6. Fit(r)
  BY <1>4, <1>5, FitFlush
<1>7. Limits(r, "draining")
  BY <1>6 DEF Limits, Fit
<1> QED
  BY <1>2, <1>3, <1>4, <1>7, LimitMoves

LEMMA DrainNextLimits == ASSUME ProcInv, LimitInv, NEW n \in Node, DrainNext(n) PROVE LimitInv'
<1>1. PICK q : q = pipe[n]
  OBVIOUS
<1>2. PICK job : job = [Head(q.inbox) EXCEPT !.drain = TRUE]
  OBVIOUS
<1>3. PICK d : d = Boxed(q, Tail(q.inbox))
  OBVIOUS
<1>4. PICK r : r = Enchain(d, job)
  OBVIOUS
<1>5. /\ pipe' = [pipe EXCEPT ![n] = r] /\ proc' = proc /\ proc[n] = "draining"
      /\ q.inbox # <<>> /\ Taken(q, TRUE) = {}
  BY <1>1, <1>2, <1>3, <1>4 DEF DrainNext, Boxed
<1>6. Sound(q) /\ Room(q)
  BY <1>1, ShapeIs DEF LimitInv, Limits
<1>7. Room(d) /\ Sound(d) /\ WellMade(Head(q.inbox))
  BY <1>3, <1>5, <1>6, RoomDequeue
<1>8. d.chain = q.chain
  BY <1>3, <1>6, InboxOpen
<1>9. Taken(d, TRUE) = {}
  BY <1>5, <1>8 DEF Taken
<1>10. WellMade(job) /\ job.drain = TRUE
  <2>1. PICK first : first = Head(q.inbox)
    OBVIOUS
  <2>2. first \in Job /\ WellMade(first) /\ job = [first EXCEPT !.drain = TRUE]
    BY <1>2, <1>7, <2>1 DEF WellMade
  <2>3. job \in Job /\ job.drain = TRUE /\ job.msgs = first.msgs
    BY <2>2 DEF Job
  <2> QED
    BY <2>2, <2>3 DEF WellMade, JobPeer
<1>11. Room(r)
  BY <1>4, <1>7, <1>9, <1>10, RoomEnchain
<1>12. Limits(r, proc[n])
  BY <1>5, <1>11 DEF Limits
<1> QED
  BY <1>5, <1>12, LimitPipe

LEMMA StageLimits ==
    ASSUME ProcInv, LimitInv, NEW n \in Node, Boot(n) \/ DrainDone(n) \/ FinishStopping(n)
    PROVE  LimitInv'
<1>1. Limits(pipe[n], proc[n]) /\ pipe' = pipe
  BY DEF LimitInv, Boot, DrainDone, FinishStopping
<1>2. CASE Boot(n)
  <2>1. Limits(pipe[n], "up") /\ proc' = [proc EXCEPT ![n] = "up"]
    BY <1>1, <1>2 DEF Boot, Limits, Manned
  <2> QED
    BY <1>1, <2>1, LimitStage
<1>3. CASE DrainDone(n)
  <2>1. Limits(pipe[n], "closing") /\ proc' = [proc EXCEPT ![n] = "closing"]
    BY <1>1, <1>3 DEF DrainDone, Limits
  <2> QED
    BY <1>1, <2>1, LimitStage
<1>4. CASE FinishStopping(n)
  <2>1. PICK s \in {"closed", "cutoff"} : proc' = [proc EXCEPT ![n] = s]
    BY <1>4 DEF FinishStopping
  <2>2. Limits(pipe[n], s)
    BY <1>1, <2>1 DEF Limits
  <2> QED
    BY <1>1, <2>1, <2>2, LimitStage
<1> QED
  BY <1>2, <1>3, <1>4

LEMMA GoneLimits == ASSUME ProcInv, LimitInv, NEW n \in Node, NEW reason, Gone(n, reason) PROVE LimitInv'
<1>1. PICK r : r = EmptyPipe
  OBVIOUS
<1>2. pipe' = [pipe EXCEPT ![n] = r] /\ proc' = [proc EXCEPT ![n] = "down"]
  BY <1>1 DEF Gone
<1>3. Limits(r, "down")
  BY <1>1, EmptyRoom
<1> QED
  BY <1>2, <1>3, LimitMoves

LEMMA LimitKeeps == ASSUME ClaimInv, ProcInv, LimitInv, [Next]_vars PROVE LimitInv'
<1>1. CASE UNCHANGED vars
  BY <1>1, LimitsStay DEF vars
<1>2. ASSUME NEW n \in Node, Live(n) PROVE LimitInv'
  <2>1. CASE DropLoop(n)
    BY <2>1, LimitsStay DEF DropLoop
  <2> QED
    BY <1>2, <2>1, StopLimits, DrainNextLimits, StageLimits, GoneLimits DEF Live, Exit, Crash
<1>3. ASSUME NEW n \in Node, NEW k \in Slot, Poll(n, k) PROVE LimitInv'
  <2>1. CASE RouteDirect(n, k) \/ RouteBatch(n, k)
    BY <2>1, RouteDirectLimits, RouteBatchLimits
  <2>2. CASE ~(RouteDirect(n, k) \/ RouteBatch(n, k))
    <3>1. UNCHANGED <<pipe, proc>>
      BY <1>3, <2>2 DEF Poll, StartLoop, BootLoop, EndLoop, QuitLoop, GetUpdates, Claim, SaveCursor
    <3> QED
      BY <3>1, LimitsStay
  <2> QED
    BY <2>1, <2>2
<1>4. ASSUME NEW n \in Node, NEW p \in Peer, Reply(n, p) PROVE LimitInv'
  BY <1>4, CloseBatchLimits, BeginJobLimits, EndJobLimits DEF Reply
<1>5. ASSUME NEW m \in Msg, ExpireSeen(m) PROVE LimitInv'
  BY <1>5, LimitsStay DEF ExpireSeen
<1> QED
  BY <1>1, <1>2, <1>3, <1>4, <1>5 DEF Next

LEMMA LimitInitHolds == ASSUME Init PROVE LimitInv
<1>1. proc = [n \in Node |-> "up"] /\ pipe = [n \in Node |-> EmptyPipe]
  BY DEF Init
<1>2. \A n \in Node : pipe[n] = EmptyPipe
  BY <1>1
<1> QED
  BY <1>2, EmptyRoom DEF LimitInv

LEMMA LimitInvariant == Spec => []LimitInv
<1>1. Init => LimitInv
  BY LimitInitHolds
<1>2. ClaimInv /\ ProcInv /\ LimitInv /\ [Next]_vars => LimitInv'
  BY LimitKeeps
<1> QED
  BY <1>1, <1>2, ClaimInvariant, ProcInvariant, PTL DEF Spec

-----------------------------------------------------------------------------
(* What a step does to the pipes                                           *)

\* The loop in slot k of process n has message m in hand.
Holding(n, k, m) == loop[n][k].pc = "route" /\ Head(loop[n][k].batch) = m
Has(n) == Held(pipe[n]) \cup InHand(n)

\* The pipe r has no message that q has not, and keeps its order.
Lighter(q, r) == Calm(q, r) /\ Held(r) \subseteq Held(q)

\* The loop in slot k of process n puts the message it has in hand into the pipe.
Passes(n, k, m) ==
    /\ Holding(n, k, m) /\ m \in Msg
    /\ loop' = [loop EXCEPT ![n][k] = NextMessage(loop[n][k])]
    /\ \E d \in BOOLEAN : Adds(pipe[n], pipe'[n], d, m)
    /\ Held(pipe'[n]) \subseteq Held(pipe[n]) \cup {m}

LEMMA LighterAlone ==
    ASSUME ProcInv, NEW n \in Node, NEW r, pipe' = [pipe EXCEPT ![n] = r], Lighter(pipe[n], r)
    PROVE  \A o \in Node : Lighter(pipe[o], pipe'[o])
<1>1. ASSUME NEW o \in Node PROVE Lighter(pipe[o], pipe'[o])
  <2>1. CASE o = n
    BY <2>1 DEF ProcInv
  <2>2. CASE o # n
    <3>1. pipe'[o] = pipe[o]
      BY <2>2 DEF ProcInv
    <3> QED
      BY <3>1 DEF Lighter, Calm
  <2> QED
    BY <2>1, <2>2
<1> QED
  BY <1>1

LEMMA PipesLie == ASSUME pipe' = pipe PROVE \A o \in Node : Lighter(pipe[o], pipe'[o])
BY DEF Lighter, Calm

LEMMA CloseBatchLightens ==
    ASSUME ProcInv, LimitInv, NEW n \in Node, NEW p \in Peer, CloseBatch(n, p)
    PROVE  \A o \in Node : Lighter(pipe[o], pipe'[o])
<1>1. PICK up : up = TRUE
  OBVIOUS
<1>2. PICK q : q = pipe[n]
  OBVIOUS
<1>3. PICK r : r = Close(q, up, p)
  OBVIOUS
<1>4. pipe' = [pipe EXCEPT ![n] = r] /\ proc[n] = "up"
  BY <1>1, <1>2, <1>3 DEF CloseBatch, Deliver, Up
<1>5. Fit(q)
  BY <1>2, <1>4, ShapeIs DEF LimitInv, Limits, Fit
<1>6. Calm(q, r)
  BY <1>1, <1>3, <1>5, FitClose
<1>7. Held(r) \subseteq Held(q)
  BY <1>3, <1>5, Closed DEF Fit, Loses
<1> QED
  BY <1>2, <1>4, <1>6, <1>7, LighterAlone DEF Lighter

LEMMA FinishLightens ==
    ASSUME ProcInv, NEW n \in Node, NEW p \in Peer, pipe[n].chain[p] # <<>>, NEW up,
           pipe' = [pipe EXCEPT ![n] = Finish(pipe[n], up, p)]
    PROVE  \A o \in Node : Lighter(pipe[o], pipe'[o])
<1>1. PICK q : q = pipe[n]
  OBVIOUS
<1>2. PICK r : r = Finish(q, up, p)
  OBVIOUS
<1>3. Sound(q) /\ q.chain[p] # <<>>
  BY <1>1, ShapeIs
<1>4. Calm(q, r)
  BY <1>2, <1>3, FinishCalm
<1>5. PICK S : S = ToSet(Head(q.chain[p]).msgs)
  OBVIOUS
<1>6. Gives(q, r, S)
  BY <1>2, <1>3, <1>5, Finished
<1>7. Held(r) \subseteq Held(q)
  BY <1>6 DEF Gives
<1> QED
  BY <1>1, <1>2, <1>4, <1>7, LighterAlone DEF Lighter

LEMMA BeginJobLightens ==
    ASSUME ProcInv, NEW n \in Node, NEW p \in Peer, BeginJob(n, p)
    PROVE  \A o \in Node : Lighter(pipe[o], pipe'[o])
<1>1. pipe[n].chain[p] # <<>>
  BY DEF BeginJob
<1>2. CASE n \in client
  <2>1. PICK q : q = pipe[n]
    OBVIOUS
  <2>2. PICK r : r = [q EXCEPT !.busy = @ \cup {p}]
    OBVIOUS
  <2>3. pipe' = [pipe EXCEPT ![n] = r]
    BY <1>2, <2>1, <2>2 DEF BeginJob
  <2>4. Sound(q)
    BY <2>1, ShapeIs
  <2>5. Keeps(q, r) /\ r.open = q.open /\ r.inbox = q.inbox /\ r.chain = q.chain
    BY <1>1, <2>1, <2>2, <2>4, Begun
  <2>6. Calm(q, r)
    BY <2>5, AlikeCalm
  <2> QED
    BY <2>1, <2>3, <2>5, <2>6, LighterAlone DEF Lighter, Keeps
<1>3. CASE n \notin client
  <2>1. PICK up : up = Up(n)
    OBVIOUS
  <2>2. pipe' = [pipe EXCEPT ![n] = Finish(pipe[n], up, p)]
    BY <1>3, <2>1 DEF BeginJob
  <2> QED
    BY <1>1, <2>2, FinishLightens
<1> QED
  BY <1>2, <1>3

LEMMA EndJobLightens ==
    ASSUME ProcInv, NEW n \in Node, NEW p \in Peer, EndJob(n, p)
    PROVE  \A o \in Node : Lighter(pipe[o], pipe'[o])
<1>1. PICK up : up = Up(n)
  OBVIOUS
<1>2. pipe' = [pipe EXCEPT ![n] = Finish(pipe[n], up, p)]
  BY <1>1 DEF EndJob
<1>3. pipe[n].chain[p] # <<>>
  BY ShapeIs DEF EndJob, Sound
<1> QED
  BY <1>2, <1>3, FinishLightens

LEMMA StopLightens ==
    ASSUME ProcInv, LimitInv, NEW n \in Node, Stop(n)
    PROVE  \A o \in Node : Lighter(pipe[o], pipe'[o])
<1>1. PICK q : q = pipe[n]
  OBVIOUS
<1>2. PICK order \in SetToSeqs(Peer) : pipe' = [pipe EXCEPT ![n] = Flush(q, order)]
  BY <1>1 DEF Stop, Deliver
<1>3. PICK r : r = Flush(q, order)
  OBVIOUS
<1>4. Fit(q)
  BY <1>1, ShapeIs DEF Stop, Up, LimitInv, Limits, Fit
<1>5. Calm(q, r)
  BY <1>3, <1>4, FitFlush
<1>6. Held(r) \subseteq Held(q)
  BY <1>3, <1>4, FlushLoses DEF Fit, Loses
<1> QED
  BY <1>1, <1>2, <1>3, <1>5, <1>6, LighterAlone DEF Lighter

LEMMA DrainNextLightens ==
    ASSUME ProcInv, NEW n \in Node, DrainNext(n)
    PROVE  \A o \in Node : Lighter(pipe[o], pipe'[o])
<1>1. PICK q : q = pipe[n]
  OBVIOUS
<1>2. PICK r : r = Enchain([q EXCEPT !.inbox = Tail(@)], [Head(q.inbox) EXCEPT !.drain = TRUE])
  OBVIOUS
<1>3. pipe' = [pipe EXCEPT ![n] = r] /\ q.inbox # <<>>
  BY <1>1, <1>2 DEF DrainNext
<1>4. Sound(q)
  BY <1>1, ShapeIs
<1>5. Calm(q, r)
  BY <1>2, <1>3, <1>4, DrainCalm
<1>6. Keeps(q, r)
  BY <1>2, <1>3, <1>4, Drained
<1> QED
  BY <1>1, <1>3, <1>5, <1>6, LighterAlone DEF Lighter, Keeps

LEMMA NothingFollows == \A p \in Peer : \A x, y : ~Follows(EmptyPipe, p, x, y)
<1>1. EmptyPipe.inbox = <<>> /\ \A p \in Peer : EmptyPipe.chain[p] = <<>> /\ EmptyPipe.open[p] = <<>>
  BY DEF EmptyPipe
<1>2. ASSUME NEW p \in Peer, NEW x, NEW y, Follows(EmptyPipe, p, x, y) PROVE FALSE
  <2>1. PICK last : last = NewJob(EmptyPipe.open[p], FALSE)
    OBVIOUS
  <2>2. last.msgs = <<>>
    BY <1>1, <2>1 DEF NewJob
  <2>3. Lines(<<>>, <<>>, last, x, y)
    BY <1>1, <1>2, <2>1 DEF Follows
  <2>4. ~In(last, x) /\ ~In(last, y) /\ ~Within(last, x, y)
    BY <2>2, NoItems
  <2> QED
    BY <2>3, <2>4 DEF Lines, Precedes, Stands
<1> QED
  BY <1>2

LEMMA GoneLightens ==
    ASSUME ProcInv, NEW n \in Node, NEW reason, Gone(n, reason)
    PROVE  \A o \in Node : Lighter(pipe[o], pipe'[o])
<1>1. pipe' = [pipe EXCEPT ![n] = EmptyPipe]
  BY DEF Gone
<1>2. Lighter(pipe[n], EmptyPipe)
  BY NothingFollows, EmptySound DEF Lighter, Calm
<1> QED
  BY <1>1, <1>2, LighterAlone

\* Only the process of the loop that passes a message on is touched.
LEMMA RouteDirectPasses ==
    ASSUME ClaimInv, ProcInv, NEW n \in Node, NEW k \in Slot, RouteDirect(n, k)
    PROVE  \A o \in Node : Lighter(pipe[o], pipe'[o]) \/ (o = n /\ \E m : Passes(n, k, m))
<1>1. PICK q : q = pipe[n]
  OBVIOUS
<1>2. PICK m : m = Head(loop[n][k].batch)
  OBVIOUS
<1>3. PICK job : job = NewJob(<<m>>, TRUE)
  OBVIOUS
<1>4. PICK up : up = Up(n)
  OBVIOUS
<1>5. PICK r : r = Push(q, up, job)
  OBVIOUS
<1>6. /\ loop' = [loop EXCEPT ![n][k] = NextMessage(loop[n][k])]
      /\ pipe' = [pipe EXCEPT ![n] = r] /\ loop[n][k].pc = "route"
  BY <1>1, <1>2, <1>3, <1>4, <1>5 DEF RouteDirect, Deliver, Goto
<1>7. Holding(n, k, m) /\ m \in Msg
  BY <1>2, <1>6, LoopFacts DEF Holding
<1>8. WellMade(job) /\ ToSet(job.msgs) = {m}
  BY <1>2, <1>3, <1>6, DirectJob
<1>9. Sound(q)
  BY <1>1, ShapeIs
<1>10. PICK d \in BOOLEAN : d = TRUE
  OBVIOUS
<1>11. Adds(q, r, d, m) \/ r = q
  BY <1>3, <1>5, <1>7, <1>8, <1>9, <1>10, PushAdds
<1>12. Gains(q, r, ToSet(job.msgs)) \/ r = q
  BY <1>5, <1>8, <1>9, Pushed
<1>13. Held(r) \subseteq Held(q) \cup {m}
  BY <1>8, <1>12 DEF Gains
<1>14. CASE r = q
  <2>1. Lighter(pipe[n], r)
    BY <1>1, <1>14 DEF Lighter, Calm
  <2> QED
    BY <1>6, <2>1, LighterAlone
<1>15. CASE Adds(q, r, d, m)
  <2>1. pipe'[n] = r /\ \A o \in Node : o # n => pipe'[o] = pipe[o]
    BY <1>6 DEF ProcInv
  <2>2. Passes(n, k, m)
    BY <1>1, <1>6, <1>7, <1>13, <1>15, <2>1 DEF Passes
  <2>3. \A o \in Node : o # n => Lighter(pipe[o], pipe'[o])
    BY <2>1 DEF Lighter, Calm
  <2> QED
    BY <2>2, <2>3
<1> QED
  BY <1>11, <1>14, <1>15

LEMMA RouteBatchPasses ==
    ASSUME ClaimInv, ProcInv, NEW n \in Node, NEW k \in Slot, RouteBatch(n, k)
    PROVE  \A o \in Node : Lighter(pipe[o], pipe'[o]) \/ (o = n /\ \E m : Passes(n, k, m))
<1>1. PICK q : q = pipe[n]
  OBVIOUS
<1>2. PICK m : m = Head(loop[n][k].batch)
  OBVIOUS
<1>3. /\ loop' = [loop EXCEPT ![n][k] = NextMessage(loop[n][k])]
      /\ loop[n][k].pc = "route"
  BY DEF RouteBatch, Goto
<1>4. Holding(n, k, m) /\ m \in Msg
  BY <1>2, <1>3, LoopFacts DEF Holding
<1>5. CASE ~Up(n)
  <2>1. pipe' = pipe
    BY <1>5 DEF RouteBatch
  <2> QED
    BY <2>1, PipesLie
<1>6. CASE Up(n)
  <2>1. PICK r : r = AddItem(q, PeerOf[m], m)
    OBVIOUS
  <2>2. pipe' = [pipe EXCEPT ![n] = r]
    BY <1>1, <1>2, <1>6, <2>1 DEF RouteBatch
  <2>3. Sound(q)
    BY <1>1, ShapeIs
  <2>4. PICK d \in BOOLEAN : d = FALSE
    OBVIOUS
  <2>5. Adds(q, r, d, m)
    BY <1>4, <2>1, <2>3, <2>4, AddAdds
  <2>6. Held(r) \subseteq Held(q) \cup {m}
    BY <1>4, <2>1, <2>3, Added DEF Gains
  <2>7. pipe'[n] = r /\ \A o \in Node : o # n => pipe'[o] = pipe[o]
    BY <2>2 DEF ProcInv
  <2>8. Passes(n, k, m)
    BY <1>1, <1>3, <1>4, <2>5, <2>6, <2>7 DEF Passes
  <2>9. \A o \in Node : o # n => Lighter(pipe[o], pipe'[o])
    BY <2>7 DEF Lighter, Calm
  <2> QED
    BY <2>8, <2>9
<1> QED
  BY <1>5, <1>6

LEMMA PipeStep ==
    ASSUME ClaimInv, ProcInv, LimitInv, [Next]_vars, NEW o \in Node
    PROVE  Lighter(pipe[o], pipe'[o]) \/ \E k \in Slot : \E m : Passes(o, k, m)
<1>1. CASE UNCHANGED vars
  BY <1>1, PipesLie DEF vars
<1>2. ASSUME NEW n \in Node, Live(n) PROVE Lighter(pipe[o], pipe'[o])
  <2>1. CASE Boot(n) \/ DropLoop(n) \/ DrainDone(n) \/ FinishStopping(n)
    BY <2>1, PipesLie DEF Boot, DropLoop, DrainDone, FinishStopping
  <2> QED
    BY <1>2, <2>1, StopLightens, DrainNextLightens, GoneLightens DEF Live, Exit, Crash
<1>3. ASSUME NEW n \in Node, NEW k \in Slot, Poll(n, k)
      PROVE  Lighter(pipe[o], pipe'[o]) \/ \E j \in Slot : \E m : Passes(o, j, m)
  <2>1. CASE RouteDirect(n, k) \/ RouteBatch(n, k)
    BY <2>1, RouteDirectPasses, RouteBatchPasses
  <2>2. CASE ~(RouteDirect(n, k) \/ RouteBatch(n, k))
    <3>1. pipe' = pipe
      BY <1>3, <2>2 DEF Poll, StartLoop, BootLoop, EndLoop, QuitLoop, GetUpdates, Claim, SaveCursor
    <3> QED
      BY <3>1, PipesLie
  <2> QED
    BY <2>1, <2>2
<1>4. ASSUME NEW n \in Node, NEW p \in Peer, Reply(n, p) PROVE Lighter(pipe[o], pipe'[o])
  BY <1>4, CloseBatchLightens, BeginJobLightens, EndJobLightens DEF Reply
<1>5. ASSUME NEW m \in Msg, ExpireSeen(m) PROVE Lighter(pipe[o], pipe'[o])
  BY <1>5, PipesLie DEF ExpireSeen
<1> QED
  BY <1>1, <1>2, <1>3, <1>4, <1>5 DEF Next

\* The marks stay: whose claim Redis did not guard remains so.
LEMMA WeakGrows == ASSUME [Next]_vars PROVE weak \subseteq weak'
<1>1. CASE UNCHANGED vars
  BY <1>1 DEF vars, past
<1>2. ASSUME NEW n \in Node, Live(n) PROVE weak' = weak
  BY <1>2 DEF Live, Boot, DropLoop, Stop, DrainNext, DrainDone, FinishStopping, Exit, Crash, Gone, past
<1>3. ASSUME NEW n \in Node, NEW k \in Slot, Poll(n, k) PROVE weak \subseteq weak'
  <2>1. CASE Claim(n, k)
    BY <2>1 DEF Claim
  <2> QED
    BY <1>3, <2>1 DEF Poll, StartLoop, BootLoop, EndLoop, QuitLoop, GetUpdates, RouteDirect,
       RouteBatch, SaveCursor, past
<1>4. ASSUME NEW n \in Node, NEW p \in Peer, Reply(n, p) PROVE weak' = weak
  BY <1>4 DEF Reply, CloseBatch, BeginJob, EndJob
<1>5. ASSUME NEW m \in Msg, ExpireSeen(m) PROVE weak \subseteq weak'
  BY <1>5 DEF ExpireSeen
<1> QED
  BY <1>1, <1>2, <1>3, <1>4, <1>5 DEF Next

-----------------------------------------------------------------------------
(* Where a claimed message is                                              *)

Unsettled(m) == answered[m] = 0 /\ lost[m] = "no"

\* The messages some copy of which is answered after another one.
Twice(q) ==
    {m \in Msg : \E p \in Peer : \E d, e \in BOOLEAN : Follows(q, p, <<d, m>>, <<e, m>>)}

\* Of the messages Redis guards, process n has none in two hands, or in hand and
\* in the pipe.
Single(n) ==
    /\ Held(pipe[n]) \cap InHand(n) \subseteq weak
    /\ \A j, k \in Slot : \A m \in Msg \ weak : Holding(n, j, m) /\ Holding(n, k, m) => j = k

\* What processes hold, what was answered and what was lost was claimed before.
\* A message Redis guards is in one place only, and neither answered nor lost
\* while it is there; once it is nowhere it is one of these, and once only.
PlaceInv ==
    /\ answered \in [Msg -> 0..2] /\ lost \in [Msg -> Reason]
    /\ \A n \in Node : Has(n) \subseteq claimed
    /\ \A m \in Msg : ~Unsettled(m) => m \in claimed
    /\ claimed \ weak \subseteq seen
    /\ \A n \in Node : Single(n)
    /\ \A n, o \in Node : n # o => Has(n) \cap Has(o) \subseteq weak
    /\ \A n \in Node : \A m \in Has(n) \ weak : Unsettled(m)
    /\ \A m \in claimed \ weak : Unsettled(m) => \E n \in Node : m \in Has(n)
    /\ \A m \in Msg \ weak : answered[m] = 0 \/ (answered[m] = 1 /\ lost[m] = "no")

LoneInv == \A n \in Node : Twice(pipe[n]) \subseteq weak

fates == [m \in Msg |-> Fate(m)]
Step == Promise!Next \/ fates' = fates

LEMMA HandIs ==
    ASSUME NEW n, NEW m
    PROVE  m \in InHand(n) <=> \E k \in Slot : Holding(n, k, m)
BY DEF InHand, Holding

\* Process n gets no message and passes none on; no process does.
HandsSame(n) == \A k \in Slot : \A m : Holding(n, k, m)' <=> Holding(n, k, m)
SameHands == \A n \in Node : HandsSame(n)

LEMMA SameHandsIs ==
    ASSUME NEW n \in Node, HandsSame(n), weak \subseteq weak'
    PROVE  /\ InHand(n)' = InHand(n)
           /\ pipe'[n] = pipe[n] => Has(n)' = Has(n) /\ (Single(n) => Single(n)')
<1>1. ASSUME NEW m PROVE m \in InHand(n)' <=> m \in InHand(n)
  <2>1. m \in InHand(n)' <=> \E k \in Slot : Holding(n, k, m)'
    BY DEF InHand, Holding
  <2> QED
    BY <2>1, HandIs DEF HandsSame
<1>2. InHand(n)' = InHand(n)
  BY <1>1
<1>3. ASSUME pipe'[n] = pipe[n] PROVE Has(n)' = Has(n)
  BY <1>2, <1>3 DEF Has
<1>4. ASSUME pipe'[n] = pipe[n] PROVE Single(n) => Single(n)'
  <2>1. Held(pipe[n])' = Held(pipe[n])
    BY <1>4
  <2>2. \A j, k \in Slot : \A m \in Msg :
          (Holding(n, j, m) /\ Holding(n, k, m))' <=> (Holding(n, j, m) /\ Holding(n, k, m))
    BY DEF HandsSame
  <2> QED
    BY <1>2, <2>1, <2>2 DEF Single
<1> QED
  BY <1>2, <1>3, <1>4

LEMMA PlacesStay ==
    ASSUME PlaceInv, SameHands, UNCHANGED <<pipe, claimed, answered, lost, weak, seen>>
    PROVE  PlaceInv' /\ fates' = fates
<1>1. \A n \in Node : Has(n)' = Has(n) /\ (Single(n) => Single(n)')
  BY SameHandsIs DEF SameHands
<1>2. \A m : Unsettled(m)' <=> Unsettled(m)
  BY DEF Unsettled
<1>3. PlaceInv'
  BY <1>1, <1>2 DEF PlaceInv
<1>4. fates' = fates
  BY DEF fates, Fate
<1> QED
  BY <1>3, <1>4

\* One loop goes on and neither had a message in hand nor has one now.
LEMMA HandsStay ==
    ASSUME ClaimInv, NEW n \in Node, NEW k \in Slot, NEW state,
           loop' = [loop EXCEPT ![n][k] = state], loop[n][k].pc # "route", state.pc # "route"
    PROVE  SameHands
<1>1. ASSUME NEW o \in Node, NEW j \in Slot PROVE loop'[o][j] = IF o = n /\ j = k THEN state ELSE loop[o][j]
  BY DEF ClaimInv
<1>2. ASSUME NEW o \in Node, NEW j \in Slot, NEW m PROVE Holding(o, j, m)' <=> Holding(o, j, m)
  BY <1>1 DEF Holding
<1> QED
  BY <1>2 DEF SameHands, HandsSame

\* What becomes of the messages S: dropped, or answered together.
Dropped(S) == answered' = answered /\ \E reason \in Reason \ {"no"} : lost' = Mark(S, reason)
Replied(S) ==
    /\ lost' = lost /\ \E p \in Peer : \A m \in S : PeerOf[m] = p
    /\ answered' = [m \in Msg |-> IF m \in S /\ answered[m] < 2 THEN answered[m] + 1 ELSE answered[m]]

\* Process n passes messages on, and S is settled and in it no longer.
Moves(n, S) ==
    /\ \A o \in Node : o # n => Has(o)' = Has(o) /\ (Single(o) => Single(o)')
    /\ Has(n)' \subseteq Has(n) /\ S \subseteq Has(n) /\ Has(n) \subseteq Has(n)' \cup S
    /\ Single(n) => Single(n)' /\ S \cap Has(n)' \subseteq weak
    /\ Dropped(S) \/ Replied(S)

LEMMA SettleIs ==
    ASSUME PlaceInv, NEW S, Dropped(S) \/ Replied(S)
    PROVE  /\ answered' \in [Msg -> 0..2] /\ lost' \in [Msg -> Reason]
           /\ \A m \in Msg \ S : answered'[m] = answered[m] /\ lost'[m] = lost[m]
           /\ \A m \in Msg : m \in S => ~Unsettled(m)'
           /\ \A m \in Msg : m \in S /\ Unsettled(m) =>
                answered'[m] = 0 \/ (answered'[m] = 1 /\ lost'[m] = "no")
<1>1. CASE Dropped(S)
  <2>1. PICK reason \in Reason \ {"no"} : lost' = Mark(S, reason)
    BY <1>1 DEF Dropped
  <2> QED
    BY <1>1, <2>1 DEF Dropped, Mark, PlaceInv, Unsettled
<1>2. CASE Replied(S)
  <2>1. answered \in [Msg -> 0..2] /\ lost' = lost
    BY <1>2 DEF PlaceInv, Replied
  <2>2. \A m \in Msg : answered[m] \in 0..2 /\ (answered[m] < 2 => answered[m] + 1 \in 0..2)
    BY <2>1
  <2>3. answered' \in [Msg -> 0..2]
    BY <1>2, <2>2 DEF Replied
  <2>4. \A m \in Msg \ S : answered'[m] = answered[m]
    BY <1>2 DEF Replied
  <2>5. ASSUME NEW m \in Msg, m \in S
        PROVE  answered'[m] # 0 /\ (Unsettled(m) => answered'[m] = 1 /\ lost[m] = "no")
    <3>1. answered'[m] = IF answered[m] < 2 THEN answered[m] + 1 ELSE answered[m]
      BY <1>2, <2>5 DEF Replied
    <3> QED
      BY <2>2, <3>1 DEF Unsettled
  <2>6. \A m \in Msg : m \in S => ~Unsettled(m)'
    BY <2>5 DEF Unsettled
  <2>7. lost' \in [Msg -> Reason]
    BY <2>1 DEF PlaceInv
  <2> QED
    BY <2>1, <2>3, <2>4, <2>5, <2>6, <2>7
<1> QED
  BY <1>1, <1>2

LEMMA MovesPlace ==
    ASSUME ClaimInv, PlaceInv, NEW n \in Node, NEW S, Moves(n, S),
           UNCHANGED <<claimed, weak, seen>>
    PROVE  PlaceInv'
<1>1. /\ answered' \in [Msg -> 0..2] /\ lost' \in [Msg -> Reason]
      /\ \A m \in Msg \ S : answered'[m] = answered[m] /\ lost'[m] = lost[m]
      /\ \A m \in Msg : m \in S => ~Unsettled(m)'
      /\ \A m \in Msg : m \in S /\ Unsettled(m) =>
           answered'[m] = 0 \/ (answered'[m] = 1 /\ lost'[m] = "no")
  BY SettleIs DEF Moves
<1>2. \A o \in Node : Has(o)' \subseteq Has(o) /\ Has(o) \subseteq claimed
  BY DEF Moves, PlaceInv
<1>3. S \subseteq claimed /\ claimed \subseteq Msg
  BY DEF Moves, PlaceInv, ClaimInv
<1>4. ASSUME NEW m \in Msg, ~Unsettled(m)' PROVE m \in claimed'
  <2>1. CASE m \in S
    BY <1>3, <2>1
  <2>2. CASE m \notin S
    BY <1>1, <1>4, <2>2 DEF Unsettled, PlaceInv
  <2> QED
    BY <2>1, <2>2
<1>5. /\ claimed \ weak \subseteq seen /\ \A o \in Node : Single(o)
      /\ \A o, u \in Node : o # u => Has(o) \cap Has(u) \subseteq weak
      /\ \A o \in Node : \A m \in Has(o) \ weak : Unsettled(m)
      /\ \A m \in claimed \ weak : Unsettled(m) => \E o \in Node : m \in Has(o)
      /\ \A m \in Msg \ weak : answered[m] = 0 \/ (answered[m] = 1 /\ lost[m] = "no")
  BY DEF PlaceInv
<1>6. \A o \in Node : Single(o)'
  BY <1>5 DEF Moves
<1>7. \A o, u \in Node : o # u => Has(o)' \cap Has(u)' \subseteq weak'
  BY <1>2, <1>5
<1>8. /\ S \cap Has(n)' \subseteq weak /\ S \subseteq Has(n) /\ Has(n) \subseteq Has(n)' \cup S
      /\ \A o \in Node : o # n => Has(o)' = Has(o)
  BY <1>5 DEF Moves
<1>9. ASSUME NEW o \in Node, NEW m \in Has(o)' \ weak PROVE Unsettled(m)'
  <2>1. m \in Has(o) /\ Unsettled(m) /\ m \in Msg
    BY <1>2, <1>3, <1>5, <1>9
  <2>2. m \notin S
    <3>1. CASE o = n
      BY <1>8, <1>9, <3>1
    <3>2. CASE o # n
      BY <1>5, <1>8, <1>9, <2>1, <3>2
    <3> QED
      BY <3>1, <3>2
  <2> QED
    BY <1>1, <2>1, <2>2 DEF Unsettled
<1>10. ASSUME NEW m \in claimed \ weak, Unsettled(m)' PROVE \E o \in Node : m \in Has(o)'
  <2>1. m \in Msg /\ m \notin S
    BY <1>1, <1>3, <1>10
  <2>2. Unsettled(m)
    BY <1>1, <1>10, <2>1 DEF Unsettled
  <2>3. PICK o \in Node : m \in Has(o)
    BY <1>5, <1>10, <2>2
  <2> QED
    BY <1>8, <2>1, <2>3
<1>11. ASSUME NEW m \in Msg \ weak
       PROVE  answered'[m] = 0 \/ (answered'[m] = 1 /\ lost'[m] = "no")
  <2>1. CASE m \in S
    <3>1. Unsettled(m)
      BY <1>5, <1>8, <2>1
    <3> QED
      BY <1>1, <2>1, <3>1
  <2>2. CASE m \notin S
    BY <1>1, <1>5, <2>2
  <2> QED
    BY <2>1, <2>2
<1>12. \A o \in Node : Has(o)' \subseteq claimed'
  BY <1>2
<1> QED
  BY <1>1, <1>4, <1>5, <1>6, <1>7, <1>9, <1>10, <1>11, <1>12 DEF PlaceInv

LEMMA MovesStep ==
    ASSUME ClaimInv, PlaceInv, NEW n \in Node, NEW S, Moves(n, S), weak = {}, claimed' = claimed
    PROVE  Step
<1>1. S \subseteq claimed /\ claimed \subseteq Msg /\ \A m \in S : Unsettled(m)
  BY DEF Moves, PlaceInv, ClaimInv
<1>2. \A m \in S : fates[m] = "claimed"
  <2> SUFFICES ASSUME NEW m \in S PROVE Fate(m) = "claimed"
    BY <1>1 DEF fates
  <2>1. answered[m] = 0 /\ lost[m] = "no" /\ m \in claimed
    BY <1>1 DEF Unsettled
  <2>2. ~(answered[m] > 0)
    BY <2>1
  <2> QED
    BY <2>1, <2>2 DEF Fate
<1>3. /\ \A m \in Msg \ S : answered'[m] = answered[m] /\ lost'[m] = lost[m]
      /\ answered \in [Msg -> 0..2]
  BY SettleIs DEF Moves, PlaceInv
<1>4. \A m \in Msg \ S : fates'[m] = fates[m]
  BY <1>3 DEF fates, Fate
<1>5. CASE Dropped(S)
  <2>1. PICK reason \in Reason \ {"no"} : lost' = Mark(S, reason)
    BY <1>5 DEF Dropped
  <2>2. ASSUME NEW m \in S PROVE fates'[m] = "lost"
    <3>1. m \in Msg /\ answered'[m] = 0
      BY <1>1, <1>5 DEF Dropped, Unsettled
    <3>2. lost'[m] = reason
      BY <2>1, <3>1 DEF Mark
    <3>3. ~(answered'[m] > 0)
      BY <3>1
    <3>4. Fate(m)' = "lost"
      BY <3>2, <3>3 DEF Fate
    <3> QED
      BY <3>1, <3>4 DEF fates
  <2>3. fates' = [m \in Msg |-> IF m \in S THEN "lost" ELSE fates[m]]
    <3>1. \A m \in Msg : fates'[m] = IF m \in S THEN "lost" ELSE fates[m]
      BY <1>4, <2>2
    <3>2. fates' = [m \in Msg |-> fates'[m]]
      BY DEF fates
    <3> QED
      BY <3>1, <3>2
  <2>4. Promise!Settle(S, "lost")
    BY <1>2, <2>3 DEF Promise!Settle, fates
  <2> QED
    BY <1>1, <2>4 DEF Step, Promise!Next, Promise!Lose
<1>6. CASE Replied(S)
  <2>1. PICK p \in Peer : \A m \in S : PeerOf[m] = p
    BY <1>6 DEF Replied
  <2>2. ASSUME NEW m \in S PROVE fates'[m] = "answered"
    <3>1. m \in Msg /\ answered[m] = 0
      BY <1>1 DEF Unsettled
    <3>2. answered'[m] = 1
      BY <1>6, <2>2, <3>1 DEF Replied
    <3>3. answered'[m] > 0
      BY <3>2
    <3>4. Fate(m)' = "answered"
      BY <3>3 DEF Fate
    <3> QED
      BY <3>1, <3>4 DEF fates
  <2>3. fates' = [m \in Msg |-> IF m \in S THEN "answered" ELSE fates[m]]
    <3>1. \A m \in Msg : fates'[m] = IF m \in S THEN "answered" ELSE fates[m]
      BY <1>4, <2>2
    <3>2. fates' = [m \in Msg |-> fates'[m]]
      BY DEF fates
    <3> QED
      BY <3>1, <3>2
  <2>4. Promise!Settle(S, "answered")
    BY <1>2, <2>3 DEF Promise!Settle, fates
  <2>5. S \in SUBSET {m \in Msg : PeerOf[m] = p}
    BY <1>1, <2>1
  <2> QED
    BY <2>1, <2>4, <2>5 DEF Step, Promise!Next, Promise!Answer
<1> QED
  BY <1>5, <1>6 DEF Moves

\* Of the messages in the pipe of n, some (S) are settled and others kept.
LEMMA PipeMovesOn ==
    ASSUME ProcInv, NEW n \in Node, NEW r, NEW S, SameHands, weak' = weak,
           pipe' = [pipe EXCEPT ![n] = r], Loses(pipe[n], r, S),
           S \subseteq Held(pipe[n]), S \cap Held(r) \subseteq weak, Dropped(S) \/ Replied(S)
    PROVE  Moves(n, S)
<1>1. pipe'[n] = r /\ \A o \in Node : o # n => pipe'[o] = pipe[o]
  BY DEF ProcInv
<1>2. \A o \in Node : o # n => Has(o)' = Has(o) /\ (Single(o) => Single(o)')
  BY <1>1, SameHandsIs DEF SameHands
<1>3. InHand(n)' = InHand(n) /\ Has(n)' = Held(r) \cup InHand(n)
  <2>1. InHand(n)' = InHand(n)
    BY SameHandsIs DEF SameHands
  <2> QED
    BY <1>1, <2>1 DEF Has
<1>4. Held(r) \subseteq Held(pipe[n]) /\ Held(pipe[n]) \subseteq Held(r) \cup S
  BY DEF Loses
<1>5. Has(n)' \subseteq Has(n) /\ S \subseteq Has(n) /\ Has(n) \subseteq Has(n)' \cup S
  BY <1>3, <1>4 DEF Has
<1>6. ASSUME Single(n) PROVE Single(n)' /\ S \cap Has(n)' \subseteq weak
  <2>1. /\ Held(pipe[n]) \cap InHand(n) \subseteq weak
        /\ \A j, k \in Slot : \A m \in Msg \ weak : Holding(n, j, m) /\ Holding(n, k, m) => j = k
    BY <1>6 DEF Single
  <2>2. Held(pipe[n])' \cap InHand(n)' \subseteq weak'
    BY <1>1, <1>3, <1>4, <2>1
  <2>3. \A j, k \in Slot : \A m \in Msg \ weak' : Holding(n, j, m)' /\ Holding(n, k, m)' => j = k
    BY <2>1 DEF SameHands, HandsSame
  <2>4. Single(n)'
    BY <2>2, <2>3 DEF Single
  <2> QED
    BY <1>3, <2>1, <2>4
<1> QED
  BY <1>2, <1>5, <1>6 DEF Moves

LEMMA MovesSettle ==
    ASSUME ClaimInv, PlaceInv, NEW n \in Node, NEW S, Moves(n, S),
           UNCHANGED <<claimed, weak, seen>>
    PROVE  PlaceInv' /\ (weak = {} => Step)
<1>1. PlaceInv'
  BY MovesPlace
<1>2. ASSUME weak = {} PROVE Step
  BY <1>2, MovesStep
<1> QED
  BY <1>1, <1>2

\* A pipe that keeps its messages.
LEMMA KeepsMoves ==
    ASSUME ClaimInv, ProcInv, PlaceInv, NEW n \in Node, NEW r, SameHands,
           pipe' = [pipe EXCEPT ![n] = r], Keeps(pipe[n], r),
           UNCHANGED <<claimed, weak, seen, answered, lost>>
    PROVE  PlaceInv' /\ (weak = {} => Step)
<1>1. Dropped({})
  <2>1. lost = [m \in Msg |-> lost[m]]
    BY DEF PlaceInv
  <2>2. lost' = Mark({}, "full")
    BY <2>1 DEF Mark
  <2> QED
    BY <2>2 DEF Dropped, Reason
<1>2. PICK S : S = {}
  OBVIOUS
<1>3. Loses(pipe[n], r, S) /\ Dropped(S)
  BY <1>1, <1>2 DEF Keeps, Loses
<1>4. S \subseteq Held(pipe[n]) /\ S \cap Held(r) \subseteq weak
  BY <1>2
<1>5. Moves(n, S)
  BY <1>3, <1>4, PipeMovesOn
<1> QED
  BY <1>5, MovesSettle

LEMMA LoopUntouched == ASSUME loop' = loop PROVE SameHands
BY DEF SameHands, HandsSame, Holding

\* Loops are told to stop.
LEMMA LoopsTold ==
    ASSUME ClaimInv, NEW n \in Node,
           loop' = [loop EXCEPT ![n] = [k \in Slot |-> [@[k] EXCEPT !.live = FALSE]]]
    PROVE  SameHands
<1>1. ASSUME NEW o \in Node, NEW k \in Slot
      PROVE  loop'[o][k].pc = loop[o][k].pc /\ loop'[o][k].batch = loop[o][k].batch
  <2>1. loop[o][k] \in Loop
    BY DEF ClaimInv
  <2>2. CASE o # n
    BY <2>2 DEF ClaimInv
  <2>3. CASE o = n
    <3>1. loop'[o][k] = [loop[o][k] EXCEPT !.live = FALSE]
      BY <2>3 DEF ClaimInv
    <3> QED
      BY <2>1, <3>1 DEF Loop
  <2> QED
    BY <2>2, <2>3
<1>2. ASSUME NEW o \in Node, NEW k \in Slot, NEW m PROVE Holding(o, k, m)' <=> Holding(o, k, m)
  BY <1>1 DEF Holding
<1> QED
  BY <1>2 DEF SameHands, HandsSame

LEMMA CloseBatchPlace ==
    ASSUME ClaimInv, ProcInv, PlaceInv, NEW n \in Node, NEW p \in Peer, CloseBatch(n, p)
    PROVE  PlaceInv' /\ (weak = {} => Step)
<1>1. PICK up : up = TRUE
  OBVIOUS
<1>2. PICK q : q = pipe[n]
  OBVIOUS
<1>3. PICK r : r = Close(q, up, p)
  OBVIOUS
<1>4. PICK S : S = ToSet(q.open[p]) \ Held(r)
  OBVIOUS
<1>5. /\ pipe' = [pipe EXCEPT ![n] = r] /\ lost' = Mark(S, "full")
      /\ UNCHANGED <<claimed, weak, seen, answered, loop>>
  BY <1>1, <1>2, <1>3, <1>4 DEF CloseBatch, Deliver, store
<1>6. Sound(q)
  BY <1>2, ShapeIs
<1>7. Loses(q, r, ToSet(q.open[p]))
  BY <1>3, <1>6, Closed
<1>8. S \subseteq Held(q)
  <2>1. ToSet(q.open[p]) \subseteq Mine(q, p)
    BY DEF Mine
  <2> QED
    BY <1>4, <2>1, HeldIs
<1>9. Dropped(S)
  BY <1>5 DEF Dropped, Reason
<1>10. Loses(pipe[n], r, S) /\ S \cap Held(r) \subseteq weak
  BY <1>2, <1>4, <1>7 DEF Loses
<1>11. SameHands
  BY <1>5, LoopUntouched
<1>12. Moves(n, S)
  BY <1>2, <1>5, <1>8, <1>9, <1>10, <1>11, PipeMovesOn
<1> QED
  BY <1>5, <1>12, MovesSettle

LEMMA StopPlace ==
    ASSUME ClaimInv, ProcInv, PlaceInv, NEW n \in Node, Stop(n)
    PROVE  PlaceInv' /\ (weak = {} => Step)
<1>1. PICK q : q = pipe[n]
  OBVIOUS
<1>2. PICK order \in SetToSeqs(Peer) : Deliver(n, Flush(q, order), Opens(q))
  BY <1>1 DEF Stop, Opens
<1>3. PICK r : r = Flush(q, order)
  OBVIOUS
<1>4. PICK S : S = Opens(q) \ Held(r)
  OBVIOUS
<1>5. pipe' = [pipe EXCEPT ![n] = r] /\ lost' = Mark(S, "full")
  BY <1>2, <1>3, <1>4 DEF Deliver
<1>6. UNCHANGED <<claimed, weak, seen, answered>> /\ SameHands
  BY LoopsTold DEF Stop, store
<1>7. Sound(q)
  BY <1>1, ShapeIs
<1>8. Loses(q, r, Opens(q))
  BY <1>3, <1>7, FlushLoses
<1>9. S \subseteq Held(q)
  <2>1. \A m \in S : \E p \in Peer : m \in Mine(q, p)
    BY <1>4 DEF Opens, Mine
  <2> QED
    BY <2>1, HeldIs
<1>10. Dropped(S)
  BY <1>5, <1>6 DEF Dropped, Reason
<1>11. Loses(pipe[n], r, S) /\ S \cap Held(r) \subseteq weak
  BY <1>1, <1>4, <1>8 DEF Loses
<1>12. Moves(n, S)
  BY <1>1, <1>5, <1>6, <1>9, <1>10, <1>11, PipeMovesOn
<1> QED
  BY <1>6, <1>12, MovesSettle

\* A message in a job or a sequence of jobs is there as an item.
Shown(job, m) == \E e \in BOOLEAN : In(job, <<e, m>>)
AllShown(jobs, m) == \E e \in BOOLEAN : Stands(jobs, <<e, m>>)

LEMMA ItemOf ==
    ASSUME NEW m, NEW job, job.direct \in BOOLEAN, m \in ToSet(job.msgs) PROVE Shown(job, m)
BY DEF In, ToSet, Shown

LEMMA ItemsOf ==
    ASSUME NEW m, NEW jobs \in Seq(Job), m \in JobMsgs(jobs) PROVE AllShown(jobs, m)
<1>1. PICK i \in DOMAIN jobs : m \in ToSet(jobs[i].msgs)
  BY JobMsgsIs
<1>2. jobs[i] \in Job
  OBVIOUS
<1>3. jobs[i].direct \in BOOLEAN
  BY <1>2 DEF Job
<1>4. Shown(jobs[i], m)
  BY <1>1, <1>3, ItemOf
<1>5. PICK e \in BOOLEAN : In(jobs[i], <<e, m>>)
  BY <1>4 DEF Shown
<1> QED
  BY <1>1, <1>5 DEF Stands, AllShown

\* What the job at the head of a chain shares with the rest of the pipe stands
\* after it there.
LEMMA FinishTwice ==
    ASSUME NEW q, Sound(q), NEW up, NEW p \in Peer, q.chain[p] # <<>>
    PROVE  ToSet(Head(q.chain[p]).msgs) \cap Held(Finish(q, up, p)) \subseteq Twice(q)
<1>1. PICK first : first = Head(q.chain[p])
  OBVIOUS
<1>2. PICK d : d = Shorter(q, p)
  OBVIOUS
<1>3. PICK jobs \in Seq(Job) : jobs = q.chain[p] /\ jobs # <<>> /\ first = Head(jobs)
  BY <1>1, PipeFacts
<1>4. first \in Job /\ first.direct \in BOOLEAN
  <2>1. first \in Job
    BY <1>3
  <2> QED
    BY <2>1 DEF Job
<1>5. PICK S : S = ToSet(first.msgs)
  OBVIOUS
<1>6. Gives(q, d, S)
  BY <1>1, <1>2, <1>5, Unchained DEF Shorter
<1>7. Held(Finish(q, up, p)) = Held(d)
  <2>1. Finish(q, up, p) = TakeNext(d, up)
    BY <1>2 DEF Finish, Shorter
  <2>2. Keeps(d, TakeNext(d, up))
    BY <1>6, NextTaken DEF Gives
  <2> QED
    BY <2>1, <2>2 DEF Keeps
<1>8. d.open = q.open /\ d.inbox = q.inbox /\ d.chain[p] = Tail(jobs)
  BY <1>2, <1>3, ShorterIs, ShorterChain
<1>9. ASSUME NEW m \in S, m \in Held(d) PROVE m \in Twice(q)
  <2>1. S \subseteq JobMsgs(jobs)
    BY <1>3, <1>5, TailJobs
  <2>2. m \in Mine(q, p)
    BY <1>3, <1>9, <2>1 DEF Mine
  <2>3. PeerOf[m] = p /\ m \in Msg
    <3>1. first.msgs \in Seq(Msg)
      BY <1>4 DEF Job
    <3> QED
      BY <1>5, <1>9, <2>2, <3>1, SetIs DEF Sound
  <2>4. m \in ToSet(q.open[p]) \/ m \in JobMsgs(Tail(jobs)) \/ m \in JobMsgs(q.inbox)
    <3>1. CASE m \in JobMsgs(d.inbox)
      BY <1>8, <3>1
    <3>2. ASSUME NEW o \in Peer, m \in Mine(d, o) PROVE m \in Mine(d, p)
      BY <1>6, <2>3, <3>2 DEF Gives, Sound
    <3> QED
      BY <1>8, <1>9, <3>1, <3>2, HeldIs DEF Mine
  <2>5. PICK e \in BOOLEAN : In(first, <<e, m>>)
    <3>1. Shown(first, m)
      BY <1>4, <1>5, <1>9, ItemOf
    <3> QED
      BY <3>1 DEF Shown
  <2>6. PICK x : x = <<e, m>>
    OBVIOUS
  <2>7. In(first, x) /\ Stands(jobs, x)
    BY <1>3, <2>5, <2>6, HeadFirst
  <2>8. PICK last : last = NewJob(q.open[p], FALSE)
    OBVIOUS
  <2>9. PICK f \in BOOLEAN : \/ Stands(Tail(jobs), <<f, m>>) \/ Stands(q.inbox, <<f, m>>)
                            \/ In(last, <<f, m>>)
    <3>1. last.direct \in BOOLEAN /\ last.msgs = q.open[p]
      BY <2>8 DEF NewJob
    <3>2. Tail(jobs) \in Seq(Job) /\ q.inbox \in Seq(Job)
      BY <1>3, PipeFacts
    <3>3. Shown(last, m) \/ AllShown(Tail(jobs), m) \/ AllShown(q.inbox, m)
      <4>1. m \in ToSet(q.open[p]) => Shown(last, m)
        <5>1. ASSUME m \in ToSet(last.msgs) PROVE Shown(last, m)
          BY <3>1, <5>1, ItemOf
        <5> QED
          BY <3>1, <5>1
      <4>2. PICK rest \in Seq(Job) : rest = Tail(jobs)
        BY <3>2
      <4>3. PICK box \in Seq(Job) : box = q.inbox
        BY <3>2
      <4>4. m \in JobMsgs(rest) => AllShown(rest, m)
        BY ItemsOf
      <4>5. m \in JobMsgs(box) => AllShown(box, m)
        BY ItemsOf
      <4> QED
        BY <2>4, <4>1, <4>2, <4>3, <4>4, <4>5
    <3> QED
      BY <3>3 DEF Shown, AllShown
  <2>10. PICK y : y = <<f, m>>
    OBVIOUS
  <2>11. Lines(jobs, q.inbox, last, x, y)
    <3>1. CASE Stands(Tail(jobs), y)
      BY <1>3, <2>7, <3>1, HeadFirst DEF Lines
    <3>2. CASE Stands(q.inbox, y) \/ In(last, y)
      BY <2>7, <3>2 DEF Lines
    <3> QED
      BY <2>9, <2>10, <3>1, <3>2
  <2>12. Follows(q, p, <<e, m>>, <<f, m>>)
    BY <1>3, <2>3, <2>6, <2>8, <2>10, <2>11 DEF Follows
  <2> QED
    BY <2>3, <2>12 DEF Twice
<1> QED
  BY <1>1, <1>5, <1>7, <1>9

\* The job at the head of a chain is over: its messages are settled.
LEMMA FinishPlace ==
    ASSUME ClaimInv, ProcInv, LoneInv, PlaceInv, NEW n \in Node, NEW p \in Peer, NEW q, q = pipe[n],
           q.chain[p] # <<>>, NEW up, pipe' = [pipe EXCEPT ![n] = Finish(q, up, p)],
           NEW S, S = ToSet(Head(q.chain[p]).msgs), Dropped(S) \/ Replied(S),
           UNCHANGED <<claimed, weak, seen, loop>>
    PROVE  PlaceInv' /\ (weak = {} => Step)
<1>1. Sound(q)
  BY ShapeIs
<1>2. PICK r : r = Finish(q, up, p)
  OBVIOUS
<1>3. Gives(q, r, S)
  BY <1>1, <1>2, Finished
<1>4. Loses(pipe[n], r, S) /\ S \subseteq Held(pipe[n]) /\ S \cap Held(r) \subseteq weak
  <2>1. S \cap Held(r) \subseteq Twice(q)
    BY <1>1, <1>2, FinishTwice
  <2>2. Twice(q) \subseteq weak
    BY DEF LoneInv
  <2> QED
    BY <1>3, <2>1, <2>2 DEF Gives, Loses
<1>5. SameHands
  BY LoopUntouched
<1>6. pipe' = [pipe EXCEPT ![n] = r]
  BY <1>2
<1>7. Moves(n, S)
  BY <1>4, <1>5, <1>6, PipeMovesOn
<1> QED
  BY <1>7, MovesSettle

LEMMA BeginJobPlace ==
    ASSUME ClaimInv, ProcInv, LoneInv, PlaceInv, NEW n \in Node, NEW p \in Peer, BeginJob(n, p)
    PROVE  PlaceInv' /\ (weak = {} => Step)
<1>1. PICK q : q = pipe[n]
  OBVIOUS
<1>2. q.chain[p] # <<>> /\ UNCHANGED <<claimed, weak, seen, answered, loop>>
  BY <1>1 DEF BeginJob, store
<1>3. CASE n \in client
  <2>1. PICK r : r = [q EXCEPT !.busy = @ \cup {p}]
    OBVIOUS
  <2>2. pipe' = [pipe EXCEPT ![n] = r] /\ lost' = lost
    BY <1>1, <1>3, <2>1 DEF BeginJob
  <2>3. Sound(q)
    BY <1>1, ShapeIs
  <2>4. Keeps(q, r)
    BY <1>2, <2>1, <2>3, Begun
  <2>5. SameHands
    BY <1>2, LoopUntouched
  <2> QED
    BY <1>1, <1>2, <2>2, <2>4, <2>5, KeepsMoves
<1>4. CASE n \notin client
  <2>1. PICK up : up = Up(n)
    OBVIOUS
  <2>2. PICK S : S = ToSet(Head(q.chain[p]).msgs)
    OBVIOUS
  <2>3. pipe' = [pipe EXCEPT ![n] = Finish(q, up, p)] /\ lost' = Mark(S, "client")
    BY <1>1, <1>4, <2>1, <2>2 DEF BeginJob
  <2>4. Dropped(S)
    BY <1>2, <2>3 DEF Dropped, Reason
  <2> QED
    BY <1>1, <1>2, <2>2, <2>3, <2>4, FinishPlace
<1> QED
  BY <1>3, <1>4

LEMMA EndJobPlace ==
    ASSUME ClaimInv, ProcInv, LoneInv, PlaceInv, NEW n \in Node, NEW p \in Peer, EndJob(n, p)
    PROVE  PlaceInv' /\ (weak = {} => Step)
<1>1. PICK q : q = pipe[n]
  OBVIOUS
<1>2. PICK up : up = Up(n)
  OBVIOUS
<1>3. PICK S : S = ToSet(Head(q.chain[p]).msgs)
  OBVIOUS
<1>4. /\ pipe' = [pipe EXCEPT ![n] = Finish(q, up, p)]
      /\ UNCHANGED <<claimed, weak, seen, lost, loop>> /\ p \in q.busy
      /\ answered' = [m \in Msg |-> IF m \in S /\ answered[m] < 2 THEN answered[m] + 1 ELSE answered[m]]
  BY <1>1, <1>2, <1>3 DEF EndJob, store
<1>5. Sound(q) /\ q.chain[p] # <<>>
  BY <1>1, <1>4, ShapeIs DEF Sound
<1>6. \A m \in S : PeerOf[m] = p
  <2>1. q.chain[p] \in Seq(Job)
    BY <1>5, PipeFacts
  <2>2. S \subseteq JobMsgs(q.chain[p])
    BY <1>3, <1>5, <2>1, TailJobs
  <2>3. S \subseteq Mine(q, p)
    BY <2>2 DEF Mine
  <2> QED
    BY <1>5, <2>3 DEF Sound
<1>7. Replied(S)
  BY <1>4, <1>6 DEF Replied
<1> QED
  BY <1>1, <1>3, <1>4, <1>5, <1>7, FinishPlace

LEMMA DrainNextPlace ==
    ASSUME ClaimInv, ProcInv, PlaceInv, NEW n \in Node, DrainNext(n)
    PROVE  PlaceInv' /\ (weak = {} => Step)
<1>1. PICK q : q = pipe[n]
  OBVIOUS
<1>2. PICK r : r = Enchain([q EXCEPT !.inbox = Tail(@)], [Head(q.inbox) EXCEPT !.drain = TRUE])
  OBVIOUS
<1>3. /\ pipe' = [pipe EXCEPT ![n] = r] /\ q.inbox # <<>>
      /\ UNCHANGED <<claimed, weak, seen, answered, lost, loop>>
  BY <1>1, <1>2 DEF DrainNext, store, past
<1>4. Sound(q)
  BY <1>1, ShapeIs
<1>5. Keeps(q, r)
  BY <1>2, <1>3, <1>4, Drained
<1>6. SameHands
  BY <1>3, LoopUntouched
<1> QED
  BY <1>1, <1>3, <1>5, <1>6, KeepsMoves

\* A loop passes on the message m it has in hand.
LEMMA HandPassed ==
    ASSUME ClaimInv, NEW n \in Node, NEW k \in Slot,
           loop' = [loop EXCEPT ![n][k] = NextMessage(loop[n][k])]
    PROVE  /\ \A o \in Node : o # n => HandsSame(o)
           /\ \A j \in Slot : \A m : Holding(n, j, m)' <=> Holding(n, j, m) /\ j # k
<1>1. PICK state : state = NextMessage(loop[n][k])
  OBVIOUS
<1>2. state.pc # "route"
  <2>1. loop[n][k] \in Loop
    BY DEF ClaimInv
  <2>2. PICK pc : pc = IF Len(loop[n][k].batch) = 1 THEN "save" ELSE "claim"
    OBVIOUS
  <2>3. PICK rest : rest = Tail(loop[n][k].batch)
    OBVIOUS
  <2>4. state = [loop[n][k] EXCEPT !.batch = rest, !.pc = pc]
    BY <1>1, <2>2, <2>3 DEF NextMessage
  <2>5. state.pc = pc
    BY <2>1, <2>4 DEF Loop
  <2> QED
    BY <2>2, <2>5
<1>3. \A o \in Node, j \in Slot : loop'[o][j] = IF o = n /\ j = k THEN state ELSE loop[o][j]
  BY <1>1 DEF ClaimInv
<1>4. ASSUME NEW o \in Node, o # n PROVE HandsSame(o)
  BY <1>3, <1>4 DEF HandsSame, Holding
<1>5. ASSUME NEW j \in Slot, NEW m PROVE Holding(n, j, m)' <=> Holding(n, j, m) /\ j # k
  BY <1>2, <1>3 DEF Holding
<1> QED
  BY <1>4, <1>5

LEMMA RouteMoves ==
    ASSUME ClaimInv, ProcInv, NEW n \in Node, NEW k \in Slot, NEW m, Holding(n, k, m), m \in Msg,
           loop' = [loop EXCEPT ![n][k] = NextMessage(loop[n][k])], weak' = weak,
           NEW r, pipe' = [pipe EXCEPT ![n] = r], NEW S, S \subseteq {m},
           Held(pipe[n]) \subseteq Held(r), Held(r) \subseteq Held(pipe[n]) \cup {m},
           m \in Held(r) \cup S, S \cap Held(r) \subseteq Held(pipe[n]), Dropped(S) \/ Replied(S)
    PROVE  Moves(n, S)
<1>1. pipe'[n] = r /\ \A o \in Node : o # n => pipe'[o] = pipe[o]
  BY DEF ProcInv
<1>2. \A o \in Node : o # n => Has(o)' = Has(o) /\ (Single(o) => Single(o)')
  BY <1>1, HandPassed, SameHandsIs
<1>3. m \in InHand(n)
  BY HandIs
<1>4. \A x : x \in InHand(n)' <=> \E j \in Slot : Holding(n, j, x) /\ j # k
  <2>1. \A x : x \in InHand(n)' <=> \E j \in Slot : Holding(n, j, x)'
    BY DEF InHand, Holding
  <2> QED
    BY <2>1, HandPassed
<1>5. InHand(n)' \subseteq InHand(n)
  BY <1>4, HandIs
<1>6. Has(n)' = Held(r) \cup InHand(n)'
  BY <1>1 DEF Has
<1>7. InHand(n) \subseteq InHand(n)' \cup {m}
  <2>1. ASSUME NEW x \in InHand(n), x # m PROVE x \in InHand(n)'
    <3>1. PICK j \in Slot : Holding(n, j, x)
      BY <2>1, HandIs
    <3>2. j # k
      BY <2>1, <3>1 DEF Holding
    <3> QED
      BY <1>4, <3>1, <3>2
  <2> QED
    BY <2>1
<1>8. Has(n)' \subseteq Has(n) /\ S \subseteq Has(n) /\ Has(n) \subseteq Has(n)' \cup S
  BY <1>3, <1>5, <1>6, <1>7 DEF Has
<1>9. ASSUME Single(n) PROVE Single(n)' /\ S \cap Has(n)' \subseteq weak
  <2>1. /\ Held(pipe[n]) \cap InHand(n) \subseteq weak
        /\ \A i, j \in Slot : \A x \in Msg \ weak : Holding(n, i, x) /\ Holding(n, j, x) => i = j
    BY <1>9 DEF Single
  <2>2. m \in InHand(n)' => m \in weak
    BY <1>4, <2>1
  <2>3. Held(pipe[n])' \cap InHand(n)' \subseteq weak'
    BY <1>1, <1>5, <2>1, <2>2
  <2>4. \A i, j \in Slot : \A x \in Msg \ weak' : Holding(n, i, x)' /\ Holding(n, j, x)' => i = j
    BY <2>1, HandPassed
  <2>5. Single(n)'
    BY <2>3, <2>4 DEF Single
  <2>6. S \cap Held(r) \subseteq weak
    BY <1>3, <2>1
  <2> QED
    BY <1>6, <2>2, <2>5, <2>6
<1> QED
  BY <1>2, <1>8, <1>9 DEF Moves

LEMMA RouteDirectPlace ==
    ASSUME ClaimInv, ProcInv, PlaceInv, NEW n \in Node, NEW k \in Slot, RouteDirect(n, k)
    PROVE  PlaceInv' /\ (weak = {} => Step)
<1>1. PICK q : q = pipe[n]
  OBVIOUS
<1>2. PICK m : m = Head(loop[n][k].batch)
  OBVIOUS
<1>3. PICK job : job = NewJob(<<m>>, TRUE)
  OBVIOUS
<1>4. PICK up : up = Up(n)
  OBVIOUS
<1>5. PICK r : r = Push(q, up, job)
  OBVIOUS
<1>6. PICK S : S = {m} \ Held(r)
  OBVIOUS
<1>7. /\ loop' = [loop EXCEPT ![n][k] = NextMessage(loop[n][k])]
      /\ pipe' = [pipe EXCEPT ![n] = r] /\ lost' = Mark(S, "full")
      /\ UNCHANGED <<claimed, weak, seen, answered>>
      /\ loop[n][k].pc = "route"
  BY <1>1, <1>2, <1>3, <1>4, <1>5, <1>6 DEF RouteDirect, Deliver, Goto, store
<1>8. Holding(n, k, m) /\ m \in Msg
  BY <1>2, <1>7, LoopFacts DEF Holding
<1>9. WellMade(job) /\ ToSet(job.msgs) = {m}
  BY <1>2, <1>3, <1>7, DirectJob
<1>10. Sound(q)
  BY <1>1, ShapeIs
<1>11. Gains(q, r, ToSet(job.msgs)) \/ r = q
  BY <1>5, <1>9, <1>10, Pushed
<1>12. Held(r) \subseteq Held(pipe[n]) \cup {m} /\ Held(pipe[n]) \subseteq Held(r)
  BY <1>1, <1>9, <1>11 DEF Gains
<1>13. Dropped(S)
  BY <1>7 DEF Dropped, Reason
<1>14. S \subseteq {m} /\ S \cap Held(r) \subseteq Held(pipe[n]) /\ m \in Held(r) \cup S
  BY <1>6
<1>15. Moves(n, S)
  BY <1>7, <1>8, <1>12, <1>13, <1>14, RouteMoves
<1> QED
  BY <1>7, <1>15, MovesSettle

LEMMA RouteBatchPlace ==
    ASSUME ClaimInv, ProcInv, PlaceInv, NEW n \in Node, NEW k \in Slot, RouteBatch(n, k)
    PROVE  PlaceInv' /\ (weak = {} => Step)
<1>1. PICK q : q = pipe[n]
  OBVIOUS
<1>2. PICK m : m = Head(loop[n][k].batch)
  OBVIOUS
<1>3. /\ loop' = [loop EXCEPT ![n][k] = NextMessage(loop[n][k])]
      /\ UNCHANGED <<claimed, weak, seen, answered>>
      /\ loop[n][k].pc = "route"
  BY DEF RouteBatch, Goto, store
<1>4. Holding(n, k, m) /\ m \in Msg
  BY <1>2, <1>3, LoopFacts DEF Holding
<1>5. Sound(q)
  BY <1>1, ShapeIs
<1>6. CASE Up(n)
  <2>1. PICK r : r = AddItem(q, PeerOf[m], m)
    OBVIOUS
  <2>2. pipe' = [pipe EXCEPT ![n] = r] /\ lost' = lost
    BY <1>1, <1>2, <1>6, <2>1 DEF RouteBatch
  <2>3. Gains(q, r, {m})
    BY <1>4, <1>5, <2>1, Added
  <2>4. lost = [x \in Msg |-> lost[x]]
    BY DEF PlaceInv
  <2>5. lost' = Mark({}, "full")
    BY <2>2, <2>4 DEF Mark
  <2>6. Dropped({})
    BY <1>3, <2>5 DEF Dropped, Reason
  <2>7. /\ Held(r) \subseteq Held(pipe[n]) \cup {m} /\ Held(pipe[n]) \subseteq Held(r)
        /\ m \in Held(r)
    BY <1>1, <2>3 DEF Gains
  <2>8. PICK S : S = {}
    OBVIOUS
  <2>9. /\ Dropped(S) /\ S \subseteq {m} /\ S \cap Held(r) \subseteq Held(pipe[n])
        /\ m \in Held(r) \cup S
    BY <2>6, <2>7, <2>8
  <2>10. Moves(n, S)
    BY <1>3, <1>4, <2>2, <2>7, <2>9, RouteMoves
  <2> QED
    BY <1>3, <2>10, MovesSettle
<1>7. CASE ~Up(n)
  <2>1. PICK S : S = {m}
    OBVIOUS
  <2>2. pipe' = [pipe EXCEPT ![n] = q] /\ lost' = Mark(S, "gate")
    BY <1>1, <1>2, <1>7, <2>1 DEF RouteBatch, ProcInv
  <2>3. Dropped(S)
    BY <1>3, <2>2 DEF Dropped, Reason
  <2>4. /\ S \subseteq {m} /\ S \cap Held(q) \subseteq Held(pipe[n]) /\ m \in Held(q) \cup S
        /\ Held(pipe[n]) \subseteq Held(q) /\ Held(q) \subseteq Held(pipe[n]) \cup {m}
    BY <1>1, <2>1
  <2>5. Moves(n, S)
    BY <1>1, <1>3, <1>4, <2>1, <2>2, <2>3, <2>4, RouteMoves
  <2> QED
    BY <1>3, <2>5, MovesSettle
<1> QED
  BY <1>6, <1>7

LEMMA GonePlace ==
    ASSUME ClaimInv, ProcInv, PlaceInv, NEW n \in Node, NEW reason \in {"exit", "crash"},
           Gone(n, reason)
    PROVE  PlaceInv' /\ (weak = {} => Step)
<1>1. PICK S : S = Has(n)
  OBVIOUS
<1>2. /\ loop' = [loop EXCEPT ![n] = [k \in Slot |-> NoLoop]]
      /\ pipe' = [pipe EXCEPT ![n] = EmptyPipe]
      /\ lost' = Mark(S, reason) /\ UNCHANGED <<claimed, weak, seen, answered>>
  BY <1>1 DEF Gone, store, Has
<1>3. /\ pipe'[n] = EmptyPipe /\ \A o \in Node : o # n => pipe'[o] = pipe[o]
      /\ \A o \in Node : \A k \in Slot : loop'[o][k] = IF o = n THEN NoLoop ELSE loop[o][k]
  BY <1>2 DEF ProcInv, ClaimInv
<1>4. ASSUME NEW o \in Node, o # n PROVE HandsSame(o)
  BY <1>3, <1>4 DEF HandsSame, Holding
<1>5. \A k \in Slot : \A m : ~(Holding(n, k, m)')
  BY <1>3 DEF Holding, NoLoop
<1>6. InHand(n)' = {}
  <2>1. \A m : m \in InHand(n)' <=> \E k \in Slot : Holding(n, k, m)'
    BY DEF InHand, Holding
  <2> QED
    BY <1>5, <2>1
<1>7. Has(n)' = {}
  BY <1>3, <1>6, EmptySound DEF Has
<1>8. Single(n)'
  BY <1>3, <1>5, <1>6, EmptySound DEF Single
<1>9. \A o \in Node : o # n => Has(o)' = Has(o) /\ (Single(o) => Single(o)')
  BY <1>2, <1>3, <1>4, SameHandsIs
<1>10. Dropped(S)
  BY <1>2 DEF Dropped, Reason
<1>11. Moves(n, S)
  BY <1>1, <1>7, <1>8, <1>9, <1>10 DEF Moves
<1> QED
  BY <1>2, <1>11, MovesSettle

\* A loop takes the message it has just claimed in hand.
LEMMA HandTaken ==
    ASSUME ClaimInv, NEW n \in Node, NEW k \in Slot, NEW m, m = Head(loop[n][k].batch),
           loop[n][k].pc = "claim", pipe' = pipe, weak \subseteq weak',
           loop' = [loop EXCEPT ![n][k] = [loop[n][k] EXCEPT !.pc = "route"]]
    PROVE  /\ \A o \in Node : o # n => Has(o)' = Has(o) /\ (Single(o) => Single(o)')
           /\ Has(n)' = Has(n) \cup {m}
           /\ Single(n) /\ (m \notin Has(n) \/ m \in weak') => Single(n)'
<1>1. PICK state : state = [loop[n][k] EXCEPT !.pc = "route"]
  OBVIOUS
<1>2. state.pc = "route" /\ Head(state.batch) = m
  <2>1. loop[n][k] \in Loop
    BY DEF ClaimInv
  <2> QED
    BY <1>1, <2>1 DEF Loop
<1>3. \A o \in Node, j \in Slot : loop'[o][j] = IF o = n /\ j = k THEN state ELSE loop[o][j]
  BY <1>1 DEF ClaimInv
<1>4. ASSUME NEW o \in Node, o # n PROVE Has(o)' = Has(o) /\ (Single(o) => Single(o)')
  <2>1. HandsSame(o)
    BY <1>3, <1>4 DEF HandsSame, Holding
  <2> QED
    BY <2>1, SameHandsIs
<1>5. ASSUME NEW j \in Slot, NEW x
      PROVE  Holding(n, j, x)' <=> Holding(n, j, x) \/ (j = k /\ x = m)
  BY <1>2, <1>3 DEF Holding
<1>6. ASSUME NEW x PROVE x \in InHand(n)' <=> x \in InHand(n) \/ x = m
  <2>1. x \in InHand(n)' <=> \E j \in Slot : Holding(n, j, x)'
    BY DEF InHand, Holding
  <2> QED
    BY <1>5, <2>1, HandIs
<1>7. InHand(n)' = InHand(n) \cup {m}
  BY <1>6
<1>8. Has(n)' = Has(n) \cup {m}
  BY <1>7 DEF Has
<1>9. ASSUME Single(n), m \notin Has(n) \/ m \in weak' PROVE Single(n)'
  <2>1. /\ Held(pipe[n]) \cap InHand(n) \subseteq weak
        /\ \A i, j \in Slot : \A x \in Msg \ weak : Holding(n, i, x) /\ Holding(n, j, x) => i = j
    BY <1>9 DEF Single
  <2>2. m \in weak' \/ (m \notin Held(pipe[n]) /\ \A j \in Slot : ~Holding(n, j, m))
    BY <1>9, HandIs DEF Has
  <2>3. Held(pipe[n])' \cap InHand(n)' \subseteq weak'
    BY <1>7, <2>1, <2>2
  <2>4. \A i, j \in Slot : \A x \in Msg \ weak' : Holding(n, i, x)' /\ Holding(n, j, x)' => i = j
    BY <1>5, <2>1, <2>2
  <2> QED
    BY <2>3, <2>4 DEF Single
<1> QED
  BY <1>4, <1>8, <1>9

\* A message is claimed, under Redis's guard or without it.
LEMMA NewClaimPlace ==
    ASSUME ClaimInv, PlaceInv, NEW n \in Node, NEW k \in Slot, NEW m,
           m = Head(loop[n][k].batch), loop[n][k].pc = "claim",
           loop' = [loop EXCEPT ![n][k] = [loop[n][k] EXCEPT !.pc = "route"]],
           UNCHANGED <<pipe, answered, lost>>, claimed' = claimed \cup {m},
           \/ m \notin seen /\ seen' = seen \cup {m} /\ weak' = weak
           \/ weak' = weak \cup {m} /\ seen' = seen
    PROVE  PlaceInv' /\ (weak' = {} => Step)
<1>1. /\ \A o \in Node : o # n => Has(o)' = Has(o) /\ (Single(o) => Single(o)')
      /\ Has(n)' = Has(n) \cup {m}
      /\ Single(n) /\ (m \notin Has(n) \/ m \in weak') => Single(n)'
  BY HandTaken
<1>2. m \in Msg /\ \A x \in Msg : x < m => x \in claimed
  <2>1. m = loop[n][k].batch[1] /\ m \in Msg /\ Below(m - 1, claimed)
    BY LoopFacts DEF LoopSound
  <2> QED
    BY <2>1, InboundConstants DEF Below, Msg
<1>3. \A x : Unsettled(x)' <=> Unsettled(x)
  BY DEF Unsettled
<1>4. /\ answered' \in [Msg -> 0..2] /\ lost' \in [Msg -> Reason]
      /\ \A o \in Node : Has(o)' \subseteq claimed'
      /\ \A x \in Msg : ~Unsettled(x)' => x \in claimed'
  BY <1>1, <1>3 DEF PlaceInv
<1>5. /\ claimed \ weak \subseteq seen /\ \A o \in Node : Single(o)
      /\ \A o, u \in Node : o # u => Has(o) \cap Has(u) \subseteq weak
      /\ \A o \in Node : \A x \in Has(o) \ weak : Unsettled(x)
      /\ \A x \in claimed \ weak : Unsettled(x) => \E o \in Node : x \in Has(o)
      /\ \A x \in Msg \ weak : answered[x] = 0 \/ (answered[x] = 1 /\ lost[x] = "no")
  BY DEF PlaceInv
<1>6. m \in weak' \/ (m \notin claimed /\ Unsettled(m) /\ \A o \in Node : m \notin Has(o))
  BY <1>2, <1>5 DEF PlaceInv
<1>7. claimed' \ weak' \subseteq seen'
  BY <1>5
<1>8. \A o \in Node : Single(o)'
  BY <1>1, <1>5, <1>6
<1>9. \A o, u \in Node : o # u => Has(o)' \cap Has(u)' \subseteq weak'
  BY <1>1, <1>5, <1>6
<1>10. \A o \in Node : \A x \in Has(o)' \ weak' : Unsettled(x)'
  BY <1>1, <1>3, <1>5, <1>6
<1>11. \A x \in claimed' \ weak' : Unsettled(x)' => \E o \in Node : x \in Has(o)'
  <2> SUFFICES ASSUME NEW x \in claimed' \ weak', Unsettled(x)' PROVE \E o \in Node : x \in Has(o)'
    OBVIOUS
  <2>1. CASE x = m
    BY <1>1, <2>1
  <2>2. CASE x # m
    <3>1. PICK o \in Node : x \in Has(o)
      BY <1>3, <1>5, <2>2
    <3> QED
      BY <1>1, <3>1
  <2> QED
    BY <2>1, <2>2
<1>12. \A x \in Msg \ weak' : answered'[x] = 0 \/ (answered'[x] = 1 /\ lost'[x] = "no")
  BY <1>5
<1>13. ASSUME weak' = {} PROVE Step
  <2>3. m \notin claimed /\ Unsettled(m)
    BY <1>6, <1>13
  <2>8. fates[m] = "sent" /\ fates'[m] = "claimed"
    <3>1. answered[m] = 0 /\ lost[m] = "no" /\ ~(answered[m] > 0)
      BY <2>3 DEF Unsettled
    <3>2. Fate(m) = "sent" /\ Fate(m)' = "claimed"
      BY <2>3, <3>1 DEF Fate
    <3> QED
      BY <1>2, <3>2 DEF fates
  <2>9. \A x \in Msg : x < m => fates[x] # "sent"
    BY <1>2 DEF fates, Fate
  <2>10. \A x \in Msg : x # m => fates'[x] = fates[x]
    BY DEF fates, Fate
  <2>11. fates' = [fates EXCEPT ![m] = "claimed"]
    <3>1. fates' = [x \in Msg |-> fates'[x]] /\ fates = [x \in Msg |-> fates[x]]
      BY DEF fates
    <3> QED
      BY <1>2, <2>8, <2>10, <3>1
  <2>12. Promise!Claim(m)
    BY <2>8, <2>9, <2>11 DEF Promise!Claim, fates
  <2> QED
    BY <1>2, <2>12 DEF Step, Promise!Next
<1> QED
  BY <1>4, <1>7, <1>8, <1>9, <1>10, <1>11, <1>12, <1>13 DEF PlaceInv

LEMMA ClaimPlace ==
    ASSUME ClaimInv, PlaceInv, NEW n \in Node, NEW k \in Slot, Claim(n, k)
    PROVE  PlaceInv' /\ (weak' = {} => Step)
<1>1. PICK m : m = Head(loop[n][k].batch)
  OBVIOUS
<1>2. loop[n][k].pc = "claim" /\ UNCHANGED <<pipe, answered, lost>>
  BY DEF Claim
<1>3. CASE /\ Known(n, m) /\ Goto(n, k, NextMessage(loop[n][k]))
           /\ UNCHANGED <<seen, claimed, weak>>
  <2>1. loop' = [loop EXCEPT ![n][k] = NextMessage(loop[n][k])]
    BY <1>3 DEF Goto
  <2>2. SameHands
    <3>1. \A o \in Node : o # n => HandsSame(o)
      BY <2>1, HandPassed
    <3>2. \A j \in Slot : \A x : Holding(n, j, x)' <=> Holding(n, j, x) /\ j # k
      BY <2>1, HandPassed
    <3>3. \A x : ~Holding(n, k, x)
      BY <1>2 DEF Holding
    <3> QED
      BY <3>1, <3>2, <3>3 DEF SameHands, HandsSame
  <2> QED
    BY <1>2, <1>3, <2>2, PlacesStay DEF Step
<1>4. CASE /\ m \notin seen /\ seen' = seen \cup {m} /\ claimed' = claimed \cup {m}
           /\ weak' = weak /\ Goto(n, k, [loop[n][k] EXCEPT !.pc = "route"])
  BY <1>1, <1>2, <1>4, NewClaimPlace DEF Goto
<1>5. CASE /\ weak' = weak \cup {m} /\ claimed' = claimed \cup {m} /\ seen' = seen
           /\ Goto(n, k, [loop[n][k] EXCEPT !.pc = "route"])
  BY <1>1, <1>2, <1>5, NewClaimPlace DEF Goto
<1> QED
  BY <1>1, <1>3, <1>4, <1>5 DEF Claim, Known

LEMMA QuietHands ==
    ASSUME ClaimInv, NEW n \in Node, NEW k \in Slot,
           \/ StartLoop(n, k) \/ BootLoop(n, k) \/ EndLoop(n, k) \/ QuitLoop(n, k)
           \/ \E j \in Msg, fresh \in BOOLEAN : GetUpdates(n, k, j, fresh)
           \/ SaveCursor(n, k)
    PROVE  SameHands
<1>2. loop[n][k] \in Loop
  BY DEF ClaimInv
<1>3. \E state : /\ loop' = [loop EXCEPT ![n][k] = state]
                 /\ loop[n][k].pc # "route" /\ state.pc # "route"
  <2>1. CASE StartLoop(n, k)
    <3>1. [NoLoop EXCEPT !.pc = "boot", !.live = TRUE].pc = "boot"
      BY DEF NoLoop
    <3> QED
      BY <2>1, <3>1 DEF StartLoop, Goto
  <2>2. CASE BootLoop(n, k)
    <3>1. NoLoop.pc = "off" /\ [loop[n][k] EXCEPT !.pc = "poll", !.pos = cursor].pc = "poll"
      BY <1>2 DEF NoLoop, Loop
    <3> QED
      BY <2>2, <3>1 DEF BootLoop, Goto
  <2>3. CASE EndLoop(n, k) \/ QuitLoop(n, k)
    BY <2>3 DEF EndLoop, QuitLoop, Goto, NoLoop
  <2>4. CASE \E j \in Msg, fresh \in BOOLEAN : GetUpdates(n, k, j, fresh)
    <3>1. PICK j \in Msg, fresh \in BOOLEAN : GetUpdates(n, k, j, fresh)
      BY <2>4
    <3>2. PICK batch : batch = [i \in 1..(j - loop[n][k].pos) |-> loop[n][k].pos + i]
      OBVIOUS
    <3>3. PICK buf : buf = IF fresh THEN j ELSE loop[n][k].pos
      OBVIOUS
    <3>4. /\ loop' = [loop EXCEPT ![n][k] = [loop[n][k] EXCEPT !.pc = "claim", !.batch = batch,
                                                               !.buf = buf]]
          /\ loop[n][k].pc = "poll"
      BY <3>1, <3>2, <3>3 DEF GetUpdates, Goto
    <3>5. [loop[n][k] EXCEPT !.pc = "claim", !.batch = batch, !.buf = buf].pc = "claim"
      BY <1>2 DEF Loop
    <3> QED
      BY <3>4, <3>5
  <2>5. CASE SaveCursor(n, k)
    <3>1. [loop[n][k] EXCEPT !.pc = "poll", !.pos = loop[n][k].buf].pc = "poll"
      BY <1>2 DEF Loop
    <3> QED
      BY <2>5, <3>1 DEF SaveCursor, Goto
  <2> QED
    BY <2>1, <2>2, <2>3, <2>4, <2>5
<1> QED
  BY <1>3, HandsStay

LEMMA QuietLoopPlace ==
    ASSUME ClaimInv, PlaceInv, NEW n \in Node, NEW k \in Slot,
           \/ StartLoop(n, k) \/ BootLoop(n, k) \/ EndLoop(n, k) \/ QuitLoop(n, k)
           \/ \E j \in Msg, fresh \in BOOLEAN : GetUpdates(n, k, j, fresh)
           \/ SaveCursor(n, k)
    PROVE  PlaceInv' /\ Step
<1>1. UNCHANGED <<pipe, claimed, answered, lost, weak, seen>>
  BY DEF StartLoop, BootLoop, EndLoop, QuitLoop, GetUpdates, SaveCursor, store, past
<1>2. SameHands
  BY QuietHands
<1> QED
  BY <1>1, <1>2, PlacesStay DEF Step

LEMMA QuietPlace ==
    ASSUME ClaimInv, PlaceInv, NEW n \in Node,
           Boot(n) \/ DropLoop(n) \/ DrainDone(n) \/ FinishStopping(n)
    PROVE  PlaceInv' /\ Step
<1>1. UNCHANGED <<pipe, claimed, answered, lost, weak, seen>>
  BY DEF Boot, DropLoop, DrainDone, FinishStopping, store, past
<1>2. SameHands
  <2>1. CASE DropLoop(n)
    BY <2>1, LoopsTold DEF DropLoop
  <2>2. CASE Boot(n) \/ DrainDone(n) \/ FinishStopping(n)
    BY <2>2, LoopUntouched DEF Boot, DrainDone, FinishStopping
  <2> QED
    BY <2>1, <2>2
<1> QED
  BY <1>1, <1>2, PlacesStay DEF Step

LEMMA ExpirePlace ==
    ASSUME PlaceInv, NEW m \in Msg, ExpireSeen(m) PROVE PlaceInv' /\ weak' # {}
<1>1. /\ UNCHANGED <<pipe, loop, claimed, answered, lost>>
      /\ weak' = weak \cup {m} /\ seen' = seen \ {m}
  BY DEF ExpireSeen
<1>2. \A n \in Node : Has(n)' = Has(n) /\ (Single(n) => Single(n)')
  BY <1>1, LoopUntouched, SameHandsIs DEF SameHands
<1>3. \A x : Unsettled(x)' <=> Unsettled(x)
  BY <1>1 DEF Unsettled
<1>4. weak' # {}
  BY <1>1
<1>5. /\ \A x \in claimed' \ weak' : Unsettled(x)' => \E n \in Node : x \in Has(n)'
      /\ \A n, o \in Node : n # o => Has(n)' \cap Has(o)' \subseteq weak'
      /\ \A n \in Node : \A x \in Has(n)' \ weak' : Unsettled(x)'
  BY <1>1, <1>2, <1>3 DEF PlaceInv
<1> QED
  BY <1>1, <1>2, <1>3, <1>4, <1>5 DEF PlaceInv

\* No message Redis guards comes to stand behind a copy of itself: what a loop
\* puts into the pipe was not there.
LEMMA LoneKeeps ==
    ASSUME ClaimInv, ProcInv, LimitInv, LoneInv, PlaceInv, [Next]_vars PROVE LoneInv'
<1>1. weak \subseteq weak'
  BY WeakGrows
<1>2. ASSUME NEW n \in Node, NEW m \in Msg, NEW p \in Peer, NEW d \in BOOLEAN, NEW e \in BOOLEAN,
             Follows(pipe'[n], p, <<d, m>>, <<e, m>>)
      PROVE  m \in weak
  <2>1. CASE Follows(pipe[n], p, <<d, m>>, <<e, m>>)
    <3>1. m \in Twice(pipe[n])
      BY <2>1 DEF Twice
    <3> QED
      BY <3>1 DEF LoneInv
  <2>2. CASE Lighter(pipe[n], pipe'[n])
    BY <1>2, <2>1, <2>2 DEF Lighter, Calm
  <2>3. ASSUME NEW k \in Slot, NEW z, Passes(n, k, z) PROVE m \in weak
    <3>1. PICK x : x = <<d, m>>
      OBVIOUS
    <3>2. PICK y : y = <<e, m>>
      OBVIOUS
    <3>3. PICK f \in BOOLEAN : Adds(pipe[n], pipe'[n], f, z)
      BY <2>3 DEF Passes
    <3>4. Follows(pipe'[n], p, x, y)
      BY <1>2, <3>1, <3>2
    <3>5. \/ Follows(pipe[n], p, x, y)
          \/ y = <<f, z>> /\ x[2] \in Held(pipe[n])
          \/ x = <<f, z>> /\ y[2] \in Held(pipe[n])
      BY <3>3, <3>4 DEF Adds
    <3>6. ASSUME m = z, m \in Held(pipe[n]) PROVE m \in weak
      <4>1. m \in InHand(n)
        BY <2>3, <3>6, HandIs DEF Passes
      <4> QED
        BY <3>6, <4>1 DEF PlaceInv, Single
    <3> QED
      BY <2>1, <3>1, <3>2, <3>5, <3>6
  <2> QED
    BY <2>2, <2>3, PipeStep
<1>3. \A n \in Node : Twice(pipe[n])' \subseteq weak'
  BY <1>1, <1>2 DEF Twice
<1> QED
  BY <1>3 DEF LoneInv

LEMMA PlaceKeeps ==
    ASSUME ClaimInv, ProcInv, LoneInv, PlaceInv, [Next]_vars
    PROVE  PlaceInv' /\ (weak = {} /\ weak' = {} => Step)
<1>1. CASE UNCHANGED vars
  <2>1. UNCHANGED <<loop, pipe, claimed, answered, lost, weak, seen>>
    BY <1>1 DEF vars, store, past
  <2>2. SameHands
    BY <2>1, LoopUntouched
  <2> QED
    BY <2>1, <2>2, PlacesStay DEF Step
<1>2. ASSUME NEW n \in Node, Live(n) PROVE PlaceInv' /\ (weak = {} /\ weak' = {} => Step)
  BY <1>2, QuietPlace, StopPlace, DrainNextPlace, GonePlace DEF Live, Exit, Crash
<1>3. ASSUME NEW n \in Node, NEW k \in Slot, Poll(n, k)
      PROVE  PlaceInv' /\ (weak = {} /\ weak' = {} => Step)
  BY <1>3, QuietLoopPlace, ClaimPlace, RouteDirectPlace, RouteBatchPlace DEF Poll
<1>4. ASSUME NEW n \in Node, NEW p \in Peer, Reply(n, p)
      PROVE  PlaceInv' /\ (weak = {} /\ weak' = {} => Step)
  BY <1>4, CloseBatchPlace, BeginJobPlace, EndJobPlace DEF Reply
<1>5. ASSUME NEW m \in Msg, ExpireSeen(m)
      PROVE  PlaceInv' /\ (weak = {} /\ weak' = {} => Step)
  BY <1>5, ExpirePlace
<1> QED
  BY <1>1, <1>2, <1>3, <1>4, <1>5 DEF Next

LEMMA PlaceInitHolds == ASSUME Init PROVE LoneInv /\ PlaceInv /\ Promise!Init
<1>1. /\ loop = [n \in Node |-> [k \in Slot |-> NoLoop]] /\ pipe = [n \in Node |-> EmptyPipe]
      /\ claimed = {} /\ answered = [m \in Msg |-> 0] /\ lost = [m \in Msg |-> "no"]
  BY DEF Init
<1>2. \A n \in Node, k \in Slot : \A m : ~Holding(n, k, m)
  BY <1>1 DEF Holding, NoLoop
<1>3. \A n \in Node : InHand(n) = {}
  BY <1>2, HandIs
<1>4. \A n \in Node : Has(n) = {} /\ Single(n)
  BY <1>1, <1>2, <1>3, EmptySound DEF Has, Single
<1>5. \A m \in Msg : Unsettled(m) /\ Fate(m) = "sent"
  BY <1>1 DEF Unsettled, Fate
<1>6. answered \in [Msg -> 0..2] /\ lost \in [Msg -> Reason]
  BY <1>1 DEF Reason
<1>7. PlaceInv
  BY <1>1, <1>4, <1>5, <1>6 DEF PlaceInv
<1>9. LoneInv
  BY <1>1, NothingFollows DEF LoneInv, Twice
<1>8. Promise!Init
  BY <1>5 DEF Promise!Init
<1> QED
  BY <1>7, <1>8, <1>9

LEMMA PlaceInvariant == Spec => [](LoneInv /\ PlaceInv)
<1>1. Init => LoneInv /\ PlaceInv
  BY PlaceInitHolds
<1>2. ClaimInv /\ ProcInv /\ LimitInv /\ LoneInv /\ PlaceInv /\ [Next]_vars
        => LoneInv' /\ PlaceInv'
  BY LoneKeeps, PlaceKeeps
<1> QED
  BY <1>1, <1>2, ClaimInvariant, ProcInvariant, LimitInvariant, PTL DEF Spec

\* While Redis guards the claims, the pipelines of all nodes together implement
\* InboundPromise, whatever crashes, shutdowns and overlapping loops do: each
\* message is claimed once and in order, and then answered once or lost.
THEOREM Delivered == Spec /\ [](weak = {}) => Delivery
<1>1. Init => Promise!Init
  BY PlaceInitHolds
<1>2. ClaimInv /\ ProcInv /\ LoneInv /\ PlaceInv /\ [Next]_vars /\ weak = {} /\ (weak = {})'
        => [Promise!Next]_([m \in Msg |-> Fate(m)])
  BY PlaceKeeps DEF Step, fates
<1> QED
  BY <1>1, <1>2, ClaimInvariant, ProcInvariant, PlaceInvariant, PTL
     DEF Spec, Delivery, Promise!Spec

-----------------------------------------------------------------------------
(* One place                                                               *)

\* The item that stands at a place, and where the place is.
ItemAt(n, p, s) == <<JobAt(n, p, s).direct, MsgAt(n, p, s)>>
IsPlace(n, p, s) ==
    /\ s \in {1, 2, 3} \X Nat \X Nat
    /\ s[2] \in DOMAIN Queues(n, p)[s[1]]
    /\ s[3] \in DOMAIN Queues(n, p)[s[1]][s[2]].msgs

LEMMA QueuesAre ==
    ASSUME NEW n \in Node, NEW p \in Peer
    PROVE  /\ Queues(n, p)[1] = pipe[n].chain[p] /\ Queues(n, p)[2] = pipe[n].inbox
           /\ Queues(n, p)[3] = <<NewJob(pipe[n].open[p], FALSE)>>
BY DEF Queues

LEMMA QueuesJobs ==
    ASSUME ProcInv, NEW n \in Node, NEW p \in Peer
    PROVE  \A k \in {1, 2, 3} : Queues(n, p)[k] \in Seq(Job)
<1>1. Sound(pipe[n])
  BY ShapeIs
<1>2. PICK f : f = Queues(n, p)
  OBVIOUS
<1>3. PICK o \in Job : o = NewJob(pipe[n].open[p], FALSE)
  <2>1. pipe[n].open[p] \in Seq(Msg)
    BY <1>1, PipeFacts
  <2> QED
    BY <2>1 DEF NewJob, Job
<1>4. f[1] \in Seq(Job) /\ f[2] \in Seq(Job) /\ f[3] = <<o>>
  <2>1. pipe[n].chain[p] \in Seq(Job) /\ pipe[n].inbox \in Seq(Job)
    BY <1>1, PipeFacts
  <2>2. f[1] = pipe[n].chain[p] /\ f[2] = pipe[n].inbox /\ f[3] = <<o>>
    BY <1>2, <1>3, QueuesAre
  <2> QED
    BY <2>1, <2>2
<1>5. f[3] \in Seq(Job)
  <2>1. <<o>> \in Seq(Job)
    OBVIOUS
  <2> QED
    BY <1>4, <2>1
<1>6. \A k \in {1, 2, 3} : f[k] \in Seq(Job)
  BY <1>4, <1>5
<1> QED
  BY <1>2, <1>6

LEMMA PlaceFacts ==
    ASSUME ProcInv, NEW n \in Node, NEW p \in Peer, NEW s, IsPlace(n, p, s)
    PROVE  JobAt(n, p, s).direct \in BOOLEAN /\ MsgAt(n, p, s) \in Msg
<1>1. PICK f : f = Queues(n, p)
  OBVIOUS
<1>2. /\ s[1] \in {1, 2, 3} /\ s[2] \in DOMAIN f[s[1]]
      /\ s[3] \in DOMAIN f[s[1]][s[2]].msgs
  BY <1>1 DEF IsPlace
<1>3. f[s[1]] \in Seq(Job)
  BY <1>1, <1>2, QueuesJobs
<1>4. f[s[1]][s[2]] \in Job
  BY <1>2, <1>3
<1>5. f[s[1]][s[2]].direct \in BOOLEAN /\ f[s[1]][s[2]].msgs \in Seq(Msg)
  BY <1>4 DEF Job
<1> QED
  BY <1>1, <1>2, <1>5 DEF JobAt, MsgAt

LEMMA PlaceIs ==
    ASSUME ProcInv, NEW n \in Node, NEW p \in Peer, NEW s
    PROVE  s \in Places(n, p) <=> IsPlace(n, p, s)
<1>5. PICK f : f = Queues(n, p)
  OBVIOUS
<1>7. \A k \in 1..3 : f[k] \in Seq(Job)
  BY <1>5, QueuesJobs
<1>8. ASSUME NEW k \in 1..3, NEW i \in DOMAIN f[k] PROVE i \in Nat /\ DOMAIN f[k][i].msgs \subseteq Nat
  <2>1. f[k] \in Seq(Job)
    BY <1>7
  <2>2. i \in Nat /\ f[k][i] \in Job
    BY <2>1
  <2>3. f[k][i].msgs \in Seq(Msg)
    BY <2>2 DEF Job
  <2> QED
    BY <2>2, <2>3
<1>9. s \in Places(n, p) <=>
        \E k \in 1..3 : \E i \in DOMAIN f[k] : \E a \in DOMAIN f[k][i].msgs : s = <<k, i, a>>
  BY <1>5 DEF Places
<1>10. IsPlace(n, p, s) <=>
         s \in {1, 2, 3} \X Nat \X Nat /\ s[2] \in DOMAIN f[s[1]] /\ s[3] \in DOMAIN f[s[1]][s[2]].msgs
  BY <1>5 DEF IsPlace
<1>11. ASSUME NEW k \in 1..3, NEW i \in DOMAIN f[k], NEW a \in DOMAIN f[k][i].msgs, s = <<k, i, a>>
       PROVE  IsPlace(n, p, s)
  <2>1. i \in Nat /\ a \in Nat /\ k \in {1, 2, 3}
    BY <1>8
  <2>2. s \in {1, 2, 3} \X Nat \X Nat /\ s[1] = k /\ s[2] = i /\ s[3] = a
    BY <1>11, <2>1
  <2> QED
    BY <1>10, <2>2
<1>12. ASSUME IsPlace(n, p, s)
       PROVE  \E k \in 1..3 : \E i \in DOMAIN f[k] : \E a \in DOMAIN f[k][i].msgs : s = <<k, i, a>>
  <2>1. /\ s \in {1, 2, 3} \X Nat \X Nat /\ s[2] \in DOMAIN f[s[1]]
        /\ s[3] \in DOMAIN f[s[1]][s[2]].msgs
    BY <1>10, <1>12
  <2>2. s = <<s[1], s[2], s[3]>> /\ s[1] \in 1..3
    BY <2>1
  <2> QED
    BY <2>1, <2>2
<1> QED
  BY <1>9, <1>11, <1>12

\* Of two different places one is ahead, and its item is answered first.
LEMMA PlacesDiffer ==
    ASSUME ProcInv, NEW n \in Node, NEW p \in Peer, NEW s, NEW t, IsPlace(n, p, s), IsPlace(n, p, t)
    PROVE  s = t \/ Ahead(s, t) \/ Ahead(t, s)
<1>1. /\ s \in {1, 2, 3} \X Nat \X Nat /\ t \in {1, 2, 3} \X Nat \X Nat
  BY DEF IsPlace
<1>2. s = <<s[1], s[2], s[3]>> /\ t = <<t[1], t[2], t[3]>>
  BY <1>1
<1>3. /\ s[1] \in Nat /\ s[2] \in Nat /\ s[3] \in Nat
      /\ t[1] \in Nat /\ t[2] \in Nat /\ t[3] \in Nat
  BY <1>1
<1>4. s[1] = t[1] \/ s[1] < t[1] \/ t[1] < s[1]
  BY <1>3
<1>5. s[2] = t[2] \/ s[2] < t[2] \/ t[2] < s[2]
  BY <1>3
<1>6. s[3] = t[3] \/ s[3] < t[3] \/ t[3] < s[3]
  BY <1>3
<1>7. (s[1] = t[1] /\ s[2] = t[2] /\ s[3] = t[3]) => s = t
  BY <1>2
<1> QED
  BY <1>4, <1>5, <1>6, <1>7 DEF Ahead

LEMMA AheadFollows ==
    ASSUME ProcInv, NEW n \in Node, NEW p \in Peer, NEW s, NEW t, IsPlace(n, p, s), IsPlace(n, p, t),
           Ahead(s, t), PeerOf[MsgAt(n, p, s)] = p, PeerOf[MsgAt(n, p, t)] = p
    PROVE  Follows(pipe[n], p, ItemAt(n, p, s), ItemAt(n, p, t))
<1>1. PICK x : x = ItemAt(n, p, s)
  OBVIOUS
<1>2. PICK y : y = ItemAt(n, p, t)
  OBVIOUS
<1>3. PICK c : c = pipe[n].chain[p]
  OBVIOUS
<1>4. PICK b : b = pipe[n].inbox
  OBVIOUS
<1>5. PICK o : o = NewJob(pipe[n].open[p], FALSE)
  OBVIOUS
<1>6. PICK f : f = Queues(n, p)
  OBVIOUS
<1>7. f[1] = c /\ f[2] = b /\ f[3] = <<o>>
  BY <1>3, <1>4, <1>5, <1>6, QueuesAre
<1>8. /\ s[1] \in {1, 2, 3} /\ s[2] \in DOMAIN f[s[1]] /\ s[3] \in DOMAIN f[s[1]][s[2]].msgs
      /\ t[1] \in {1, 2, 3} /\ t[2] \in DOMAIN f[t[1]] /\ t[3] \in DOMAIN f[t[1]][t[2]].msgs
  BY <1>6 DEF IsPlace
<1>9. /\ x = <<f[s[1]][s[2]].direct, f[s[1]][s[2]].msgs[s[3]]>>
      /\ y = <<f[t[1]][t[2]].direct, f[t[1]][t[2]].msgs[t[3]]>>
  BY <1>1, <1>2, <1>6 DEF ItemAt, JobAt, MsgAt
<1>10. In(f[s[1]][s[2]], x) /\ In(f[t[1]][t[2]], y)
  BY <1>8, <1>9 DEF In
<1>11. Stands(f[s[1]], x) /\ Stands(f[t[1]], y)
  BY <1>8, <1>10 DEF Stands
<1>12. DOMAIN <<o>> = {1} /\ <<o>>[1] = o
  OBVIOUS
<1>13. \A z : Stands(<<o>>, z) => In(o, z)
  BY <1>12 DEF Stands
<1>14. CASE s[1] < t[1]
  <2>1. (s[1] = 1 /\ t[1] = 2) \/ (s[1] = 1 /\ t[1] = 3) \/ (s[1] = 2 /\ t[1] = 3)
    BY <1>8, <1>14
  <2>2. Lines(c, b, o, x, y)
    BY <1>7, <1>11, <1>13, <2>1 DEF Lines
  <2> QED
    BY <1>1, <1>2, <1>3, <1>4, <1>5, <2>2 DEF Follows, ItemAt
<1>15. CASE s[1] = t[1] /\ (s[2] < t[2] \/ (s[2] = t[2] /\ s[3] < t[3]))
  <2>1. Precedes(f[s[1]], x, y)
    <3>1. CASE s[2] < t[2]
      BY <1>8, <1>10, <1>15, <3>1 DEF Precedes
    <3>2. CASE s[2] = t[2] /\ s[3] < t[3]
      <4>1. Within(f[s[1]][s[2]], x, y)
        BY <1>8, <1>9, <1>15, <3>2 DEF Within
      <4> QED
        BY <1>8, <4>1 DEF Precedes
    <3> QED
      BY <1>15, <3>1, <3>2
  <2>2. ASSUME Precedes(<<o>>, x, y) PROVE Within(o, x, y)
    BY <1>12, <2>2 DEF Precedes
  <2>3. s[1] = 1 \/ s[1] = 2 \/ s[1] = 3
    BY <1>8
  <2>4. Lines(c, b, o, x, y)
    BY <1>7, <2>1, <2>2, <2>3 DEF Lines
  <2> QED
    BY <1>1, <1>2, <1>3, <1>4, <1>5, <2>4 DEF Follows, ItemAt
<1> QED
  BY <1>14, <1>15 DEF Ahead

\* Each place holds a message of the pipe, and each message has a place.
LEMMA PlaceHolds ==
    ASSUME ProcInv, NEW n \in Node, NEW m \in Msg
    PROVE  m \in Held(pipe[n]) <=> \E s \in Places(n, PeerOf[m]) : MsgAt(n, PeerOf[m], s) = m
<1>1. PICK p \in Peer : p = PeerOf[m]
  BY InboundConstants
<1>2. PICK q : q = pipe[n]
  OBVIOUS
<1>3. Sound(q)
  BY <1>2, ShapeIs
<1>4. PICK c \in Seq(Job) : c = q.chain[p]
  BY <1>3, PipeFacts
<1>5. PICK b \in Seq(Job) : b = q.inbox
  BY <1>3, PipeFacts
<1>6. PICK o : o = NewJob(q.open[p], FALSE)
  OBVIOUS
<1>7. o.msgs = q.open[p] /\ q.open[p] \in Seq(Msg)
  BY <1>3, <1>6, PipeFacts DEF NewJob
<1>8. PICK f : f = Queues(n, p)
  OBVIOUS
<1>9. f[1] = c /\ f[2] = b /\ f[3] = <<o>>
  BY <1>2, <1>4, <1>5, <1>6, <1>8, QueuesAre
<1>10. m \in Held(q) <=> m \in ToSet(o.msgs) \/ m \in JobMsgs(c) \/ m \in JobMsgs(b)
  <2>1. ASSUME NEW r \in Peer, m \in Mine(q, r) PROVE m \in Mine(q, p)
    BY <1>1, <1>3, <2>1 DEF Sound
  <2>2. m \in Mine(q, p) <=> m \in ToSet(o.msgs) \/ m \in JobMsgs(c)
    BY <1>4, <1>7 DEF Mine
  <2> QED
    BY <1>5, <2>1, <2>2, HeldIs
<1>11. ASSUME NEW k \in {1, 2, 3}, NEW i \in DOMAIN f[k], m \in ToSet(f[k][i].msgs)
       PROVE  \E s \in Places(n, p) : MsgAt(n, p, s) = m
  <2>1. PICK a \in DOMAIN f[k][i].msgs : m = f[k][i].msgs[a]
    BY <1>11 DEF ToSet
  <2>2. PICK s : s = <<k, i, a>>
    OBVIOUS
  <2>3. s[1] = k /\ s[2] = i /\ s[3] = a
    BY <2>2
  <2>4. k \in 1..3
    OBVIOUS
  <2>5. s \in Places(n, p)
    BY <1>8, <2>2, <2>4 DEF Places
  <2>6. MsgAt(n, p, s) = m
    BY <1>8, <2>1, <2>3 DEF MsgAt, JobAt
  <2> QED
    BY <2>5, <2>6
<1>12. ASSUME NEW s \in Places(n, p), MsgAt(n, p, s) = m
       PROVE  \E k \in {1, 2, 3} : \E i \in DOMAIN f[k] : m \in ToSet(f[k][i].msgs)
  <2>1. IsPlace(n, p, s)
    BY PlaceIs
  <2>2. /\ s[1] \in {1, 2, 3} /\ s[2] \in DOMAIN f[s[1]] /\ s[3] \in DOMAIN f[s[1]][s[2]].msgs
        /\ m = f[s[1]][s[2]].msgs[s[3]]
    BY <1>8, <1>12, <2>1 DEF IsPlace, MsgAt, JobAt
  <2>3. m \in ToSet(f[s[1]][s[2]].msgs)
    BY <2>2 DEF ToSet
  <2> QED
    BY <2>2, <2>3
<1>13. DOMAIN <<o>> = {1} /\ <<o>>[1] = o
  OBVIOUS
<1>14. m \in JobMsgs(c) \/ m \in JobMsgs(b) \/ m \in ToSet(o.msgs)
         <=> \E k \in {1, 2, 3} : \E i \in DOMAIN f[k] : m \in ToSet(f[k][i].msgs)
  <2>1. m \in JobMsgs(f[1]) <=> \E i \in DOMAIN f[1] : m \in ToSet(f[1][i].msgs)
    BY JobMsgsIs
  <2>2. m \in JobMsgs(f[2]) <=> \E i \in DOMAIN f[2] : m \in ToSet(f[2][i].msgs)
    BY JobMsgsIs
  <2>3. m \in ToSet(o.msgs) <=> \E i \in DOMAIN f[3] : m \in ToSet(f[3][i].msgs)
    BY <1>9, <1>13
  <2> QED
    BY <1>9, <2>1, <2>2, <2>3
<1> QED
  BY <1>1, <1>2, <1>10, <1>11, <1>12, <1>14

\* A set with at most one element counts as much as its being inhabited.
Single01(S, yes) ==
    /\ (\E x \in S : TRUE) <=> yes
    /\ \A x, y \in S : x = y

LEMMA CountIs ==
    ASSUME NEW S, NEW yes \in BOOLEAN, Single01(S, yes)
    PROVE  Cardinality(S) = IF yes THEN 1 ELSE 0
<1>1. CASE yes
  <2>1. PICK x : x \in S
    BY <1>1 DEF Single01
  <2>2. S = {x}
    BY <2>1 DEF Single01
  <2> QED
    BY <1>1, <2>2, FS_Singleton
<1>2. CASE ~yes
  <2>1. S = {}
    BY <1>2 DEF Single01
  <2> QED
    BY <1>2, <2>1, FS_EmptySet
<1> QED
  BY <1>1, <1>2

LEMMA CarriersAre ==
    ASSUME ClaimInv, PlaceInv, NEW m \in Msg \ weak
    PROVE  Single01(Carriers(m), \E n \in Node : m \in InHand(n))
<1>1. ASSUME NEW s \in Carriers(m)
      PROVE  /\ s \in Node \X Slot /\ s[1] \in Node /\ s[2] \in Slot
             /\ Holding(s[1], s[2], m) /\ s = <<s[1], s[2]>>
  BY DEF Carriers, Holding
<1>2. ASSUME NEW n \in Node, NEW k \in Slot, Holding(n, k, m) PROVE <<n, k>> \in Carriers(m)
  BY <1>2 DEF Carriers, Holding
<1>3. ASSUME NEW s \in Carriers(m), NEW t \in Carriers(m) PROVE s = t
  <2>1. PICK n \in Node, k \in Slot : Holding(n, k, m) /\ s = <<n, k>>
    BY <1>1
  <2>2. PICK o \in Node, j \in Slot : Holding(o, j, m) /\ t = <<o, j>>
    BY <1>1
  <2>3. m \in Has(n) /\ m \in Has(o)
    BY <2>1, <2>2, HandIs DEF Has
  <2>4. n = o
    BY <2>3 DEF PlaceInv
  <2>5. k = j
    BY <2>1, <2>2, <2>4 DEF PlaceInv, Single
  <2> QED
    BY <2>1, <2>2, <2>4, <2>5
<1>4. (\E s \in Carriers(m) : TRUE) <=> \E n \in Node : m \in InHand(n)
  <2>1. ASSUME NEW s \in Carriers(m) PROVE \E n \in Node : m \in InHand(n)
    BY <1>1, HandIs
  <2>2. ASSUME NEW n \in Node, m \in InHand(n) PROVE \E s \in Carriers(m) : TRUE
    BY <1>2, <2>2, HandIs
  <2> QED
    BY <2>1, <2>2
<1> QED
  BY <1>3, <1>4 DEF Single01

LEMMA CopiesAre ==
    ASSUME ProcInv, LoneInv, PlaceInv, NEW m \in Msg \ weak
    PROVE  Single01(Copies(m), \E n \in Node : m \in Held(pipe[n]))
<1>1. PICK p \in Peer : p = PeerOf[m]
  BY InboundConstants
<1>2. ASSUME NEW c
      PROVE  c \in Copies(m) <=>
               \E n \in Node : \E s \in Places(n, p) : c = <<n, s>> /\ MsgAt(n, p, s) = m
  BY <1>1 DEF Copies
<1>3. ASSUME NEW c \in Copies(m), NEW d \in Copies(m) PROVE c = d
  <2>1. PICK n \in Node : \E s \in Places(n, p) : c = <<n, s>> /\ MsgAt(n, p, s) = m
    BY <1>2
  <2>2. PICK s \in Places(n, p) : c = <<n, s>> /\ MsgAt(n, p, s) = m
    BY <2>1
  <2>3. PICK o \in Node : \E t \in Places(o, p) : d = <<o, t>> /\ MsgAt(o, p, t) = m
    BY <1>2
  <2>4. PICK t \in Places(o, p) : d = <<o, t>> /\ MsgAt(o, p, t) = m
    BY <2>3
  <2>5. m \in Held(pipe[n]) /\ m \in Held(pipe[o])
    BY <1>1, <2>2, <2>4, PlaceHolds
  <2>6. n = o
    BY <2>5 DEF PlaceInv, Has
  <2>7. IsPlace(n, p, s) /\ IsPlace(n, p, t) /\ MsgAt(n, p, t) = m
    BY <2>4, <2>6, PlaceIs
  <2>8. ASSUME NEW u, NEW v, IsPlace(n, p, u), IsPlace(n, p, v), MsgAt(n, p, u) = m,
               MsgAt(n, p, v) = m, Ahead(u, v)
        PROVE  FALSE
    <3>1. Follows(pipe[n], p, ItemAt(n, p, u), ItemAt(n, p, v))
      BY <1>1, <2>8, AheadFollows
    <3>2. ASSUME NEW w, IsPlace(n, p, w) PROVE JobAt(n, p, w).direct \in BOOLEAN
      BY <3>2, PlaceFacts
    <3>3. PICK x \in BOOLEAN : ItemAt(n, p, u) = <<x, m>>
      BY <2>8, <3>2 DEF ItemAt
    <3>4. PICK y \in BOOLEAN : ItemAt(n, p, v) = <<y, m>>
      BY <2>8, <3>2 DEF ItemAt
    <3>5. Follows(pipe[n], p, <<x, m>>, <<y, m>>)
      BY <3>1, <3>3, <3>4
    <3>6. m \in Twice(pipe[n])
      BY <3>5 DEF Twice
    <3> QED
      BY <3>6 DEF LoneInv
  <2>9. s = t
    BY <2>2, <2>7, <2>8, PlacesDiffer
  <2> QED
    BY <2>2, <2>4, <2>6, <2>9
<1>4. (\E c \in Copies(m) : TRUE) <=> \E n \in Node : m \in Held(pipe[n])
  <2>1. ASSUME NEW n \in Node
        PROVE  m \in Held(pipe[n]) <=> \E s \in Places(n, p) : MsgAt(n, p, s) = m
    BY <1>1, PlaceHolds
  <2> QED
    BY <1>2, <2>1
<1> QED
  BY <1>3, <1>4 DEF Single01

\* Wherever loops overlap and processes crash, a message whose claim Redis guarded
\* is in one hand or one queue of one process, or was answered once, or was lost
\* for one reason; nobody has what nobody claimed.
THEOREM InOnePlace == Spec => []OnePlace
<1>1. ClaimInv /\ ProcInv /\ LoneInv /\ PlaceInv => OnePlace
  <2> SUFFICES ASSUME ClaimInv, ProcInv, LoneInv, PlaceInv, NEW m \in Msg \ weak
               PROVE  Cardinality(Carriers(m)) + Cardinality(Copies(m))
                        + answered[m] + (IF lost[m] = "no" THEN 0 ELSE 1)
                        = IF m \in claimed THEN 1 ELSE 0
    BY DEF OnePlace
  <2>1. PICK hand \in BOOLEAN : hand = \E n \in Node : m \in InHand(n)
    OBVIOUS
  <2>2. PICK held \in BOOLEAN : held = \E n \in Node : m \in Held(pipe[n])
    OBVIOUS
  <2>3. Cardinality(Carriers(m)) = IF hand THEN 1 ELSE 0
    BY <2>1, CarriersAre, CountIs
  <2>4. Cardinality(Copies(m)) = IF held THEN 1 ELSE 0
    BY <2>2, CopiesAre, CountIs
  <2>5. ~(hand /\ held)
    <3> SUFFICES ASSUME hand, held PROVE FALSE
      OBVIOUS
    <3>1. PICK n \in Node : m \in InHand(n)
      BY <2>1
    <3>2. PICK o \in Node : m \in Held(pipe[o])
      BY <2>2
    <3>3. n = o
      BY <3>1, <3>2 DEF PlaceInv, Has
    <3> QED
      BY <3>1, <3>2, <3>3 DEF PlaceInv, Single
  <2>6. hand \/ held => m \in claimed /\ Unsettled(m)
    BY <2>1, <2>2 DEF PlaceInv, Has
  <2>7. m \in claimed /\ Unsettled(m) => hand \/ held
    BY <2>1, <2>2 DEF PlaceInv, Has
  <2>8. ~Unsettled(m) => m \in claimed
    BY DEF PlaceInv
  <2>9. answered[m] = 0 \/ (answered[m] = 1 /\ lost[m] = "no")
    BY DEF PlaceInv
  <2>10. CASE Unsettled(m)
    BY <2>3, <2>4, <2>5, <2>6, <2>7, <2>10 DEF Unsettled
  <2>11. CASE ~Unsettled(m)
    BY <2>3, <2>4, <2>6, <2>8, <2>9, <2>11 DEF Unsettled
  <2> QED
    BY <2>10, <2>11
<1> QED
  BY <1>1, ClaimInvariant, ProcInvariant, PlaceInvariant, PTL

-----------------------------------------------------------------------------
(* The order of a peer's messages                                          *)

\* Messages a and b may be answered in this order.
Rising(a, b) == a < b \/ a \in weak \/ b \in weak \/ PeerOf[a] # PeerOf[b]

\* A loop that has messages of a poll before it.
AtWork(l) == l.pc \in {"claim", "route"}

\* Node n has one current loop at most, and unless it has an overlap on record a
\* loop at work is alone with its work.
Leads(n) ==
    /\ \A j, k \in Slot : loop[n][j].live /\ loop[n][k].live => j = k
    /\ n \notin overlap =>
         \A j, k \in Slot : j # k /\ AtWork(loop[n][k]) => ~loop[n][j].live /\ ~AtWork(loop[n][j])

\* The ordinary messages in the pipe of n are in order, and what a loop has in
\* hand comes after all of them.
Orderly(n) ==
    /\ \A p \in Peer : \A a, b \in Msg : Follows(pipe[n], p, <<FALSE, a>>, <<FALSE, b>>) => Rising(a, b)
    /\ \A k \in Slot : \A m \in Msg : Holding(n, k, m) => \A a \in Held(pipe[n]) : Rising(a, m)

\* Messages are claimed in order.
DownInv == \A m \in claimed : \A x \in Msg : x < m => x \in claimed
LeadInv == \A n \in Node : Leads(n)
OrderInv == DownInv /\ LeadInv /\ \A n \in Node \ overlap : Orderly(n)

\* The loops of n do less than before; n has none; slot k of n takes up a loop or
\* gets its messages.
Quieter(n) ==
    /\ \A j \in Slot : /\ loop'[n][j].live => loop[n][j].live
                       /\ AtWork(loop'[n][j]) => AtWork(loop[n][j])
    /\ n \notin overlap' => n \notin overlap
Bare(n) ==
    /\ \A j \in Slot : ~loop'[n][j].live /\ loop'[n][j].pc = "off"
    /\ pipe'[n] = EmptyPipe
Starts(n, k) ==
    /\ \A j \in Slot : ~loop[n][j].live /\ (j # k => loop'[n][j] = loop[n][j])
    /\ ~AtWork(loop'[n][k])
    /\ n \notin overlap' => n \notin overlap /\ \A j \in Slot : ~AtWork(loop[n][j])
Fetches(n, k) ==
    /\ \A j \in Slot : j # k => loop'[n][j] = loop[n][j]
    /\ loop[n][k].live /\ overlap' = overlap

LEMMA QuietOne ==
    ASSUME ClaimInv, NEW n \in Node, NEW k \in Slot, NEW l,
           loop' = [loop EXCEPT ![n][k] = l], overlap' = overlap,
           l.live => loop[n][k].live, AtWork(l) => AtWork(loop[n][k])
    PROVE  \A o \in Node : Quieter(o)
<1>1. \A o \in Node, j \in Slot : loop'[o][j] = IF o = n /\ j = k THEN l ELSE loop[o][j]
  BY DEF ClaimInv
<1>2. ASSUME NEW o \in Node, NEW j \in Slot
      PROVE  /\ loop'[o][j].live => loop[o][j].live
             /\ AtWork(loop'[o][j]) => AtWork(loop[o][j])
  BY <1>1
<1> QED
  BY <1>2 DEF Quieter

LEMMA QuietSame == ASSUME UNCHANGED <<loop, overlap>> PROVE \A o \in Node : Quieter(o)
BY DEF Quieter

LEMMA QuietTold ==
    ASSUME ClaimInv, NEW n \in Node, overlap' = overlap,
           loop' = [loop EXCEPT ![n] = [k \in Slot |-> [@[k] EXCEPT !.live = FALSE]]]
    PROVE  \A o \in Node : Quieter(o)
<1>1. ASSUME NEW o \in Node, NEW k \in Slot
      PROVE  loop'[o][k].pc = loop[o][k].pc /\ (loop'[o][k].live => loop[o][k].live)
  <2>1. loop[o][k] \in Loop
    BY DEF ClaimInv
  <2>2. CASE o # n
    BY <2>2 DEF ClaimInv
  <2>3. CASE o = n
    <3>1. loop'[o][k] = [loop[o][k] EXCEPT !.live = FALSE]
      BY <2>3 DEF ClaimInv
    <3> QED
      BY <2>1, <3>1 DEF Loop
  <2> QED
    BY <2>2, <2>3
<1> QED
  BY <1>1 DEF Quieter, AtWork

\* The loop goes on to its next message, if there is one.
LEMMA NextIs ==
    ASSUME NEW l \in Loop
    PROVE  NextMessage(l).live = l.live /\ NextMessage(l).pc \in {"save", "claim"}
<1>1. PICK pc : pc = IF Len(l.batch) = 1 THEN "save" ELSE "claim"
  OBVIOUS
<1>2. PICK rest : rest = Tail(l.batch)
  OBVIOUS
<1>3. NextMessage(l) = [l EXCEPT !.batch = rest, !.pc = pc]
  BY <1>1, <1>2 DEF NextMessage
<1>4. NextMessage(l).live = l.live /\ NextMessage(l).pc = pc
  BY <1>3 DEF Loop
<1> QED
  BY <1>1, <1>4

LEMMA PollLeads ==
    ASSUME ClaimInv, NEW n \in Node, NEW k \in Slot, Poll(n, k), NEW o \in Node
    PROVE  Quieter(o) \/ Starts(o, k) \/ Fetches(o, k)
<1>1. loop[n][k] \in Loop
  BY LoopFacts
<1>2. CASE StartLoop(n, k)
  <2>1. PICK l : l = [NoLoop EXCEPT !.pc = "boot", !.live = TRUE]
    OBVIOUS
  <2>2. l.pc = "boot" /\ ~AtWork(l)
    BY <2>1 DEF NoLoop, AtWork
  <2>3. loop' = [loop EXCEPT ![n][k] = l] /\ \A j \in Slot : ~loop[n][j].live
    BY <1>2, <2>1 DEF StartLoop, Goto
  <2>4. \A u \in Node, j \in Slot : loop'[u][j] = IF u = n /\ j = k THEN l ELSE loop[u][j]
    BY <2>3 DEF ClaimInv
  <2>5. overlap \subseteq overlap' /\ (n \notin overlap' => \A j \in Slot : ~AtWork(loop[n][j]))
    BY <1>2 DEF StartLoop, AtWork
  <2>6. CASE o = n
    <3>1. Starts(n, k)
      BY <2>2, <2>3, <2>4, <2>5 DEF Starts
    <3> QED
      BY <2>6, <3>1
  <2>7. CASE o # n
    <3>1. \A j \in Slot : loop'[o][j] = loop[o][j]
      BY <2>4, <2>7
    <3> QED
      BY <2>5, <3>1 DEF Quieter
  <2> QED
    BY <2>6, <2>7
<1>3. CASE \E j \in Msg, fresh \in BOOLEAN : GetUpdates(n, k, j, fresh)
  <2>1. PICK j \in Msg, fresh \in BOOLEAN : GetUpdates(n, k, j, fresh)
    BY <1>3
  <2>2. loop[n][k].live /\ overlap' = overlap /\ \E l : loop' = [loop EXCEPT ![n][k] = l]
    BY <2>1 DEF GetUpdates, Alive, Goto, past
  <2>3. PICK l : loop' = [loop EXCEPT ![n][k] = l]
    BY <2>2
  <2>4. \A u \in Node, i \in Slot : loop'[u][i] = IF u = n /\ i = k THEN l ELSE loop[u][i]
    BY <2>3 DEF ClaimInv
  <2>5. CASE o = n
    <3>1. Fetches(n, k)
      BY <2>2, <2>4 DEF Fetches
    <3> QED
      BY <2>5, <3>1
  <2>6. CASE o # n
    BY <2>2, <2>4, <2>6 DEF Quieter
  <2> QED
    BY <2>5, <2>6
<1>4. CASE BootLoop(n, k) \/ EndLoop(n, k) \/ QuitLoop(n, k)
  <2>1. NoLoop.live = FALSE /\ ~AtWork(NoLoop)
    BY DEF NoLoop, AtWork
  <2>2. CASE loop' = [loop EXCEPT ![n][k] = NoLoop]
    BY <1>4, <2>1, <2>2, QuietOne DEF BootLoop, EndLoop, QuitLoop, past
  <2>3. CASE BootLoop(n, k) /\ Alive(n, k)
    <3>1. PICK l : l = [loop[n][k] EXCEPT !.pc = "poll", !.pos = cursor]
      OBVIOUS
    <3>2. l.pc = "poll" /\ l.live = loop[n][k].live
      BY <1>1, <3>1 DEF Loop
    <3>3. loop' = [loop EXCEPT ![n][k] = l] /\ overlap' = overlap
      BY <2>3, <3>1 DEF BootLoop, Goto, past
    <3> QED
      BY <3>2, <3>3, QuietOne DEF AtWork
  <2> QED
    BY <1>4, <2>2, <2>3 DEF BootLoop, EndLoop, QuitLoop, Goto
<1>5. CASE SaveCursor(n, k)
  <2>1. PICK l : l = [loop[n][k] EXCEPT !.pc = "poll", !.pos = loop[n][k].buf]
    OBVIOUS
  <2>2. l.pc = "poll" /\ l.live = loop[n][k].live
    BY <1>1, <2>1 DEF Loop
  <2>3. loop' = [loop EXCEPT ![n][k] = l] /\ overlap' = overlap
    BY <1>5, <2>1 DEF SaveCursor, Goto, past
  <2> QED
    BY <2>2, <2>3, QuietOne DEF AtWork
<1>6. CASE RouteDirect(n, k) \/ RouteBatch(n, k)
  <2>1. /\ loop' = [loop EXCEPT ![n][k] = NextMessage(loop[n][k])] /\ overlap' = overlap
        /\ AtWork(loop[n][k])
    BY <1>6 DEF RouteDirect, RouteBatch, Goto, AtWork
  <2> QED
    BY <1>1, <2>1, NextIs, QuietOne
<1>7. CASE Claim(n, k)
  <2>1. overlap' = overlap /\ AtWork(loop[n][k])
    BY <1>7 DEF Claim, AtWork
  <2>2. CASE loop' = [loop EXCEPT ![n][k] = NextMessage(loop[n][k])]
    BY <1>1, <2>1, <2>2, NextIs, QuietOne
  <2>3. CASE loop' = [loop EXCEPT ![n][k] = [loop[n][k] EXCEPT !.pc = "route"]]
    <3>1. PICK l : l = [loop[n][k] EXCEPT !.pc = "route"]
      OBVIOUS
    <3>2. l.live = loop[n][k].live
      BY <1>1, <3>1 DEF Loop
    <3> QED
      BY <2>1, <2>3, <3>1, <3>2, QuietOne
  <2> QED
    BY <1>7, <2>2, <2>3 DEF Claim, Goto
<1> QED
  BY <1>2, <1>3, <1>4, <1>5, <1>6, <1>7 DEF Poll

LEMMA LoopStep ==
    ASSUME ClaimInv, ProcInv, [Next]_vars, NEW o \in Node
    PROVE  Quieter(o) \/ Bare(o) \/ \E k \in Slot : Starts(o, k) \/ Fetches(o, k)
<1>1. CASE UNCHANGED vars
  BY <1>1, QuietSame DEF vars, past
<1>2. ASSUME NEW n \in Node, Live(n) PROVE Quieter(o) \/ Bare(o)
  <2>1. CASE Boot(n) \/ DrainNext(n) \/ DrainDone(n) \/ FinishStopping(n)
    BY <2>1, QuietSame DEF Boot, DrainNext, DrainDone, FinishStopping, past
  <2>2. CASE DropLoop(n) \/ Stop(n)
    BY <2>2, QuietTold DEF DropLoop, Stop, past
  <2>3. ASSUME NEW reason, Gone(n, reason) PROVE Quieter(o) \/ Bare(o)
    <3>1. /\ loop' = [loop EXCEPT ![n] = [k \in Slot |-> NoLoop]]
          /\ pipe' = [pipe EXCEPT ![n] = EmptyPipe] /\ overlap' = overlap \ {n}
      BY <2>3 DEF Gone
    <3>2. CASE o = n
      <4>1. pipe'[n] = EmptyPipe /\ \A j \in Slot : loop'[n][j] = NoLoop
        BY <3>1 DEF ProcInv, ClaimInv
      <4> QED
        BY <3>2, <4>1 DEF Bare, NoLoop
    <3>3. CASE o # n
      <4>1. loop'[o] = loop[o] /\ (o \notin overlap' => o \notin overlap)
        BY <3>1, <3>3 DEF ClaimInv
      <4> QED
        BY <4>1 DEF Quieter
    <3> QED
      BY <3>2, <3>3
  <2> QED
    BY <1>2, <2>1, <2>2, <2>3 DEF Live, Exit, Crash
<1>3. ASSUME NEW n \in Node, NEW k \in Slot, Poll(n, k)
      PROVE  Quieter(o) \/ \E j \in Slot : Starts(o, j) \/ Fetches(o, j)
  BY <1>3, PollLeads
<1>4. ASSUME NEW n \in Node, NEW p \in Peer, Reply(n, p) PROVE Quieter(o)
  BY <1>4, QuietSame DEF Reply, CloseBatch, BeginJob, EndJob
<1>5. ASSUME NEW m \in Msg, ExpireSeen(m) PROVE Quieter(o)
  BY <1>5, QuietSame DEF ExpireSeen
<1> QED
  BY <1>1, <1>2, <1>3, <1>4, <1>5 DEF Next

LEMMA LeadKeeps == ASSUME ClaimInv, ProcInv, LeadInv, [Next]_vars PROVE LeadInv'
<1> SUFFICES ASSUME NEW n \in Node PROVE Leads(n)'
  BY DEF LeadInv
<1>1. Leads(n)
  BY DEF LeadInv
<1>2. CASE Quieter(n)
  BY <1>1, <1>2 DEF Leads, Quieter
<1>3. CASE Bare(n)
  BY <1>3 DEF Leads, Bare, AtWork
<1>4. ASSUME NEW k \in Slot, Starts(n, k) PROVE Leads(n)'
  BY <1>1, <1>4 DEF Leads, Starts
<1>5. ASSUME NEW k \in Slot, Fetches(n, k) PROVE Leads(n)'
  <2>1. \A j \in Slot : j # k => ~loop[n][j].live /\ loop'[n][j] = loop[n][j]
    BY <1>1, <1>5 DEF Leads, Fetches
  <2>2. n \notin overlap' => \A j \in Slot : j # k => ~AtWork(loop[n][j])
    BY <1>1, <1>5 DEF Leads, Fetches
  <2> QED
    BY <2>1, <2>2 DEF Leads
<1> QED
  BY <1>2, <1>3, <1>4, <1>5, LoopStep

\* The loop in slot k of n claims m.
Claims(n, k, m) ==
    /\ loop[n][k].pc = "claim" /\ m = Head(loop[n][k].batch)
    /\ claimed' = claimed \cup {m} /\ pipe' = pipe
    /\ (m \notin seen /\ weak' = weak) \/ m \in weak'

LEMMA ClaimStep ==
    ASSUME ClaimInv, NEW n \in Node, NEW k \in Slot, Claim(n, k)
    PROVE  /\ claimed' = claimed \/ \E m : Claims(n, k, m)
           /\ \A o \in Node, j \in Slot : \A m :
                Holding(o, j, m)' => Holding(o, j, m) \/ (o = n /\ j = k /\ Claims(n, k, m))
<1>1. PICK m : m = Head(loop[n][k].batch)
  OBVIOUS
<1>2. loop[n][k].pc = "claim" /\ pipe' = pipe /\ loop[n][k] \in Loop
  BY LoopFacts DEF Claim
<1>3. CASE /\ Known(n, m) /\ Goto(n, k, NextMessage(loop[n][k]))
           /\ UNCHANGED <<seen, claimed, weak>>
  <2>1. loop' = [loop EXCEPT ![n][k] = NextMessage(loop[n][k])]
    BY <1>3 DEF Goto
  <2>2. \A o \in Node, j \in Slot : \A x : Holding(o, j, x)' => Holding(o, j, x)
    BY <2>1, HandPassed DEF HandsSame
  <2> QED
    BY <1>3, <2>2
<1>4. CASE /\ claimed' = claimed \cup {m} /\ Goto(n, k, [loop[n][k] EXCEPT !.pc = "route"])
           /\ (m \notin seen /\ weak' = weak) \/ m \in weak'
  <2>1. Claims(n, k, m)
    BY <1>1, <1>2, <1>4 DEF Claims
  <2>2. PICK l : l = [loop[n][k] EXCEPT !.pc = "route"]
    OBVIOUS
  <2>3. Head(l.batch) = m
    <3>1. l.batch = loop[n][k].batch
      BY <1>2, <2>2 DEF Loop
    <3> QED
      BY <1>1, <3>1
  <2>4. \A o \in Node, j \in Slot : loop'[o][j] = IF o = n /\ j = k THEN l ELSE loop[o][j]
    BY <1>4, <2>2 DEF ClaimInv, Goto
  <2>5. ASSUME NEW o \in Node, NEW j \in Slot, NEW x, Holding(o, j, x)'
        PROVE  Holding(o, j, x) \/ (o = n /\ j = k /\ Claims(n, k, x))
    BY <2>1, <2>3, <2>4, <2>5 DEF Holding
  <2> QED
    BY <2>1, <2>5
<1> QED
  BY <1>1, <1>3, <1>4 DEF Claim, Known

\* Only a claim puts a message into a hand.
LEMMA HandStep ==
    ASSUME ClaimInv, [Next]_vars
    PROVE  /\ claimed' = claimed \/ \E n \in Node, k \in Slot : \E m : Claims(n, k, m)
           /\ \A o \in Node, j \in Slot : \A m :
                Holding(o, j, m)' => Holding(o, j, m) \/ Claims(o, j, m)
<1>1. CASE UNCHANGED vars
  BY <1>1 DEF vars, past, Holding
<1>2. ASSUME NEW n \in Node, Live(n)
      PROVE  /\ claimed' = claimed
             /\ \A o \in Node, j \in Slot : \A m : Holding(o, j, m)' => Holding(o, j, m)
  <2>1. claimed' = claimed
    BY <1>2 DEF Live, Boot, DropLoop, Stop, DrainNext, DrainDone, FinishStopping, Exit, Crash, Gone, past
  <2>2. CASE Boot(n) \/ DrainNext(n) \/ DrainDone(n) \/ FinishStopping(n)
    BY <2>1, <2>2 DEF Boot, DrainNext, DrainDone, FinishStopping, Holding
  <2>3. CASE DropLoop(n) \/ Stop(n)
    BY <2>1, <2>3, LoopsTold DEF DropLoop, Stop, SameHands, HandsSame
  <2>4. CASE Exit(n) \/ Crash(n)
    <3>1. loop' = [loop EXCEPT ![n] = [k \in Slot |-> NoLoop]]
      BY <2>4 DEF Exit, Crash, Gone
    <3>2. \A o \in Node, j \in Slot : loop'[o][j] = IF o = n THEN NoLoop ELSE loop[o][j]
      BY <3>1 DEF ClaimInv
    <3> QED
      BY <2>1, <3>2 DEF Holding, NoLoop
  <2> QED
    BY <1>2, <2>2, <2>3, <2>4 DEF Live
<1>3. ASSUME NEW n \in Node, NEW k \in Slot, Poll(n, k)
      PROVE  /\ claimed' = claimed \/ \E m : Claims(n, k, m)
             /\ \A o \in Node, j \in Slot : \A m :
                  Holding(o, j, m)' => Holding(o, j, m) \/ Claims(o, j, m)
  <2>1. CASE Claim(n, k)
    BY <2>1, ClaimStep
  <2>2. CASE RouteDirect(n, k) \/ RouteBatch(n, k)
    <3>1. loop' = [loop EXCEPT ![n][k] = NextMessage(loop[n][k])] /\ claimed' = claimed
      BY <2>2 DEF RouteDirect, RouteBatch, Goto
    <3>2. \A o \in Node, j \in Slot : \A m : Holding(o, j, m)' => Holding(o, j, m)
      BY <3>1, HandPassed DEF HandsSame
    <3> QED
      BY <3>1, <3>2
  <2>3. CASE ~(Claim(n, k) \/ RouteDirect(n, k) \/ RouteBatch(n, k))
    <3>1. UNCHANGED claimed
      BY <1>3, <2>3 DEF Poll, StartLoop, BootLoop, EndLoop, QuitLoop, GetUpdates, SaveCursor, past
    <3>2. SameHands
      BY <1>3, <2>3, QuietHands DEF Poll
    <3> QED
      BY <3>1, <3>2 DEF SameHands, HandsSame
  <2> QED
    BY <2>1, <2>2, <2>3
<1>4. ASSUME NEW n \in Node, NEW p \in Peer, Reply(n, p)
      PROVE  claimed' = claimed /\ \A o \in Node, j \in Slot : \A m : Holding(o, j, m)' => Holding(o, j, m)
  BY <1>4 DEF Reply, CloseBatch, BeginJob, EndJob, Holding
<1>5. ASSUME NEW m \in Msg, ExpireSeen(m)
      PROVE  claimed' = claimed /\ \A o \in Node, j \in Slot : \A x : Holding(o, j, x)' => Holding(o, j, x)
  BY <1>5 DEF ExpireSeen, Holding
<1> QED
  BY <1>1, <1>2, <1>3, <1>4, <1>5 DEF Next

LEMMA DownKeeps == ASSUME ClaimInv, DownInv, [Next]_vars PROVE DownInv'
<1>1. CASE claimed' = claimed
  BY <1>1 DEF DownInv
<1>2. ASSUME NEW n \in Node, NEW k \in Slot, NEW m, Claims(n, k, m) PROVE DownInv'
  <2>1. m = loop[n][k].batch[1] /\ m \in Msg /\ Below(m - 1, claimed)
    BY <1>2, LoopFacts DEF LoopSound, Claims
  <2>2. \A x \in Msg : x < m => x \in claimed
    BY <2>1, InboundConstants DEF Below, Msg
  <2> QED
    BY <1>2, <2>2 DEF DownInv, Claims
<1> QED
  BY <1>1, <1>2, HandStep

LEMMA OrderlyKeeps ==
    ASSUME ClaimInv, ProcInv, LimitInv, PlaceInv, OrderInv, [Next]_vars,
           NEW n \in Node, n \notin overlap, ~Bare(n)
    PROVE  Orderly(n)'
<1>1. Orderly(n) /\ Leads(n) /\ DownInv
  BY DEF OrderInv, LeadInv
<1>2. \A a, b : Rising(a, b) => Rising(a, b)'
  BY WeakGrows DEF Rising
<1>3. ASSUME NEW p \in Peer, NEW a \in Msg, NEW b \in Msg,
             Follows(pipe'[n], p, <<FALSE, a>>, <<FALSE, b>>)
      PROVE  Rising(a, b)
  <2>1. CASE Follows(pipe[n], p, <<FALSE, a>>, <<FALSE, b>>)
    BY <1>1, <2>1 DEF Orderly
  <2>2. CASE Lighter(pipe[n], pipe'[n])
    BY <1>3, <2>1, <2>2 DEF Lighter, Calm
  <2>3. ASSUME NEW k \in Slot, NEW z, Passes(n, k, z) PROVE Rising(a, b)
    <3>1. PICK x : x = <<FALSE, a>>
      OBVIOUS
    <3>2. PICK y : y = <<FALSE, b>>
      OBVIOUS
    <3>3. PICK f \in BOOLEAN : Adds(pipe[n], pipe'[n], f, z)
      BY <2>3 DEF Passes
    <3>4. Follows(pipe'[n], p, x, y)
      BY <1>3, <3>1, <3>2
    <3>5. \/ Follows(pipe[n], p, x, y)
          \/ y = <<f, z>> /\ x[2] \in Held(pipe[n])
          \/ f = TRUE /\ x = <<f, z>>
      BY <3>3, <3>4 DEF Adds
    <3>6. CASE y = <<f, z>> /\ x[2] \in Held(pipe[n])
      <4>1. b = z /\ a \in Held(pipe[n])
        BY <3>1, <3>2, <3>6
      <4> QED
        BY <1>1, <2>3, <4>1 DEF Orderly, Passes
    <3> QED
      BY <2>1, <3>1, <3>2, <3>5, <3>6
  <2> QED
    BY <2>2, <2>3, PipeStep
<1>4. ASSUME NEW k \in Slot, NEW m \in Msg, Holding(n, k, m)', NEW a \in Held(pipe'[n])
      PROVE  Rising(a, m)'
  <2>1. CASE Holding(n, k, m)
    <3>1. CASE Lighter(pipe[n], pipe'[n])
      BY <1>1, <1>2, <1>4, <2>1, <3>1 DEF Lighter, Orderly
    <3>2. ASSUME NEW j \in Slot, NEW z, Passes(n, j, z) PROVE FALSE
      <4>1. k # j
        BY <1>4, <3>2, HandPassed DEF Passes
      <4>2. AtWork(loop[n][k]) /\ AtWork(loop[n][j])
        BY <2>1, <3>2 DEF Passes, Holding, AtWork
      <4> QED
        BY <1>1, <4>1, <4>2 DEF Leads
    <3> QED
      BY <3>1, <3>2, PipeStep
  <2>2. CASE Claims(n, k, m)
    <3>1. pipe'[n] = pipe[n] /\ a \in claimed /\ a \in Msg
      BY <1>4, <2>2 DEF Claims, PlaceInv, Has, ClaimInv
    <3>2. CASE m \in weak'
      BY <3>2 DEF Rising
    <3>3. CASE m \notin seen /\ m \notin weak
      <4>1. m \notin claimed
        BY <3>3 DEF PlaceInv
      <4>2. a # m /\ ~(m < a)
        BY <1>1, <3>1, <4>1 DEF DownInv
      <4>3. a < m
        BY <3>1, <4>2, InboundConstants DEF Msg
      <4> QED
        BY <4>3 DEF Rising
    <3> QED
      BY <2>2, <3>2, <3>3 DEF Claims
  <2> QED
    BY <1>4, <2>1, <2>2, HandStep
<1> QED
  BY <1>2, <1>3, <1>4 DEF Orderly

LEMMA OrderKeeps ==
    ASSUME ClaimInv, ProcInv, LimitInv, PlaceInv, OrderInv, [Next]_vars PROVE OrderInv'
<1>1. DownInv' /\ LeadInv'
  BY DownKeeps, LeadKeeps DEF OrderInv
<1>2. ASSUME NEW n \in Node, n \notin overlap' PROVE Orderly(n)'
  <2>1. CASE Bare(n)
    <3>1. \A k \in Slot : \A m : ~(Holding(n, k, m)')
      BY <2>1 DEF Bare, Holding
    <3>2. \A p \in Peer : \A x, y : ~Follows(pipe'[n], p, x, y)
      BY <2>1, NothingFollows DEF Bare
    <3> QED
      BY <3>1, <3>2 DEF Orderly
  <2>2. CASE ~Bare(n)
    <3>1. n \notin overlap
      BY <1>2, <2>2, LoopStep DEF Quieter, Starts, Fetches
    <3> QED
      BY <2>2, <3>1, OrderlyKeeps
  <2> QED
    BY <2>1, <2>2
<1> QED
  BY <1>1, <1>2 DEF OrderInv

LEMMA OrderInitHolds == ASSUME Init PROVE OrderInv
<1>1. /\ \A n \in Node, k \in Slot : loop[n][k] = NoLoop
      /\ \A n \in Node : pipe[n] = EmptyPipe
      /\ claimed = {} /\ overlap = {}
  BY DEF Init
<1>2. \A n \in Node : Leads(n)
  BY <1>1 DEF Leads, NoLoop, AtWork
<1>3. \A n \in Node, k \in Slot : \A m : ~Holding(n, k, m)
  BY <1>1 DEF Holding, NoLoop
<1>4. \A n \in Node : Orderly(n)
  BY <1>1, <1>3, NothingFollows DEF Orderly
<1> QED
  BY <1>1, <1>2, <1>4 DEF OrderInv, DownInv, LeadInv

LEMMA OrderInvariant == Spec => []OrderInv
<1>1. Init => OrderInv
  BY OrderInitHolds
<1>2. ClaimInv /\ ProcInv /\ LimitInv /\ PlaceInv /\ OrderInv /\ [Next]_vars => OrderInv'
  BY OrderKeeps
<1> QED
  BY <1>1, <1>2, ClaimInvariant, ProcInvariant, LimitInvariant, PlaceInvariant, PTL DEF Spec

\* Batches, the inbox, consumers, chains, flushes and drains keep the order of a
\* peer's ordinary messages, because a claim comes after all claims before it, a
\* loop routes what it claims before it claims again, and consumers wait only
\* beside an empty inbox.
THEOREM InPeerOrder == Spec => []PeerOrderKept
<1>1. ProcInv /\ OrderInv => PeerOrderKept
  <2> SUFFICES ASSUME ProcInv, OrderInv, NEW n \in Node \ overlap, NEW p \in Peer,
                      NEW s \in Places(n, p), NEW t \in Places(n, p),
                      ~JobAt(n, p, s).direct, ~JobAt(n, p, t).direct,
                      MsgAt(n, p, s) \notin weak, MsgAt(n, p, t) \notin weak,
                      PeerOf[MsgAt(n, p, s)] = p, PeerOf[MsgAt(n, p, t)] = p, Ahead(s, t)
               PROVE  MsgAt(n, p, s) < MsgAt(n, p, t)
    BY DEF PeerOrderKept
  <2>1. IsPlace(n, p, s) /\ IsPlace(n, p, t)
    BY PlaceIs
  <2>2. PICK a \in Msg : a = MsgAt(n, p, s)
    BY <2>1, PlaceFacts
  <2>3. PICK b \in Msg : b = MsgAt(n, p, t)
    BY <2>1, PlaceFacts
  <2>4. JobAt(n, p, s).direct = FALSE /\ JobAt(n, p, t).direct = FALSE
    BY <2>1, PlaceFacts
  <2>5. ItemAt(n, p, s) = <<FALSE, a>> /\ ItemAt(n, p, t) = <<FALSE, b>>
    BY <2>2, <2>3, <2>4 DEF ItemAt
  <2>6. Follows(pipe[n], p, <<FALSE, a>>, <<FALSE, b>>)
    BY <2>1, <2>5, AheadFollows
  <2>7. Rising(a, b)
    BY <2>6 DEF OrderInv, Orderly
  <2> QED
    BY <2>2, <2>3, <2>7 DEF Rising
<1> QED
  BY <1>1, ProcInvariant, OrderInvariant, PTL

-----------------------------------------------------------------------------
(* Types and limits                                                        *)

RestInv == client \subseteq Node /\ overlap \subseteq Node /\ weak \subseteq Msg /\ faults \in 0..MaxFaults

\* What a step does to these: a node takes or drops its client, a claim is left
\* unguarded, a disturbance is used up.
Elsewhere(n) ==
    /\ client' \in {client, client \cup {n}, client \ {n}}
    /\ overlap' \in {overlap, overlap \cup {n}, overlap \ {n}}
Unguarded == weak' = weak \/ \E m \in Msg : weak' = weak \cup {m}

LEMMA Spent == ASSUME RestInv, Disturb \/ Undisturbed PROVE faults' \in 0..MaxFaults
<1>1. faults \in Nat /\ faults <= MaxFaults
  BY InboundConstants DEF RestInv
<1> QED
  BY <1>1, InboundConstants DEF Disturb, Undisturbed

LEMMA ClaimRest ==
    ASSUME ClaimInv, NEW n \in Node, NEW k \in Slot, Claim(n, k)
    PROVE  Elsewhere(n) /\ Unguarded /\ (Disturb \/ Undisturbed)
<1>1. PICK m : m = Head(loop[n][k].batch)
  OBVIOUS
<1>2. m \in Msg
  BY <1>1, LoopFacts DEF Claim
<1>3. client' = client \cup {n} /\ overlap' = overlap
  BY DEF Claim
<1>4. weak' = weak \/ weak' = weak \cup {m}
  BY <1>1 DEF Claim
<1>5. Disturb \/ Undisturbed
  BY DEF Claim
<1> QED
  BY <1>2, <1>3, <1>4, <1>5 DEF Elsewhere, Unguarded

LEMMA PollRest ==
    ASSUME ClaimInv, NEW n \in Node, NEW k \in Slot, Poll(n, k)
    PROVE  Elsewhere(n) /\ Unguarded /\ (Disturb \/ Undisturbed)
<1>1. CASE Claim(n, k)
  BY <1>1, ClaimRest
<1>2. CASE StartLoop(n, k)
  BY <1>2 DEF StartLoop, Elsewhere, Unguarded
<1>3. CASE BootLoop(n, k)
  BY <1>3 DEF BootLoop, Elsewhere, Unguarded, past
<1>4. CASE EndLoop(n, k) \/ QuitLoop(n, k) \/ SaveCursor(n, k)
  BY <1>4 DEF EndLoop, QuitLoop, SaveCursor, Elsewhere, Unguarded, past
<1>5. CASE \E j \in Msg, fresh \in BOOLEAN : GetUpdates(n, k, j, fresh)
  BY <1>5 DEF GetUpdates, Elsewhere, Unguarded, past
<1>6. CASE RouteDirect(n, k) \/ RouteBatch(n, k)
  BY <1>6 DEF RouteDirect, RouteBatch, Elsewhere, Unguarded
<1> QED
  BY <1>1, <1>2, <1>3, <1>4, <1>5, <1>6 DEF Poll

LEMMA LiveRest ==
    ASSUME NEW n \in Node, Live(n) PROVE Elsewhere(n) /\ Unguarded /\ (Disturb \/ Undisturbed)
<1>1. CASE Boot(n) \/ DropLoop(n) \/ DrainNext(n) \/ DrainDone(n) \/ FinishStopping(n)
  BY <1>1 DEF Boot, DropLoop, DrainNext, DrainDone, FinishStopping, Elsewhere, Unguarded, past
<1>2. CASE Stop(n)
  BY <1>2 DEF Stop, Elsewhere, Unguarded
<1>3. CASE Exit(n) \/ Crash(n)
  BY <1>3 DEF Exit, Crash, Gone, Elsewhere, Unguarded
<1> QED
  BY <1>1, <1>2, <1>3 DEF Live

LEMMA ReplyRest ==
    ASSUME NEW n \in Node, NEW p \in Peer, Reply(n, p)
    PROVE  Elsewhere(n) /\ Unguarded /\ (Disturb \/ Undisturbed)
BY DEF Reply, CloseBatch, BeginJob, EndJob, Elsewhere, Unguarded

LEMMA RestMoves ==
    ASSUME RestInv, NEW n \in Node, Elsewhere(n), Unguarded, Disturb \/ Undisturbed PROVE RestInv'
BY Spent DEF RestInv, Elsewhere, Unguarded

LEMMA RestKeeps == ASSUME ClaimInv, RestInv, [Next]_vars PROVE RestInv'
<1>1. CASE UNCHANGED vars
  BY <1>1 DEF vars, past, RestInv
<1>2. ASSUME NEW n \in Node, Live(n) PROVE RestInv'
  BY <1>2, LiveRest, RestMoves
<1>3. ASSUME NEW n \in Node, NEW k \in Slot, Poll(n, k) PROVE RestInv'
  BY <1>3, PollRest, RestMoves
<1>4. ASSUME NEW n \in Node, NEW p \in Peer, Reply(n, p) PROVE RestInv'
  BY <1>4, ReplyRest, RestMoves
<1>5. ASSUME NEW m \in Msg, ExpireSeen(m) PROVE RestInv'
  <2>1. client' = client /\ overlap' = overlap /\ weak' = weak \cup {m} /\ Disturb
    BY <1>5 DEF ExpireSeen
  <2> QED
    BY <2>1, Spent DEF RestInv
<1> QED
  BY <1>1, <1>2, <1>3, <1>4, <1>5 DEF Next

LEMMA RestInvariant == Spec => []RestInv
<1>1. Init => RestInv
  BY InboundConstants DEF Init, RestInv
<1>2. ClaimInv /\ RestInv /\ [Next]_vars => RestInv'
  BY RestKeeps
<1> QED
  BY <1>1, <1>2, ClaimInvariant, PTL DEF Spec

\* Taken counts every job there is on the chains: no chain is longer than it looks.
LEMMA TakenBounded ==
    ASSUME NEW q, Sound(q), Room(q)
    PROVE  Len(q.inbox) <= InboxMax /\ Occupied(q) <= Consumers /\ Cardinality(Taken(q, TRUE)) <= 1
<1>1. PICK d : d = TRUE
  OBVIOUS
<1>2. PICK c : c = FALSE
  OBVIOUS
<1>3. Taken(q, d) = Loaded(q, d) /\ Taken(q, c) = Loaded(q, c)
  BY TakenIs
<1>4. Bounded(Taken(q, c), Consumers) /\ Bounded(Taken(q, d), 1)
  BY <1>1, <1>2, <1>3 DEF Room
<1> QED
  BY <1>1, <1>2, <1>4 DEF Bounded, Occupied, Room

LEMMA AllTyped == ASSUME ClaimInv, ProcInv, LimitInv, PlaceInv, RestInv PROVE InboundTypeOK
<1>1. /\ cursor \in 0..MaxMsg /\ seen \subseteq Msg /\ claimed \subseteq Msg
      /\ loop \in [Node -> [Slot -> Loop]] /\ local \in [Node -> SUBSET Msg]
  BY DEF ClaimInv
<1>2. proc \in [Node -> ProcState] /\ pipe \in [Node -> Pipe]
  BY DEF ProcInv
<1>3. answered \in [Msg -> 0..2] /\ lost \in [Msg -> Reason]
  BY DEF PlaceInv
<1>4. client \subseteq Node /\ overlap \subseteq Node /\ weak \subseteq Msg /\ faults \in 0..MaxFaults
  BY DEF RestInv
<1>5. ASSUME NEW n \in Node
      PROVE  /\ Len(pipe[n].inbox) <= InboxMax /\ Occupied(pipe[n]) <= Consumers
             /\ Cardinality(Taken(pipe[n], TRUE)) <= 1
  <2>1. Sound(pipe[n]) /\ Room(pipe[n])
    BY ShapeIs DEF LimitInv, Limits
  <2> QED
    BY <2>1, TakenBounded
<1> QED
  BY <1>1, <1>2, <1>3, <1>4, <1>5 DEF InboundTypeOK

\* Every variable keeps its type, and the queues of a process keep their limits,
\* however long it runs: inboxMaxLen jobs wait, replyConcurrency consumers work,
\* and the drain of a shutdown adds one job to theirs (worker.ts, pushInbox,
\* replyLoop and processNextReply).
THEOREM InboundTyped == Spec => []InboundTypeOK
<1>1. ClaimInv /\ ProcInv /\ LimitInv /\ PlaceInv /\ RestInv => InboundTypeOK
  BY AllTyped
<1> QED
  BY <1>1, ClaimInvariant, ProcInvariant, LimitInvariant, PlaceInvariant, RestInvariant, PTL

=============================================================================
