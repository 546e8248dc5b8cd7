----------------------------- MODULE ContentProofs -----------------------------
(***************************************************************************)
(* What holds of Content for every number of turns and jobs, of messages   *)
(* and images, and for every limit.                                        *)
(***************************************************************************)
EXTENDS Content, FiniteSetTheorems, TLAPS

(* What a step of t does to the local variables: all of it, field by field.  *)
Becomes(t, pc, asks, seen, row, cached, mine) ==
  /\ tx' \in [Txs -> Local]
  /\ tx'[t].pc = pc /\ tx'[t].asks = asks /\ tx'[t].seen = seen /\ tx'[t].row = row
  /\ tx'[t].cached = cached /\ tx'[t].mine = mine
  /\ \A s \in Txs \ {t} : tx'[s] = tx[s]

Goes(t, pc) ==
  Becomes(t, pc, tx[t].asks, tx[t].seen, tx[t].row, tx[t].cached, tx[t].mine)

Closes(t) == Becomes(t, "idle", FALSE, 0, NoRow, FALSE, {})

LEMMA Going ==
  ASSUME TypeOK, NEW t \in Txs, NEW pc \in Places, Go(t, pc)
  PROVE  Goes(t, pc)
  <1> DEFINE c == [tx[t] EXCEPT !.pc = pc]
  <1>1. tx' = [tx EXCEPT ![t] = c] /\ tx \in [Txs -> Local]
    BY DEF Go, TypeOK
  <1>2. tx'[t] = c /\ \A s \in Txs \ {t} : tx'[s] = tx[s]
    BY <1>1
  <1>3. /\ c \in Local
        /\ c.pc = pc /\ c.asks = tx[t].asks /\ c.seen = tx[t].seen /\ c.row = tx[t].row
        /\ c.cached = tx[t].cached /\ c.mine = tx[t].mine
    BY <1>1 DEF Local
  <1> QED
    BY <1>1, <1>2, <1>3 DEF Goes, Becomes

LEMMA IdleLocal ==
  /\ Idle \in Local /\ Idle.pc = "idle" /\ Idle.asks = FALSE /\ Idle.seen = 0 /\ Idle.row = NoRow
  /\ Idle.cached = FALSE /\ Idle.mine = {}
  BY ContentAssumption DEF Idle, Local, Places, NoRow, Digest

LEMMA Closing ==
  ASSUME TypeOK, NEW t \in Txs, tx' = [tx EXCEPT ![t] = Idle]
  PROVE  Closes(t)
  <1>1. tx'[t] = Idle /\ tx' \in [Txs -> Local] /\ \A s \in Txs \ {t} : tx'[s] = tx[s]
    BY IdleLocal DEF TypeOK
  <1> QED
    BY <1>1, IdleLocal DEF Closes, Becomes

LEMMA AskMoves ==
  ASSUME TypeOK, NEW t \in Txs, Ask(t)
  PROVE  \E pc \in {"day", "count"} : Becomes(t, pc, tx[t].asks, 0, Own(t), FALSE, tx[t].mine)
  <1>1. PICK pc \in {"day", "count"} :
          tx' = [tx EXCEPT ![t].pc = pc, ![t].seen = 0, ![t].cached = FALSE, ![t].row = Own(t)]
    BY DEF Ask
  <1> DEFINE c == [tx[t] EXCEPT !.pc = pc, !.seen = 0, !.cached = FALSE, !.row = Own(t)]
  <1>2. tx' = [tx EXCEPT ![t] = c] /\ tx \in [Txs -> Local]
    BY <1>1 DEF TypeOK
  <1>3. tx'[t] = c /\ \A s \in Txs \ {t} : tx'[s] = tx[s]
    BY <1>2
  <1>4. Own(t) \in Digest
    BY <1>2, IdleLocal DEF Own, Local, Idle
  <1>5. /\ c \in Local
        /\ c.pc = pc /\ c.asks = tx[t].asks /\ c.seen = 0 /\ c.row = Own(t) /\ c.cached = FALSE
        /\ c.mine = tx[t].mine
    <2>1. pc \in Places /\ 0 \in 0..MaxMsgs
      BY ContentAssumption DEF Places
    <2>2. tx[t] \in Local
      BY <1>2
    <2> HIDE DEF Own
    <2> QED
      BY <1>4, <2>1, <2>2 DEF Local
  <1> QED
    BY <1>2, <1>3, <1>5 DEF Becomes

LEMMA ReadDayMoves ==
  ASSUME TypeOK, NEW t \in Txs, ReadDay(t)
  PROVE  \E pc \in {"ready", "cache"} :
           Becomes(t, pc, tx[t].asks, msgs, tx[t].row, tx[t].cached, tx[t].mine)
  <1> DEFINE c == [tx[t] EXCEPT !.seen = msgs, !.pc = IF msgs = 0 THEN "ready" ELSE "cache"]
  <1>1. tx' = [tx EXCEPT ![t] = c] /\ tx \in [Txs -> Local]
    BY DEF ReadDay, TypeOK
  <1>2. tx'[t] = c /\ \A s \in Txs \ {t} : tx'[s] = tx[s]
    BY <1>1
  <1>3. /\ c \in Local
        /\ c.pc \in {"ready", "cache"} /\ c.asks = tx[t].asks /\ c.seen = msgs /\ c.row = tx[t].row
        /\ c.cached = tx[t].cached /\ c.mine = tx[t].mine
    BY <1>1 DEF Local, Places, TypeOK
  <1> QED
    BY <1>1, <1>2, <1>3 DEF Becomes

LEMMA ReadCacheMoves ==
  ASSUME TypeOK, NEW t \in Txs, ReadCache(t)
  PROVE  \E pc \in {"ready", "summarize"} :
           Becomes(t, pc, tx[t].asks, tx[t].seen, RowFor(t), Serves(RowFor(t), tx[t].seen), tx[t].mine)
  <1> DEFINE c == [tx[t] EXCEPT !.row = RowFor(t), !.cached = Serves(RowFor(t), tx[t].seen),
                                !.pc = IF Serves(RowFor(t), tx[t].seen) \/ tx[t].seen < MinMsgs
                                       THEN "ready" ELSE "summarize"]
  <1>1. tx' = [tx EXCEPT ![t] = c] /\ tx \in [Txs -> Local]
    BY DEF ReadCache, TypeOK
  <1>2. tx'[t] = c /\ \A s \in Txs \ {t} : tx'[s] = tx[s]
    BY <1>1
  <1>3. Serves(RowFor(t), tx[t].seen) \in BOOLEAN
    BY DEF Serves
  <1>4. RowFor(t) \in Digest
    BY <1>1 DEF RowFor, Local, TypeOK
  <1>5. /\ c \in Local
        /\ c.pc \in {"ready", "summarize"} /\ c.asks = tx[t].asks /\ c.seen = tx[t].seen
        /\ c.row = RowFor(t) /\ c.cached = Serves(RowFor(t), tx[t].seen) /\ c.mine = tx[t].mine
    BY <1>1, <1>3, <1>4 DEF Local, Places
  <1> QED
    BY <1>1, <1>2, <1>5 DEF Becomes

LEMMA WriteDigestMoves ==
  ASSUME TypeOK, NEW t \in Txs, WriteDigest(t)
  PROVE  \/ Goes(t, "broken") /\ UNCHANGED keyHolder
         \/ /\ keyHolder' = t
            /\ Becomes(t, "ready", tx[t].asks, tx[t].seen, [count |-> tx[t].seen, of |-> tx[t].seen],
                       tx[t].cached, tx[t].mine)
  <1> DEFINE d == [count |-> tx[t].seen, of |-> tx[t].seen]
             c == [tx[t] EXCEPT !.pc = "ready", !.row = d]
  <1>1. CASE Go(t, "broken") /\ UNCHANGED keyHolder
    BY <1>1, Going DEF Places
  <1>2. CASE keyHolder' = t /\ tx' = [tx EXCEPT ![t].pc = "ready", ![t].row = d]
    <2>1. tx' = [tx EXCEPT ![t] = c] /\ tx \in [Txs -> Local]
      BY <1>2 DEF TypeOK
    <2>2. tx'[t] = c /\ \A s \in Txs \ {t} : tx'[s] = tx[s]
      BY <2>1
    <2>3. d \in Digest
      BY <2>1 DEF Digest, Local
    <2>4. /\ c \in Local
          /\ c.pc = "ready" /\ c.asks = tx[t].asks /\ c.seen = tx[t].seen /\ c.row = d
          /\ c.cached = tx[t].cached /\ c.mine = tx[t].mine
      BY <2>1, <2>3 DEF Local, Places
    <2> QED
      BY <1>2, <2>1, <2>2, <2>4 DEF Becomes
  <1> QED
    BY <1>1, <1>2 DEF WriteDigest, NewDigest

(* A turn paints an image that nobody has painted before, or none. *)
Painted(t, i) ==
  /\ i \in Images /\ i[1] = t /\ i \notin files
  /\ files' = files \cup {i}
  /\ made' \in [Txs -> 0..MaxImages]
  /\ files' \subseteq {k \in Images : k[2] <= made'[k[1]]}
  /\ Becomes(t, "ready", tx[t].asks, tx[t].seen, tx[t].row, tx[t].cached, tx[t].mine \cup {i})

LEMMA PaintMoves ==
  ASSUME TypeOK, NEW t \in Txs, Paint(t)
  PROVE  Painted(t, NewImage(t)) \/ (Goes(t, "ready") /\ UNCHANGED <<made, files>>)
  <1> DEFINE i == NewImage(t)
             c == [tx[t] EXCEPT !.pc = "ready", !.mine = tx[t].mine \cup {i}]
  <1>1. CASE NoFile(t) /\ UNCHANGED <<made, files>>
    BY <1>1, Going DEF NoFile, Places
  <1>2. CASE /\ made[t] < MaxImages
             /\ made' = [made EXCEPT ![t] = @ + 1]
             /\ files' = files \cup {i}
             /\ tx' = [tx EXCEPT ![t].pc = "ready", ![t].mine = @ \cup {i}]
    <2>1. tx' = [tx EXCEPT ![t] = c] /\ tx \in [Txs -> Local]
      BY <1>2 DEF TypeOK
    <2>2. tx'[t] = c /\ \A s \in Txs \ {t} : tx'[s] = tx[s]
      BY <2>1
    <2>3. made \in [Txs -> 0..MaxImages] /\ MaxImages \in Nat
      BY ContentAssumption DEF TypeOK
    <2>4. made[t] + 1 \in 1..MaxImages
      BY <1>2, <2>3
    <2>5. i \in Images /\ i[1] = t /\ i[2] = made[t] + 1
      BY <2>4 DEF NewImage, Images
    <2>6. i \notin files
      <3>1. made[t] \in Nat /\ ~(made[t] + 1 <= made[t])
        BY <2>3
      <3> QED
        BY <2>5, <3>1 DEF TypeOK
    <2>7. made' \in [Txs -> 0..MaxImages] /\ made'[t] = made[t] + 1
      BY <1>2, <2>3, <2>4
    <2>8. \A k \in Images : k[2] <= made[k[1]] => k[2] <= made'[k[1]]
      <3>1. \A s \in Txs : made[s] \in Nat /\ made[s] <= made'[s] /\ made'[s] \in Nat
        BY <1>2, <2>3
      <3>2. \A k \in Images : k[1] \in Txs /\ k[2] \in Nat
        BY DEF Images
      <3> QED
        BY <3>1, <3>2
    <2>9. files' \subseteq {k \in Images : k[2] <= made'[k[1]]}
      <3>1. i[2] <= made'[i[1]]
        BY <2>3, <2>5, <2>7
      <3>2. \A k \in files : k \in Images /\ k[2] <= made'[k[1]]
        BY <2>8 DEF TypeOK
      <3> QED
        BY <1>2, <2>5, <3>1, <3>2
    <2>10. /\ c \in Local
           /\ c.pc = "ready" /\ c.asks = tx[t].asks /\ c.seen = tx[t].seen /\ c.row = tx[t].row
           /\ c.cached = tx[t].cached /\ c.mine = tx[t].mine \cup {i}
      BY <2>1, <2>5 DEF Local, Places
    <2>11. Becomes(t, "ready", tx[t].asks, tx[t].seen, tx[t].row, tx[t].cached, tx[t].mine \cup {i})
      BY <2>1, <2>2, <2>10 DEF Becomes
    <2> QED
      BY <1>2, <2>5, <2>6, <2>7, <2>9, <2>11 DEF Painted
  <1> QED
    BY <1>1, <1>2 DEF Paint

LEMMA StartMoves ==
  ASSUME TypeOK, NEW t \in Txs, NEW kind \in Kinds, Start(t, kind)
  PROVE  \E pc \in {"ready", "day"} :
           Becomes(t, pc, kind = "turn", tx[t].seen, tx[t].row, tx[t].cached, tx[t].mine)
  <1> DEFINE c == [tx[t] EXCEPT !.pc = First[kind], !.asks = (kind = "turn")]
  <1>1. tx' = [tx EXCEPT ![t] = c] /\ tx \in [Txs -> Local]
    BY DEF Start, TypeOK
  <1>2. tx'[t] = c /\ \A s \in Txs \ {t} : tx'[s] = tx[s]
    BY <1>1
  <1>3. First[kind] \in {"ready", "day"}
    BY DEF First, Kinds
  <1>4. /\ c \in Local
        /\ c.pc = First[kind] /\ c.asks = (kind = "turn") /\ c.seen = tx[t].seen /\ c.row = tx[t].row
        /\ c.cached = tx[t].cached /\ c.mine = tx[t].mine
    BY <1>1, <1>3 DEF Local, Places
  <1> QED
    BY <1>1, <1>2, <1>3, <1>4 DEF Becomes

-----------------------------------------------------------------------------
(* Types.                                                                  *)

(* A step of t, in terms of what it leaves t and the tables with. *)
LEMMA TypedBy ==
  ASSUME TypeOK, NEW t \in Txs, NEW pc, NEW asks, NEW row, NEW cached, NEW mine, NEW seen \in 0..msgs,
         Becomes(t, pc, asks, seen, row, cached, mine),
         UNCHANGED msgs, digest' \in Digest, keyHolder' \in Txs \cup {None},
         made' \in [Txs -> 0..MaxImages],
         files' \subseteq {i \in Images : i[2] <= made'[i[1]]}
  PROVE  TypeOK'
  <1>1. \A s \in Txs : tx'[s].seen <= msgs'
    BY DEF TypeOK, Becomes
  <1> QED
    BY <1>1 DEF TypeOK, Becomes, Images

LEMMA TypeStep ==
  ASSUME TypeOK, [Next]_vars
  PROVE  TypeOK'
  <1>0. /\ msgs \in Nat /\ 0 \in 0..msgs /\ msgs \in 0..msgs
        /\ \A t \in Txs : tx[t].seen \in 0..msgs
        /\ digest \in Digest /\ keyHolder \in Txs \cup {None} /\ made \in [Txs -> 0..MaxImages]
        /\ files \subseteq {i \in Images : i[2] <= made[i[1]]}
        /\ \A t \in Txs : tx[t].row \in Digest
    BY DEF TypeOK, Local
  <1>1. ASSUME NEW t \in Txs, UNCHANGED <<msgs, digest, keyHolder, made, files>>,
               NEW pc, NEW asks, NEW row, NEW cached, NEW mine, NEW seen \in 0..msgs,
               Becomes(t, pc, asks, seen, row, cached, mine)
        PROVE  TypeOK'
    BY <1>0, <1>1, TypedBy
  <1>2. ASSUME NEW t \in Txs, Ask(t)
        PROVE  TypeOK'
    <2>1. UNCHANGED <<msgs, digest, keyHolder, made, files>>
      BY <1>2 DEF Ask
    <2> QED
      BY <1>0, <1>1, <1>2, <2>1, AskMoves
  <1>3. ASSUME NEW t \in Txs, ReadDay(t)
        PROVE  TypeOK'
    <2>1. UNCHANGED <<msgs, digest, keyHolder, made, files>>
      BY <1>3 DEF ReadDay
    <2> QED
      BY <1>0, <1>1, <1>3, <2>1, ReadDayMoves
  <1>4. ASSUME NEW t \in Txs, ReadCache(t)
        PROVE  TypeOK'
    <2>1. UNCHANGED <<msgs, digest, keyHolder, made, files>>
      BY <1>4 DEF ReadCache
    <2> QED
      BY <1>0, <1>1, <1>4, <2>1, ReadCacheMoves
  <1>5. ASSUME NEW t \in Txs, Summarize(t) \/ CountImages(t)
        PROVE  TypeOK'
    <2>1. UNCHANGED <<msgs, digest, keyHolder, made, files>>
      BY <1>5 DEF Summarize, CountImages
    <2>2. \E pc \in {"write", "ready", "paint"} : Goes(t, pc)
      BY <1>5, Going DEF Summarize, CountImages, Places
    <2> QED
      BY <1>0, <1>1, <2>1, <2>2 DEF Goes
  <1>6. ASSUME NEW t \in Txs, WriteDigest(t)
        PROVE  TypeOK'
    <2>1. /\ UNCHANGED <<msgs, digest, made, files>>
          /\ keyHolder' \in Txs \cup {None}
      BY <1>0, <1>6, WriteDigestMoves DEF WriteDigest
    <2> QED
      BY <1>0, <1>6, <2>1, TypedBy, WriteDigestMoves DEF Goes
  <1>7. ASSUME NEW t \in Txs, Paint(t)
        PROVE  TypeOK'
    <2>1. UNCHANGED <<msgs, digest, keyHolder>>
      BY <1>7 DEF Paint
    <2>2. CASE Painted(t, NewImage(t))
      BY <1>0, <2>1, <2>2, TypedBy DEF Painted
    <2>3. CASE Goes(t, "ready") /\ UNCHANGED <<made, files>>
      BY <1>0, <1>1, <2>1, <2>3 DEF Goes
    <2> QED
      BY <1>7, <2>2, <2>3, PaintMoves
  <1>8. ASSUME NEW t \in Txs, Commit(t) \/ Abort(t) \/ Broken(t)
        PROVE  TypeOK'
    <2>1. /\ UNCHANGED <<msgs, files, made>> /\ Close(t)
          /\ digest' \in {digest, tx[t].row}
      BY <1>8 DEF Commit, Abort, Broken
    <2>2. Closes(t) /\ keyHolder' \in Txs \cup {None}
      BY <1>0, <2>1, Closing DEF Close
    <2> QED
      BY <1>0, <2>1, <2>2, TypedBy DEF Closes
  <1>9. ASSUME NEW t \in Txs, NEW kind \in Kinds, Start(t, kind)
        PROVE  TypeOK'
    <2>1. UNCHANGED <<msgs, digest, keyHolder, made, files>>
      BY <1>9 DEF Start
    <2> QED
      BY <1>0, <1>1, <1>9, <2>1, StartMoves
  <1>10. CASE Arrive
    <2>1. msgs' \in 0..MaxMsgs /\ msgs' = msgs + 1
      BY <1>0, <1>10, ContentAssumption DEF Arrive, TypeOK
    <2>2. \A t \in Txs : tx[t].seen <= msgs'
      BY <1>0, <2>1
    <2>3. UNCHANGED <<digest, keyHolder, files, made, tx>>
      BY <1>10 DEF Arrive
    <2> QED
      BY <2>1, <2>2, <2>3 DEF TypeOK
  <1>11. CASE UNCHANGED vars
    BY <1>11 DEF vars, TypeOK
  <1> QED
    BY <1>2, <1>3, <1>4, <1>5, <1>6, <1>7, <1>8, <1>9, <1>10, <1>11 DEF Next, Step

LEMMA TypeStart ==
  ASSUME Init
  PROVE  TypeOK
  BY IdleLocal, ContentAssumption DEF Init, TypeOK, NoRow, Digest

-----------------------------------------------------------------------------
(* Digests.                                                                *)

(* A row, stored or at hand, summarises as many messages as it says; and    *)
(* nobody has served itself before it has looked.                          *)
Honest ==
  /\ digest.count = digest.of
  /\ \A t \in Txs : /\ tx[t].row.count = tx[t].row.of
                    /\ tx[t].pc \in {"idle", "day"} => ~tx[t].cached

Digests == Honest /\ CachedIsOfTheDay

LEMMA DigestsBy ==
  ASSUME TypeOK, Digests, NEW t \in Txs, NEW pc, NEW asks, NEW seen, NEW row, NEW cached, NEW mine,
         Becomes(t, pc, asks, seen, row, cached, mine),
         digest' \in {digest, tx[t].row},
         row.count = row.of,
         pc \in {"idle", "day"} => ~cached,
         cached => row.of = seen
  PROVE  Digests'
  BY DEF Digests, Honest, CachedIsOfTheDay, Becomes

LEMMA DigestsGo ==
  ASSUME TypeOK, Digests, NEW t \in Txs, NEW pc, NEW asks, UNCHANGED digest,
         Becomes(t, pc, asks, tx[t].seen, tx[t].row, tx[t].cached, tx[t].mine),
         pc \in {"idle", "day"} => ~tx[t].cached
  PROVE  Digests'
  <1>1. tx[t].row.count = tx[t].row.of /\ (tx[t].cached => tx[t].row.of = tx[t].seen)
    BY DEF Digests, Honest, CachedIsOfTheDay
  <1> QED
    BY <1>1, DigestsBy

LEMMA DigestsStep ==
  ASSUME TypeOK, Digests, [Next]_vars
  PROVE  Digests'
  <1>0. /\ NoRow.count = NoRow.of /\ digest.count = digest.of
        /\ \A t \in Txs : /\ tx[t].row.count = tx[t].row.of
                          /\ Own(t).count = Own(t).of /\ RowFor(t).count = RowFor(t).of
    BY DEF Digests, Honest, NoRow, Own, RowFor
  <1>1. ASSUME NEW t \in Txs, Ask(t)
        PROVE  Digests'
    <2>1. UNCHANGED digest
      BY <1>1 DEF Ask
    <2> QED
      BY <1>0, <1>1, <2>1, AskMoves, DigestsBy
  <1>2. ASSUME NEW t \in Txs, ReadDay(t)
        PROVE  Digests'
    <2>1. ~tx[t].cached /\ UNCHANGED digest
      BY <1>2 DEF ReadDay, At, Digests, Honest
    <2> QED
      BY <1>0, <1>2, <2>1, ReadDayMoves, DigestsBy
  <1>3. ASSUME NEW t \in Txs, ReadCache(t)
        PROVE  Digests'
    <2>1. UNCHANGED digest
      BY <1>3 DEF ReadCache
    <2>2. Serves(RowFor(t), tx[t].seen) => RowFor(t).of = tx[t].seen
      BY <1>0 DEF Serves
    <2> QED
      BY <1>0, <1>3, <2>1, <2>2, ReadCacheMoves, DigestsBy
  <1>4. ASSUME NEW t \in Txs, WriteDigest(t)
        PROVE  Digests'
    <2> DEFINE d == [count |-> tx[t].seen, of |-> tx[t].seen]
    <2>1. d.count = d.of /\ d.of = tx[t].seen /\ UNCHANGED digest
      BY <1>4 DEF WriteDigest
    <2>2. CASE Goes(t, "broken")
      BY <2>1, <2>2, DigestsGo DEF Goes
    <2>3. CASE Becomes(t, "ready", tx[t].asks, tx[t].seen, d, tx[t].cached, tx[t].mine)
      BY <2>1, <2>3, DigestsBy
    <2> QED
      BY <1>4, <2>2, <2>3, WriteDigestMoves
  <1>5. ASSUME NEW t \in Txs, Summarize(t) \/ CountImages(t)
        PROVE  Digests'
    <2>1. UNCHANGED digest /\ \E pc \in {"write", "ready", "paint"} : Go(t, pc)
      BY <1>5 DEF Summarize, CountImages
    <2> QED
      BY <2>1, Going, DigestsGo DEF Places, Goes
  <1>6. ASSUME NEW t \in Txs, Paint(t)
        PROVE  Digests'
    <2>1. /\ UNCHANGED digest
          /\ tx[t].cached => tx[t].row.of = tx[t].seen
      BY <1>6 DEF Paint, Digests, CachedIsOfTheDay
    <2>2. CASE Goes(t, "ready")
      BY <2>1, <2>2, DigestsGo DEF Goes
    <2>3. CASE Painted(t, NewImage(t))
      BY <1>0, <2>1, <2>3, DigestsBy DEF Painted
    <2> QED
      BY <1>6, <2>2, <2>3, PaintMoves
  <1>7. ASSUME NEW t \in Txs, Commit(t) \/ Abort(t) \/ Broken(t)
        PROVE  Digests'
    <2>1. tx' = [tx EXCEPT ![t] = Idle] /\ digest' \in {digest, tx[t].row}
      BY <1>7 DEF Commit, Abort, Broken, Close
    <2> QED
      BY <1>0, <2>1, Closing, DigestsBy DEF Closes
  <1>8. ASSUME NEW t \in Txs, NEW kind \in Kinds, Start(t, kind)
        PROVE  Digests'
    <2>1. UNCHANGED digest /\ ~tx[t].cached
      BY <1>8 DEF Start, At, Digests, Honest
    <2> QED
      BY <1>8, <2>1, StartMoves, DigestsGo
  <1>9. CASE Arrive \/ UNCHANGED vars
    BY <1>9 DEF Arrive, vars, Digests, Honest, CachedIsOfTheDay
  <1> QED
    BY <1>1, <1>2, <1>3, <1>4, <1>5, <1>6, <1>7, <1>8, <1>9 DEF Next, Step

LEMMA DigestsStart ==
  ASSUME Init
  PROVE  Digests
  BY IdleLocal DEF Init, Digests, Honest, CachedIsOfTheDay, NoRow

-----------------------------------------------------------------------------
(* Images.                                                                 *)

(* The images of t that have a row, committed or not. *)
RowsOf(t) == {i \in images \cup tx[t].mine : i[1] = t}

(* A row that waits for its commit is of the transaction itself, and has a   *)
(* file that is neither committed nor lost.  A transaction that has passed   *)
(* the count has a place left, whatever the others commit meanwhile.         *)
PlacesLeft ==
  \A t \in Txs : /\ \A i \in tx[t].mine : i[1] = t /\ i \notin images \cup lost
                 /\ Cardinality(RowsOf(t)) <= DailyImages
                 /\ tx[t].pc = "paint" => Cardinality(RowsOf(t)) + 1 <= DailyImages

Pictures == RowsHaveFiles /\ PlacesLeft

LEMMA Finite ==
  ASSUME TypeOK, Pictures
  PROVE  /\ IsFiniteSet(images) /\ Cardinality(images) \in Nat
         /\ \A t \in Txs : /\ IsFiniteSet(images \cup tx[t].mine) /\ IsFiniteSet(RowsOf(t))
                           /\ Cardinality(RowsOf(t)) \in Nat
                           /\ Cardinality(RowsOf(t)) <= Cardinality(images \cup tx[t].mine)
                           /\ Cardinality(images \cup tx[t].mine) \in Nat
  <1>1. IsFiniteSet(Images)
    <2>1. IsFiniteSet(1..MaxImages)
      BY FS_Interval, ContentAssumption
    <2> QED
      BY <2>1, FS_Product, ContentAssumption DEF Images
  <1>2. images \subseteq Images /\ \A t \in Txs : tx[t].mine \subseteq Images
    BY DEF TypeOK, Local, Pictures, RowsHaveFiles
  <1>3. \A t \in Txs : images \cup tx[t].mine \subseteq Images /\ RowsOf(t) \subseteq images \cup tx[t].mine
    BY <1>2 DEF RowsOf
  <1>4. IsFiniteSet(images) /\ \A t \in Txs : IsFiniteSet(images \cup tx[t].mine)
    BY <1>1, <1>2, <1>3, FS_Subset
  <1>5. \A t \in Txs : IsFiniteSet(RowsOf(t)) /\ Cardinality(RowsOf(t)) <= Cardinality(images \cup tx[t].mine)
    BY <1>3, <1>4, FS_Subset
  <1> QED
    BY <1>4, <1>5, FS_CardinalityType

LEMMA OneMore ==
  ASSUME NEW S, NEW x, IsFiniteSet(S)
  PROVE  Cardinality(S \cup {x}) \in Nat /\ Cardinality(S \cup {x}) <= Cardinality(S) + 1
  <1>1. Cardinality(S) \in Nat /\ IsFiniteSet(S \cup {x})
    BY FS_CardinalityType, FS_AddElement
  <1> QED
    BY <1>1, FS_AddElement, FS_CardinalityType

(* Whatever neither paints nor ends, and has no image painted next. *)
LEMMA PicturesStay ==
  ASSUME TypeOK, Pictures, UNCHANGED <<files, images, lost>>,
         \A s \in Txs : tx'[s].mine = tx[s].mine /\ (tx'[s].pc = "paint" => tx[s].pc = "paint")
  PROVE  Pictures'
  <1>1. Uncommitted' = Uncommitted
    BY DEF Uncommitted
  <1>2. \A s \in Txs : RowsOf(s)' = RowsOf(s)
    BY DEF RowsOf
  <1>3. RowsHaveFiles'
    BY <1>1 DEF Pictures, RowsHaveFiles
  <1>4. PlacesLeft'
    BY <1>2 DEF Pictures, PlacesLeft
  <1> QED
    BY <1>3, <1>4 DEF Pictures

(* The count leaves a place for the image that is painted next. *)
LEMMA PicturesCount ==
  ASSUME TypeOK, Pictures, NEW t \in Txs, CountImages(t)
  PROVE  Pictures'
  <1>1. UNCHANGED <<files, images, lost>>
    BY DEF CountImages
  <1>2. CASE Goes(t, "ready")
    BY <1>1, <1>2, PicturesStay DEF Goes, Becomes
  <1>3. CASE Goes(t, "paint") /\ ~LimitReached(t)
    <2>1. /\ \A s \in Txs : tx'[s].mine = tx[s].mine
          /\ \A s \in Txs \ {t} : tx'[s].pc = tx[s].pc
      BY <1>3 DEF Goes, Becomes
    <2>2. Uncommitted' = Uncommitted /\ \A s \in Txs : RowsOf(s)' = RowsOf(s)
      BY <1>1, <2>1 DEF Uncommitted, RowsOf
    <2>3. Cardinality(RowsOf(t)) + 1 <= DailyImages
      <3>1. DailyImages \in Nat /\ ~(Cardinality(images \cup tx[t].mine) >= DailyImages)
        BY <1>3, ContentAssumption DEF LimitReached
      <3> QED
        BY <3>1, Finite
    <2>4. RowsHaveFiles'
      BY <1>1, <2>2 DEF Pictures, RowsHaveFiles
    <2>5. PlacesLeft'
      BY <1>1, <2>1, <2>2, <2>3 DEF Pictures, PlacesLeft
    <2> QED
      BY <2>4, <2>5 DEF Pictures
  <1> QED
    BY <1>2, <1>3, Going DEF CountImages, Places

(* A new file belongs to the turn that painted it, and takes its place. *)
LEMMA PicturesPaint ==
  ASSUME TypeOK, Pictures, NEW t \in Txs, Paint(t)
  PROVE  Pictures'
  <1>1. UNCHANGED <<images, lost>> /\ tx[t].pc = "paint"
    BY DEF Paint, At
  <1>2. CASE Goes(t, "ready") /\ UNCHANGED files
    BY <1>1, <1>2, PicturesStay DEF Goes, Becomes
  <1>3. CASE Painted(t, NewImage(t))
    <2>1. PICK i : Painted(t, i)
      BY <1>3
    <2>2. /\ i[1] = t /\ i \notin files /\ files' = files \cup {i}
          /\ tx'[t].mine = tx[t].mine \cup {i} /\ tx'[t].pc = "ready"
          /\ \A s \in Txs \ {t} : tx'[s] = tx[s]
      BY <2>1 DEF Painted, Becomes
    <2>3. i \notin images \cup lost
      BY <2>2 DEF Pictures, RowsHaveFiles
    <2>4. Uncommitted' = Uncommitted \cup {i}
      <3>1. \A s \in Txs \ {t} : tx'[s].mine = tx[s].mine
        BY <2>2
      <3> QED
        BY <2>2, <3>1 DEF Uncommitted
    <2>5. RowsHaveFiles'
      BY <1>1, <2>2, <2>3, <2>4 DEF Pictures, RowsHaveFiles
    <2>6. RowsOf(t)' = RowsOf(t) \cup {i} /\ \A s \in Txs \ {t} : RowsOf(s)' = RowsOf(s)
      BY <1>1, <2>2 DEF RowsOf
    <2>7. Cardinality(RowsOf(t)') <= DailyImages
      <3>1. Cardinality(RowsOf(t)) + 1 <= DailyImages /\ DailyImages \in Nat
        BY <1>1, ContentAssumption DEF Pictures, PlacesLeft
      <3>2. /\ Cardinality(RowsOf(t) \cup {i}) \in Nat
            /\ Cardinality(RowsOf(t) \cup {i}) <= Cardinality(RowsOf(t)) + 1
        BY OneMore, Finite
      <3>3. Cardinality(RowsOf(t)) \in Nat
        BY Finite
      <3>4. Cardinality(RowsOf(t) \cup {i}) <= DailyImages
        BY <3>1, <3>2, <3>3
      <3> QED
        BY <2>6, <3>4
    <2>8. ASSUME NEW s \in Txs
          PROVE  /\ \A k \in tx'[s].mine : k[1] = s /\ k \notin images \cup lost
                 /\ Cardinality(RowsOf(s)') <= DailyImages
                 /\ tx'[s].pc = "paint" => Cardinality(RowsOf(s)') + 1 <= DailyImages
      <3>1. CASE s = t
        <4>1. \A k \in tx[t].mine : k[1] = t /\ k \notin images \cup lost
          BY DEF Pictures, PlacesLeft
        <4>2. \A k \in tx'[t].mine : k[1] = t /\ k \notin images \cup lost
          BY <2>2, <2>3, <4>1
        <4> QED
          BY <2>2, <2>7, <3>1, <4>2
      <3>2. CASE s # t
        <4>1. tx'[s] = tx[s] /\ RowsOf(s)' = RowsOf(s)
          BY <2>2, <2>6, <3>2
        <4> QED
          BY <4>1 DEF Pictures, PlacesLeft
      <3> QED
        BY <3>1, <3>2
    <2>9. PlacesLeft'
      BY <1>1, <2>8 DEF PlacesLeft
    <2> QED
      BY <2>5, <2>9 DEF Pictures
  <1> QED
    BY <1>2, <1>3, PaintMoves

(* A commit turns the rows of its turn into committed ones; a failure leaves  *)
(* their files behind.  The others keep their rows and their places.         *)
LEMMA PicturesEnd ==
  ASSUME TypeOK, Pictures, NEW t \in Txs, Commit(t) \/ Abort(t) \/ Broken(t)
  PROVE  Pictures'
  <1>1. /\ tx'[t].mine = {} /\ tx'[t].pc = "idle"
        /\ \A s \in Txs \ {t} : tx'[s] = tx[s]
    <2>1. tx' = [tx EXCEPT ![t] = Idle]
      BY DEF Commit, Abort, Broken, Close
    <2> QED
      BY <2>1, Closing DEF Closes, Becomes
  <1>2. Uncommitted = Uncommitted' \cup tx[t].mine
    <2>1. \A s \in Txs \ {t} : tx'[s].mine = tx[s].mine
      BY <1>1
    <2> QED
      BY <1>1, <2>1 DEF Uncommitted
  <1>3. \A s \in Txs \ {t} : \A i \in tx[t].mine : i[1] # s /\ i \notin tx[s].mine
    BY DEF Pictures, PlacesLeft
  <1>4. tx[t].mine \cap Uncommitted' = {} /\ tx[t].mine \cap (images \cup lost) = {}
    BY <1>1, <1>3 DEF Uncommitted, Pictures, PlacesLeft
  <1>5. UNCHANGED files
    BY DEF Commit, Abort, Broken
  <1>6. \/ images' = images \cup tx[t].mine /\ UNCHANGED lost
        \/ lost' = lost \cup tx[t].mine /\ UNCHANGED images
    BY DEF Commit, Abort, Broken
  <1>7. RowsHaveFiles'
    <2>1. tx[t].mine \subseteq files \ images /\ files \ images = Uncommitted \cup lost
      BY <1>2, <1>4 DEF Pictures, RowsHaveFiles
    <2> QED
      BY <1>2, <1>4, <1>5, <1>6, <2>1 DEF Pictures, RowsHaveFiles
  <1>8. \A s \in Txs \ {t} : RowsOf(s)' = RowsOf(s)
    BY <1>1, <1>3, <1>6 DEF RowsOf
  <1>9. RowsOf(t)' \subseteq RowsOf(t)
    BY <1>1, <1>6 DEF RowsOf
  <1>10. Cardinality(RowsOf(t)') <= DailyImages
    <2>1. /\ Cardinality(RowsOf(t)') <= Cardinality(RowsOf(t)) /\ Cardinality(RowsOf(t)') \in Nat
      BY <1>9, Finite, FS_Subset, FS_CardinalityType
    <2>2. Cardinality(RowsOf(t)) <= DailyImages /\ DailyImages \in Nat
      BY ContentAssumption DEF Pictures, PlacesLeft
    <2>3. Cardinality(RowsOf(t)) \in Nat
      BY Finite
    <2> QED
      BY <2>1, <2>2, <2>3
  <1>11. ASSUME NEW s \in Txs
         PROVE  /\ \A k \in tx'[s].mine : k[1] = s /\ k \notin images' \cup lost'
                /\ Cardinality(RowsOf(s)') <= DailyImages
                /\ tx'[s].pc = "paint" => Cardinality(RowsOf(s)') + 1 <= DailyImages
    <2>1. CASE s = t
      BY <1>1, <1>10, <2>1
    <2>2. CASE s # t
      <3>1. \A k \in tx[s].mine : k[1] = s /\ k \notin images \cup lost /\ k \notin tx[t].mine
        BY <1>3, <2>2 DEF Pictures, PlacesLeft
      <3>2. \A k \in tx'[s].mine : k[1] = s /\ k \notin images' \cup lost'
        BY <1>1, <1>6, <2>2, <3>1
      <3> QED
        BY <1>1, <1>8, <2>2, <3>2 DEF Pictures, PlacesLeft
    <2> QED
      BY <2>1, <2>2
  <1>12. PlacesLeft'
    BY <1>11 DEF PlacesLeft
  <1> QED
    BY <1>7, <1>12 DEF Pictures

LEMMA PicturesStep ==
  ASSUME TypeOK, Pictures, [Next]_vars
  PROVE  Pictures'
  <1>1. ASSUME NEW t \in Txs, UNCHANGED <<files, images, lost>>,
               NEW pc, NEW asks, NEW seen, NEW row, NEW cached,
               Becomes(t, pc, asks, seen, row, cached, tx[t].mine), pc # "paint"
        PROVE  Pictures'
    BY <1>1, PicturesStay DEF Becomes
  <1>2. ASSUME NEW t \in Txs,
               Ask(t) \/ ReadDay(t) \/ ReadCache(t) \/ WriteDigest(t)
        PROVE  Pictures'
    <2>1. UNCHANGED <<files, images, lost>>
      BY <1>2 DEF Ask, ReadDay, ReadCache, WriteDigest
    <2> QED
      BY <1>1, <1>2, <2>1, AskMoves, ReadDayMoves, ReadCacheMoves, WriteDigestMoves DEF Goes
  <1>3. ASSUME NEW t \in Txs, Summarize(t)
        PROVE  Pictures'
    <2>1. UNCHANGED <<files, images, lost>> /\ (Goes(t, "write") \/ Goes(t, "ready"))
      BY <1>3, Going DEF Summarize, Places
    <2> QED
      BY <1>1, <2>1 DEF Goes
  <1>4. ASSUME NEW t \in Txs, NEW kind \in Kinds, Start(t, kind)
        PROVE  Pictures'
    <2>1. UNCHANGED <<files, images, lost>>
      BY <1>4 DEF Start
    <2>2. PICK pc \in {"ready", "day"} :
            Becomes(t, pc, kind = "turn", tx[t].seen, tx[t].row, tx[t].cached, tx[t].mine)
      BY <1>4, StartMoves, Zenon
    <2>3. \A s \in Txs : tx'[s].mine = tx[s].mine /\ (tx'[s].pc = "paint" => tx[s].pc = "paint")
      BY <2>2 DEF Becomes
    <2> QED
      BY <2>1, <2>3, PicturesStay
  <1>5. CASE Arrive \/ UNCHANGED vars
    BY <1>5, PicturesStay DEF Arrive, vars
  <1> QED
    BY <1>2, <1>3, <1>4, <1>5, PicturesCount, PicturesPaint, PicturesEnd DEF Next, Step

LEMMA PicturesStart ==
  ASSUME Init
  PROVE  Pictures
  <1>1. \A t \in Txs : tx[t].mine = {} /\ tx[t].pc = "idle"
    BY IdleLocal DEF Init
  <1>2. files = {} /\ images = {} /\ lost = {} /\ Uncommitted = {}
    BY <1>1 DEF Init, Uncommitted
  <1>3. \A t \in Txs : RowsOf(t) = {}
    BY <1>1, <1>2 DEF RowsOf
  <1>4. Cardinality({}) = 0 /\ DailyImages \in Nat
    BY ContentAssumption, FS_EmptySet
  <1>5. RowsHaveFiles
    BY <1>2 DEF RowsHaveFiles
  <1>6. PlacesLeft
    <2>1. \A t \in Txs : Cardinality(RowsOf(t)) <= DailyImages
      <3>1. 0 <= DailyImages
        BY <1>4
      <3> QED
        BY <1>3, <1>4, <3>1
    <2> QED
      BY <1>1, <2>1 DEF PlacesLeft
  <1> QED
    BY <1>5, <1>6 DEF Pictures

(* A set has no more members than the places they can be put into. *)
LEMMA Numbered ==
  ASSUME NEW S, IsFiniteSet(S), NEW n \in Nat, Cardinality(S) <= n
  PROVE  \E f : f \in Injection(S, 1..n)
  <1>1. Cardinality(S) \in Nat /\ 1..Cardinality(S) \subseteq 1..n
    BY FS_CardinalityType
  <1>2. IsFiniteSet(1..Cardinality(S)) /\ Cardinality(1..Cardinality(S)) = Cardinality(S)
    BY <1>1, FS_Interval
  <1>3. PICK f : f \in Bijection(S, 1..Cardinality(S))
    <2>1. ExistsBijection(S, 1..Cardinality(S))
      BY <1>2, FS_SameCardinalityBij
    <2> QED
      BY <2>1 DEF ExistsBijection
  <1>4. f \in Injection(S, 1..n)
    BY <1>1, <1>3 DEF Bijection, Injection
  <1> QED
    BY <1>4

-----------------------------------------------------------------------------
Inv == TypeOK /\ Digests /\ Pictures

LEMMA AlwaysInv == Spec => []Inv
  <1>1. Init => Inv
    BY TypeStart, DigestsStart, PicturesStart DEF Inv
  <1>2. Inv /\ [Next]_vars => Inv'
    BY TypeStep, DigestsStep, PicturesStep DEF Inv
  <1> QED
    BY <1>1, <1>2, PTL DEF Spec

(* Every row of generated_images has its file, also while turns that have    *)
(* painted wait for their commit; a file without a row is one of a turn that *)
(* still runs or has failed, however many images a turn makes.              *)
THEOREM ContentIsSound == Spec => []ContentInv
  <1>1. ASSUME Inv
        PROVE  ContentInv
    BY <1>1 DEF Inv, ContentInv, Pictures
  <1> QED
    BY <1>1, AlwaysInv, PTL

(* What digest_for_day serves from chat_digests is a summary of as many      *)
(* messages as its reader has counted, whatever two writers of the row do.  *)
THEOREM CacheIsOfTheDay == Spec => []CachedIsOfTheDay
  <1>1. ASSUME Inv
        PROVE  CachedIsOfTheDay
    BY <1>1 DEF Inv, Digests
  <1> QED
    BY <1>1, AlwaysInv, PTL

(* However many images a turn asks for, and however many turns count before  *)
(* any of them commits, the images of a day are at most the limit for each   *)
(* of the turns that run at a time.                                         *)
THEOREM ImagesAreLimited == Spec => []ImagesLimited
  <1>1. ASSUME Inv
        PROVE  ImagesLimited
    <2> DEFINE place(t) == CHOOSE f : f \in Injection(RowsOf(t), 1..DailyImages)
               F == [i \in images |-> <<i[1], place(i[1])[i]>>]
    <2>1. DailyImages \in Nat
      BY ContentAssumption
    <2>2. \A t \in Txs : place(t) \in Injection(RowsOf(t), 1..DailyImages)
      BY <1>1, <2>1, Numbered, Finite DEF Inv, Pictures, PlacesLeft
    <2>3. \A i \in images : i[1] \in Txs /\ i \in RowsOf(i[1])
      BY <1>1 DEF Inv, TypeOK, Pictures, RowsHaveFiles, RowsOf, Images
    <2>4. \A i \in images : place(i[1])[i] \in 1..DailyImages
      BY <2>2, <2>3 DEF Injection
    <2>5. ASSUME NEW i \in images, NEW k \in images, F[i] = F[k]
          PROVE  i = k
      <3>1. i[1] = k[1] /\ place(i[1])[i] = place(k[1])[k]
        BY <2>5
      <3>2. i \in RowsOf(i[1]) /\ k \in RowsOf(i[1]) /\ place(i[1])[i] = place(i[1])[k]
        BY <2>3, <3>1
      <3>3. place(i[1]) \in Injection(RowsOf(i[1]), 1..DailyImages)
        BY <2>2, <2>3
      <3> HIDE DEF place
      <3> QED
        BY <3>2, <3>3 DEF Injection, IsInjective
    <2>6. F \in Injection(images, Txs \X (1..DailyImages))
      <3>1. F \in [images -> Txs \X (1..DailyImages)]
        BY <2>3, <2>4
      <3>2. DOMAIN F = images /\ \A i, k \in images : F[i] = F[k] => i = k
        BY <2>5
      <3> HIDE DEF F
      <3> QED
        BY <3>1, <3>2 DEF Injection, IsInjective
    <2>7. /\ IsFiniteSet(Txs \X (1..DailyImages))
          /\ Cardinality(Txs \X (1..DailyImages)) = Cardinality(Txs) * DailyImages
      <3>1. IsFiniteSet(1..DailyImages) /\ Cardinality(1..DailyImages) = DailyImages
        BY <2>1, FS_Interval
      <3> QED
        BY <3>1, ContentAssumption, FS_Product
    <2>8. Cardinality(images) <= Cardinality(Txs) * DailyImages
      <3> HIDE DEF F
      <3> QED
        BY <2>6, <2>7, FS_Injection
    <2>9. Cardinality(Txs) \in Nat
      BY ContentAssumption, FS_CardinalityType
    <2>10. Cardinality(Txs) * DailyImages = DailyImages * Cardinality(Txs)
      BY <2>1, <2>9
    <2> QED
      BY <2>8, <2>10 DEF ImagesLimited
  <1> QED
    BY <1>1, AlwaysInv, PTL
=============================================================================
