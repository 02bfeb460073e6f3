------------------------- MODULE OnboardingProofs -------------------------
(***************************************************************************)
(* Theorems about Onboarding and LogShipping, for every set of IDs, faults *)
(* and budgets and every batch size.  The cluster's half (ClusterInv) is   *)
(* that an ID, once in the spec, is the one the reconcile's copy has; the  *)
(* hook's half (LogInv) is that posts, batch and channel are what was      *)
(* accepted.  They share the hook's target.                                *)
(***************************************************************************)
EXTENDS Onboarding, SequenceTheorems, TLAPS

(* Sequences *)

LEMMA HeadThenTail ==
  ASSUME NEW S, NEW s \in Seq(S), s # <<>>
  PROVE  s = <<Head(s)>> \o Tail(s)
<1>1. Head(s) \in S /\ Tail(s) \in Seq(S) /\ Len(Tail(s)) = Len(s) - 1
  BY HeadTailProperties
<1>2. <<Head(s)>> \in Seq(S) /\ Len(<<Head(s)>>) = 1 /\ <<Head(s)>>[1] = s[1]
  BY <1>1
<1>3. Len(s) \in Nat /\ Len(s) = 1 + Len(Tail(s)) BY <1>1
<1>4. <<Head(s)>> \o Tail(s) \in Seq(S) /\ Len(<<Head(s)>> \o Tail(s)) = Len(s)
  BY <1>1, <1>2, <1>3, ConcatProperties
<1>5. ASSUME NEW i \in 1..Len(s) PROVE (<<Head(s)>> \o Tail(s))[i] = s[i]
  <2>1. (<<Head(s)>> \o Tail(s))[i] = IF i <= 1 THEN <<Head(s)>>[i] ELSE Tail(s)[i - 1]
    BY <1>1, <1>2, <1>3, ConcatProperties
  <2>2. CASE i = 1 BY <1>2, <2>1, <2>2
  <2>3. CASE i # 1
    <3>1. i - 1 \in 1..Len(Tail(s)) /\ (i - 1) + 1 = i BY <1>3, <2>3
    <3>2. Tail(s)[i - 1] = s[i] BY <3>1, HeadTailProperties
    <3>3. QED BY <2>1, <2>3, <3>2
  <2>4. QED BY <2>2, <2>3
<1>6. QED BY <1>4, <1>5, SeqEqual

LEMMA LengthNat == ASSUME NEW S, NEW s \in Seq(S) PROVE Len(s) \in Nat
  OBVIOUS

LEMMA EmptyLength == ASSUME NEW S, NEW s \in Seq(S) PROVE s = <<>> <=> Len(s) = 0
  OBVIOUS

LEMMA Associative ==
  \A a, b, c \in Seq(Nat) : (a \o b) \o c = a \o (b \o c)
<1> SUFFICES ASSUME NEW a \in Seq(Nat), NEW b \in Seq(Nat), NEW c \in Seq(Nat)
             PROVE  (a \o b) \o c = a \o (b \o c)
  OBVIOUS
<1>1. QED BY ConcatAssociative, SMTT(60)

LEMMA Added ==
  \A p, b, c \in Seq(Nat) : \A e \in Nat : p \o b \o Append(c, e) = Append(p \o b \o c, e)
<1> SUFFICES ASSUME NEW p \in Seq(Nat), NEW b \in Seq(Nat), NEW c \in Seq(Nat), NEW e \in Nat
             PROVE  p \o b \o Append(c, e) = Append(p \o b \o c, e)
  OBVIOUS
<1> DEFINE pb == p \o b
           l == <<e>>
<1>1. pb \in Seq(Nat) /\ l \in Seq(Nat)
  BY ConcatProperties
<1> HIDE DEF pb
<1>2. pb \o c \in Seq(Nat) BY <1>1, ConcatProperties
<1>3. Append(c, e) = c \o l /\ Append(pb \o c, e) = (pb \o c) \o l
  BY <1>2, AppendIsConcat
<1> HIDE DEF l
<1>4. (pb \o c) \o l = pb \o (c \o l) BY <1>1, Associative, ZenonT(30)
<1>5. QED BY <1>3, <1>4 DEF pb

------------------------------------------------------------------------------
(* The hook *)

Queues ==
  batch \in Seq(Nat) /\ ch \in Seq(Nat) /\ posted \in Seq(Nat) /\ accepted \in Seq(Nat)

Kept == posted \o batch \o ch = accepted

Place ==
  /\ cancelled \in BOOLEAN
  /\ phase \in {"select", "post", "drain", "last post", "done"}
  /\ phase \in {"drain", "last post", "done"} => cancelled

Counts ==
  /\ entries \in Nat /\ due \in Nat /\ due <= Len(accepted)
  /\ target = NoTarget => Len(batch) = 0 /\ Len(ch) = 0
  /\ Len(ch) <= Capacity
  /\ phase = "select" => Len(batch) < BatchSize
  /\ phase \in {"post", "last post"} => Len(batch) # 0
  /\ phase \in {"last post", "done"} => Len(posted) + Len(batch) >= due
  /\ phase = "done" => Len(batch) = 0

LogInv == Queues /\ Kept /\ Place /\ Counts

LEMMA Bounds == Capacity \in Nat /\ BatchSize \in Nat /\ BatchSize > 0
  BY ShippingAssumption DEF Capacity

LEMMA Lengths ==
  ASSUME Queues
  PROVE  Len(batch) \in Nat /\ Len(ch) \in Nat /\ Len(posted) \in Nat /\ Len(accepted) \in Nat
  BY LengthNat DEF Queues

LEMMA FireStep ==
  ASSUME LogInv, Fire PROVE LogInv'
<1>1. UNCHANGED <<target, batch, phase, posted, cancelled, due>> /\ target # NoTarget
      /\ entries > 0 /\ entries' = entries - 1
  BY DEF Fire, goroutine
<1>2. Queues BY DEF LogInv
<1>3. entries' \in Nat
  <2>1. entries \in Nat BY DEF LogInv, Counts
  <2>2. entries > 0 /\ entries' = entries - 1 BY <1>1
  <2>3. QED BY <2>1, <2>2
<1>4. CASE Len(ch) < Capacity
  <2> DEFINE e == Len(accepted) + 1
  <2>1. e \in Nat BY <1>2, Lengths
  <2>2. accepted' = Append(accepted, e) BY <1>4 DEF Fire
  <2>3. accepted' \in Seq(Nat) /\ Len(accepted') = e
    BY <1>2, <2>1, <2>2, AppendProperties DEF Queues
  <2>4. ch' = Append(ch, Len(accepted')) BY <1>4 DEF Fire
  <2> HIDE DEF e
  <2>5. ch' = Append(ch, e) BY <2>3, <2>4
  <2>6. ch' \in Seq(Nat) /\ Len(ch') = Len(ch) + 1
    BY <1>2, <2>1, <2>5, AppendProperties DEF Queues
  <2>7. posted \in Seq(Nat) /\ batch \in Seq(Nat) /\ ch \in Seq(Nat) BY <1>2 DEF Queues
  <2>8. posted \o batch \o Append(ch, e) = Append(posted \o batch \o ch, e)
    BY <2>7, <2>1, Added, ZenonT(30)
  <2>9. Kept' BY <1>1, <2>2, <2>5, <2>8 DEF LogInv, Kept
  <2>10. Queues' BY <1>1, <1>2, <2>3, <2>6 DEF Queues
  <2>11. Len(accepted') = Len(accepted) + 1 BY <2>3 DEF e
  <2>12. Counts'
    <3>1. Counts BY DEF LogInv
    <3>2. due \in Nat /\ due <= Len(accepted) /\ due' = due BY <1>1, <3>1 DEF Counts
    <3>3. Len(ch') <= Capacity BY <1>2, <1>4, <2>6, Lengths, Bounds
    <3>4. due' <= Len(accepted') BY <1>2, <2>11, <3>2, Lengths
    <3>5. QED BY <1>1, <1>3, <3>1, <3>3, <3>4 DEF Counts
  <2>13. Place' BY <1>1 DEF LogInv, Place
  <2>14. QED BY <2>9, <2>10, <2>12, <2>13 DEF LogInv
<1>5. CASE ~(Len(ch) < Capacity)
  <2>1. UNCHANGED <<ch, accepted>> BY <1>5 DEF Fire
  <2>2. Queues' /\ Kept' /\ Place' BY <1>1, <2>1 DEF LogInv, Queues, Kept, Place
  <2>3. Counts BY DEF LogInv
  <2>4. Counts' BY <1>1, <1>3, <2>1, <2>3 DEF Counts
  <2>5. QED BY <2>2, <2>4 DEF LogInv
<1>6. QED BY <1>4, <1>5

LEMMA TakeStep ==
  ASSUME LogInv, Take, UNCHANGED <<posted, accepted>>
  PROVE  /\ Queues' /\ Kept'
         /\ Len(batch') = Len(batch) + 1 /\ Len(ch') = Len(ch) - 1 /\ Len(ch) # 0
<1>1. batch \in Seq(Nat) /\ ch \in Seq(Nat) /\ posted \in Seq(Nat) /\ ch # <<>>
  BY DEF LogInv, Queues, Take
<1>2. /\ Append(batch, Head(ch)) \in Seq(Nat) /\ Tail(ch) \in Seq(Nat)
      /\ Len(Append(batch, Head(ch))) = Len(batch) + 1 /\ Len(Tail(ch)) = Len(ch) - 1
  <2>1. Head(ch) \in Nat /\ Tail(ch) \in Seq(Nat) /\ Len(Tail(ch)) = Len(ch) - 1
    BY <1>1, HeadTailProperties
  <2>2. QED BY <1>1, <2>1, AppendProperties
<1>3. posted \o Append(batch, Head(ch)) \o Tail(ch) = posted \o batch \o ch
  <2> DEFINE l == <<Head(ch)>>
             t == Tail(ch)
             pb == posted \o batch
  <2>1. l \in Seq(Nat) /\ t \in Seq(Nat) /\ Head(ch) \in Nat BY <1>1, HeadTailProperties
  <2>2. ch = l \o t BY <1>1, HeadThenTail
  <2>3. Append(batch, Head(ch)) = batch \o l BY <1>1, <2>1, AppendIsConcat
  <2>4. pb \in Seq(Nat) BY <1>1, ConcatProperties
  <2> HIDE DEF l, t
  <2>5. posted \o (batch \o l) = pb \o l
    <3>1. posted \in Seq(Nat) /\ batch \in Seq(Nat) BY <1>1
    <3>2. l \in Seq(Nat) BY <2>1
    <3>3. QED BY <3>1, <3>2, Associative, ZenonT(30)
  <2> HIDE DEF pb
  <2>6. (pb \o l) \o t = pb \o (l \o t)
    <3>1. l \in Seq(Nat) /\ t \in Seq(Nat) BY <2>1
    <3>2. QED BY <2>4, <3>1, Associative, ZenonT(30)
  <2>7. QED BY <2>2, <2>3, <2>5, <2>6 DEF t, pb
<1>4. batch' = Append(batch, Head(ch)) /\ ch' = Tail(ch) BY DEF Take
<1>5. Queues' BY <1>2, <1>4 DEF LogInv, Queues
<1>6. Kept' BY <1>3, <1>4 DEF LogInv, Kept
<1>7. Len(ch) # 0 BY <1>1, EmptyLength
<1>8. QED BY <1>2, <1>4, <1>5, <1>6, <1>7

LEMMA ReceiveStep ==
  ASSUME LogInv, Receive PROVE LogInv'
<1>1. phase = "select" /\ Take
      /\ phase' = (IF Len(batch') >= BatchSize THEN "post" ELSE "select")
      /\ UNCHANGED <<target, posted, cancelled, entries, accepted, due>>
  BY DEF Receive
<1>2. /\ Queues' /\ Kept'
      /\ Len(batch') = Len(batch) + 1 /\ Len(ch') = Len(ch) - 1 /\ Len(ch) # 0
  BY <1>1, TakeStep
<1>3. Queues BY DEF LogInv
<1>4. Counts' BY <1>1, <1>2, <1>3, Lengths, Bounds DEF LogInv, Counts
<1>5. Place' BY <1>1 DEF LogInv, Place
<1>6. QED BY <1>2, <1>4, <1>5 DEF LogInv

LEMMA TickStep == LogInv /\ (Tick \/ BeginDrain) => LogInv'
<1> SUFFICES ASSUME LogInv, Tick \/ BeginDrain PROVE LogInv'
  OBVIOUS
<1>1. UNCHANGED <<target, ch, batch, posted, cancelled, entries, accepted, due>>
  BY DEF Tick, BeginDrain
<1>2. Queues' /\ Kept' /\ Place' BY DEF LogInv, Queues, Kept, Place, Tick, BeginDrain
<1>3. CASE Tick
  <2>1. Len(batch) # 0 BY <1>3, EmptyLength DEF Tick, LogInv, Queues
  <2>2. phase = "select" /\ phase' = "post" BY <1>3 DEF Tick
  <2>3. Counts' BY <1>1, <2>1, <2>2 DEF LogInv, Counts
  <2>4. QED BY <1>2, <2>3 DEF LogInv
<1>4. CASE BeginDrain
  <2>1. phase = "select" /\ cancelled /\ phase' = "drain" BY <1>4 DEF BeginDrain
  <2>2. Counts' BY <1>1, <2>1 DEF LogInv, Counts
  <2>3. QED BY <1>2, <2>2 DEF LogInv
<1>5. QED BY <1>3, <1>4

LEMMA PostStep ==
  ASSUME LogInv, Post PROVE LogInv'
<1>1. /\ phase \in {"post", "last post"} /\ target # NoTarget
      /\ phase' = IF phase = "post" THEN "select" ELSE "done"
      /\ UNCHANGED <<target, ch, cancelled, entries, accepted, due>>
  BY DEF LogInv, Counts, Post
<1>2. posted' = posted \o batch /\ batch' = <<>> BY <1>1 DEF Post
<1>3. Queues BY DEF LogInv
<1>4. posted' \in Seq(Nat) /\ Len(posted') = Len(posted) + Len(batch)
  BY <1>2, <1>3, ConcatProperties DEF Queues
<1>5. <<>> \in Seq(Nat) OBVIOUS
<1>6. batch' \in Seq(Nat) /\ Len(batch') = 0 BY <1>2, <1>5, EmptyLength
<1>7. posted' \o <<>> = posted' BY <1>4, ConcatEmptySeq
<1>8. Kept' BY <1>1, <1>2, <1>7 DEF LogInv, Kept
<1>9. Queues' BY <1>1, <1>3, <1>4, <1>6 DEF Queues
<1>10. Counts'
  <2>1. Len(posted') + Len(batch') = Len(posted) + Len(batch)
    BY <1>3, <1>4, <1>6, Lengths
  <2>2. QED BY <1>1, <1>6, <2>1, Bounds DEF LogInv, Counts
<1>11. Place' BY <1>1 DEF LogInv, Place
<1>12. QED BY <1>8, <1>9, <1>10, <1>11 DEF LogInv

LEMMA DrainStep ==
  ASSUME LogInv, Drain PROVE LogInv'
<1>1. phase = "drain" /\ UNCHANGED <<target, posted, cancelled, entries, accepted, due>>
  BY DEF Drain
<1>2. Queues BY DEF LogInv
<1>3. CASE Take /\ UNCHANGED phase
  <2>1. /\ Queues' /\ Kept'
        /\ Len(batch') = Len(batch) + 1 /\ Len(ch') = Len(ch) - 1 /\ Len(ch) # 0
    BY <1>1, <1>3, TakeStep
  <2>2. Counts' BY <1>1, <1>2, <1>3, <2>1, Lengths, Bounds DEF LogInv, Counts
  <2>3. Place' BY <1>1, <1>3 DEF LogInv, Place
  <2>4. QED BY <2>1, <2>2, <2>3 DEF LogInv
<1>4. CASE ch = <<>> /\ phase' = (IF batch = <<>> THEN "done" ELSE "last post")
           /\ UNCHANGED <<ch, batch>>
  <2> DEFINE pb == posted \o batch
  <2>1. pb \in Seq(Nat) /\ Len(pb) = Len(posted) + Len(batch)
    BY <1>2, ConcatProperties DEF Queues
  <2>2. accepted = pb \o <<>> BY <1>4 DEF LogInv, Kept
  <2>3. accepted = pb BY <2>1, <2>2, ConcatEmptySeq
  <2>4. Len(posted) + Len(batch) >= due BY <2>1, <2>3 DEF LogInv, Counts
  <2>5. batch = <<>> <=> Len(batch) = 0 BY <1>2, EmptyLength DEF Queues
  <2>6. Counts' BY <1>1, <1>4, <2>4, <2>5 DEF LogInv, Counts
  <2>7. Queues' /\ Kept' /\ Place' BY <1>1, <1>4 DEF LogInv, Queues, Kept, Place
  <2>8. QED BY <2>6, <2>7 DEF LogInv
<1>5. QED BY <1>3, <1>4 DEF Drain

LEMMA LogStep == LogInv /\ LogNext => LogInv'
  BY FireStep, ReceiveStep, TickStep, PostStep, DrainStep DEF LogNext, Ship

LEMMA CancelStep ==
  ASSUME LogInv, Cancel PROVE LogInv'
<1>1. /\ ~cancelled /\ cancelled' = TRUE /\ due' = Len(accepted)
      /\ UNCHANGED <<target, ch, batch, phase, posted, entries, accepted>>
  BY DEF Cancel, goroutine
<1>2. Queues BY DEF LogInv
<1>3. Queues' /\ Kept' /\ Place' BY <1>1 DEF LogInv, Queues, Kept, Place
<1>4. phase \notin {"drain", "last post", "done"} BY <1>1 DEF LogInv, Place
<1>5. due' = Len(accepted) /\ UNCHANGED <<target, ch, batch, phase, posted, entries, accepted>>
  BY <1>1
<1>6. Counts'
  <2>1. Counts BY DEF LogInv
  <2>2. due' \in Nat /\ due' <= Len(accepted') BY <1>5, <1>2, Lengths
  <2>3. QED BY <1>4, <1>5, <2>1, <2>2 DEF Counts
<1>7. QED BY <1>3, <1>6 DEF LogInv

LEMMA NothingKept == <<>> \in Seq(Nat) /\ Len(<<>>) = 0 /\ <<>> \o <<>> \o <<>> = <<>>
<1> DEFINE none == <<>>
<1>1. none \in Seq(Nat) /\ Len(none) = 0 OBVIOUS
<1> HIDE DEF none
<1>2. none \o <<>> = none BY <1>1, ConcatEmptySeq
<1>3. QED BY <1>1, <1>2 DEF none

LEMMA EmptyLog ==
  ASSUME entries \in Nat, LogInit PROVE LogInv
<1>1. Queues /\ Kept BY NothingKept DEF LogInit, Queues, Kept
<1>2. Counts
  <2>1. /\ Len(ch) = 0 /\ Len(batch) = 0 /\ Len(accepted) = 0 /\ due = 0 /\ phase = "select"
    BY NothingKept DEF LogInit
  <2>2. QED BY <2>1, Bounds DEF Counts
<1>3. Place BY DEF LogInit, Place
<1>4. QED BY <1>1, <1>2, <1>3 DEF LogInv

LEMMA RestartStep ==
  ASSUME LogInv, LogRestart PROVE LogInv'
<1>1. Queues' /\ Kept' BY NothingKept DEF LogRestart, Queues, Kept
<1>2. Counts'
  <2>1. /\ Len(ch') = 0 /\ Len(batch') = 0 /\ Len(accepted') = 0 /\ due' = 0
        /\ phase' = "select" /\ entries' = entries
    BY NothingKept DEF LogRestart
  <2>2. entries \in Nat BY DEF LogInv, Counts
  <2>3. QED BY <2>1, <2>2, Bounds DEF Counts
<1>3. Place' BY DEF LogRestart, Place
<1>4. QED BY <1>1, <1>2, <1>3 DEF LogInv

------------------------------------------------------------------------------
(* The cluster *)

Clusters == {Absent, Empty} \cup IDs
Statuses == [registered : BOOLEAN, available : BOOLEAN, noted : Nat]
Secrets  == [version : Nat, valid : BOOLEAN]

Types ==
  /\ spec \in Clusters /\ status \in Statuses /\ id \in {Empty} \cup IDs
  /\ seen \in [spec : Clusters, status : Statuses]
  /\ secret \in Secrets /\ key \in Secrets

\* The copy's ID is the CR's, and the only one that was ever told to anybody.
Identity ==
  /\ seen.spec \in IDs => spec = seen.spec
  /\ pc \in {"set up", "note available", "check key", "load key"} => seen.spec \in IDs
  /\ heard \subseteq IDs \cap {spec}
  /\ target \in {NoTarget} \cup (IDs \cap {spec})

\* Versions only grow.
Versions ==
  /\ status.noted <= secret.version /\ seen.status.noted <= secret.version
  /\ key.version <= secret.version

ClusterInv == Types /\ Identity /\ Versions

LEMMA ClusterInit == Init => ClusterInv
<1> SUFFICES ASSUME Init PROVE ClusterInv
  OBVIOUS
<1>1. status \in Statuses BY DEF Init, Statuses, NeverNoted
<1>2. secret \in Secrets BY DEF Init, Secrets
<1>3. Types BY <1>1, <1>2 DEF Init, Types, Clusters
<1>4. Identity BY DEF Init, Identity, LogInit
<1>5. Versions BY DEF Init, Versions, NeverNoted
<1>6. QED BY <1>3, <1>4, <1>5 DEF ClusterInv

LEMMA ReconcileStep ==
  ASSUME ClusterInv, Reconcile PROVE ClusterInv'
<1> USE DEF ClusterInv
<1>1. CASE Begin
  <2>1. /\ seen' = [spec |-> spec, status |-> status] /\ key' = secret /\ id' = Empty
        /\ pc' = "identify" /\ UNCHANGED <<spec, status, secret, heard, target>>
    BY <1>1 DEF Begin, logVars
  <2>2. Types' BY <2>1 DEF Types, Statuses, Secrets
  <2>3. Identity' BY <2>1 DEF Identity, Types
  <2>4. Versions'
    <3>1. secret.version \in Nat BY DEF Types, Secrets
    <3>2. QED BY <2>1, <3>1 DEF Versions, Types, Statuses
  <2>5. QED BY <2>2, <2>3, <2>4
<1>2. CASE Identify
  <2>1. /\ id' \in {Empty, AgentID} /\ pc' \in {"register", "fill in"}
        /\ UNCHANGED <<spec, status, secret, heard, target, seen, key>>
    BY <1>2 DEF Identify, Go, logVars
  <2>2. QED BY <2>1, OnboardingAssumption DEF Types, Identity, Versions
<1>3. CASE Register
  <2>1. /\ id' \in IDs \cup {id} /\ pc' \in {"note registered", "idle"}
        /\ UNCHANGED <<spec, status, secret, heard, target, seen, key>>
    BY <1>3 DEF Register, Go, Return, logVars
  <2>2. QED BY <2>1 DEF Types, Identity, Versions
<1>4. CASE NoteRegistered
  <2>1. /\ pc' \in {"fill in", "idle"}
        /\ UNCHANGED <<spec, secret, heard, target, key, id>>
        /\ \/ status' = [seen.status EXCEPT !.registered = TRUE]
              /\ seen' = [seen EXCEPT !.status = status']
           \/ UNCHANGED <<status, seen>>
    BY <1>4 DEF NoteRegistered, Write, WriteRefused, Return, logVars
  <2>2. QED BY <2>1 DEF Types, Identity, Versions, Statuses
<1>5. CASE FillIn
  <2>1. /\ seen.spec \notin IDs /\ pc' = "idle"
        /\ UNCHANGED <<status, secret, heard, target, seen, key, id>>
        /\ \/ UNCHANGED spec
           \/ spec = Absent /\ spec' \in IDs \cup {Empty}
    BY <1>5 DEF FillIn, Missing, Admits, Return, logVars, Types
  <2>2. QED BY <2>1, OnboardingAssumption DEF Types, Identity, Versions, Clusters
<1>6. CASE StartShipping
  <2>1. /\ seen.spec \in IDs /\ target' = seen.spec /\ pc' = "set up"
        /\ UNCHANGED <<spec, status, secret, heard, seen, key, id>>
    BY <1>6 DEF StartShipping, Missing, UpdateState, Go
  <2>2. QED BY <2>1 DEF Types, Identity, Versions
<1>7. CASE SetUp
  <2>1. /\ seen.spec \in IDs /\ pc' \in {"check key", "note available", "idle"}
        /\ heard' \in {heard, heard \cup {seen.spec}}
        /\ UNCHANGED <<spec, status, secret, target, seen, key, id>>
    BY <1>7 DEF SetUp, Go, Return, logVars, Identity
  <2>2. QED BY <2>1 DEF Types, Identity, Versions
<1>8. CASE NoteAvailable
  <2>1. /\ pc' = "idle" /\ UNCHANGED <<spec, secret, heard, target, key, id>>
        /\ \/ status' = [seen.status EXCEPT !.available = TRUE]
              /\ seen' = [seen EXCEPT !.status = status']
           \/ UNCHANGED <<status, seen>>
    BY <1>8 DEF NoteAvailable, Write, WriteRefused, logVars
  <2>2. QED BY <2>1 DEF Types, Identity, Versions, Statuses
<1>9. CASE CheckKey
  <2>1. /\ seen.spec \in IDs /\ key' \in {key, secret}
        /\ UNCHANGED <<spec, status, secret, heard, target, seen, id>>
    BY <1>9 DEF CheckKey, Return, logVars, Identity
  <2>2. Types' BY <2>1 DEF Types, Statuses, Secrets
  <2>3. Identity' BY <2>1 DEF Identity, Types
  <2>4. Versions'
    <3>1. secret.version \in Nat BY DEF Types, Secrets
    <3>2. QED BY <2>1, <3>1 DEF Versions, Types, Statuses
  <2>5. QED BY <2>2, <2>3, <2>4
<1>10. CASE LoadKey
  <2>1. /\ pc' = "idle" /\ UNCHANGED <<spec, secret, heard, target, key, id>>
        /\ \/ \/ status' = [seen.status EXCEPT !.noted = key.version]
              \/ status' = [seen.status EXCEPT !.available = FALSE]
           \/ UNCHANGED <<status, seen>>
        /\ UNCHANGED <<status, seen>> \/ seen' = [seen EXCEPT !.status = status']
    BY <1>10 DEF LoadKey, Write, WriteRefused, Fault, logVars
  <2>2. Types'
    <3>1. seen.status \in Statuses /\ key.version \in Nat BY DEF Types, Secrets
    <3>2. status' \in Statuses BY <2>1, <3>1 DEF Types, Statuses
    <3>3. seen' \in [spec : Clusters, status : Statuses] BY <2>1, <3>2 DEF Types
    <3>4. QED BY <2>1, <3>2, <3>3 DEF Types
  <2>3. Identity' BY <2>1 DEF Identity, Types
  <2>4. Versions'
    <3>1. secret.version \in Nat BY DEF Types, Secrets
    <3>2. QED BY <2>1, <3>1 DEF Versions, Types, Statuses, Secrets
  <2>5. QED BY <2>2, <2>3, <2>4
<1>11. QED
  BY <1>1, <1>2, <1>3, <1>4, <1>5, <1>6, <1>7, <1>8, <1>9, <1>10 DEF Reconcile

LEMMA OthersStep ==
  ASSUME ClusterInv, Rotate \/ Edit \/ End \/ Restart \/ Log \/ UNCHANGED vars
  PROVE  ClusterInv'
<1> USE DEF ClusterInv
<1>1. CASE Rotate
  <2>1. /\ secret' \in Secrets /\ secret'.version = secret.version + 1
        /\ UNCHANGED <<spec, status, pc, seen, key, id, heard, target>>
    BY <1>1 DEF Rotate, local, logVars, Types, Secrets
  <2>2. Types' /\ Identity' BY <2>1 DEF Types, Identity
  <2>3. /\ secret.version \in Nat /\ key.version \in Nat
        /\ status.noted \in Nat /\ seen.status.noted \in Nat
    BY DEF Types, Statuses, Secrets
  <2>4. Versions' BY <2>1, <2>3 DEF Versions
  <2>5. QED BY <2>2, <2>4
<1>2. CASE Edit
  <2>1. /\ spec = Absent /\ spec' \in IDs
        /\ UNCHANGED <<status, secret, pc, seen, key, id, heard, target>>
    BY <1>2 DEF Edit, Admits, local, logVars
  <2>2. QED BY <2>1, OnboardingAssumption DEF Types, Identity, Versions, Clusters
<1>3. CASE End \/ Log \/ UNCHANGED vars
  <2>1. UNCHANGED <<spec, status, secret, pc, seen, key, id, heard>>
    BY <1>3 DEF End, Log, vars, onboardingVars, local
  <2>2. UNCHANGED target
    BY <1>3 DEF End, Cancel, Log, LogNext, Ship, Fire, Receive, Tick, Post, BeginDrain, Drain,
                vars, logVars
  <2>3. QED BY <2>1, <2>2 DEF Types, Identity, Versions
<1>4. CASE Restart
  <2>1. /\ pc' = "idle" /\ seen' = [spec |-> spec, status |-> status] /\ key' = secret
        /\ id' = Empty /\ target' = NoTarget
        /\ UNCHANGED <<spec, status, secret, heard>>
    BY <1>4 DEF Restart, LogRestart
  <2>2. Types' BY <2>1 DEF Types, Statuses, Secrets
  <2>3. Identity' BY <2>1 DEF Identity, Types
  <2>4. Versions'
    <3>1. secret.version \in Nat BY DEF Types, Secrets
    <3>2. QED BY <2>1, <3>1 DEF Versions, Types, Statuses
  <2>5. QED BY <2>2, <2>3, <2>4
<1>5. QED BY <1>1, <1>2, <1>3, <1>4

------------------------------------------------------------------------------
(* Together *)

Inv == ClusterInv /\ LogInv

LEMMA InvInit == Init => Inv
<1> SUFFICES ASSUME Init PROVE Inv
  OBVIOUS
<1>1. entries \in Nat
  <2>1. PICK bound \in Budgets : entries = bound.entries BY DEF Init
  <2>2. QED BY <2>1, OnboardingAssumption
<1>2. LogInit BY DEF Init
<1>3. QED BY <1>1, <1>2, EmptyLog, ClusterInit DEF Inv

LEMMA HookStep == ClusterInv /\ LogInv /\ [Next]_vars => LogInv'
<1> SUFFICES ASSUME ClusterInv, LogInv, [Next]_vars PROVE LogInv'
  OBVIOUS
<1>1. CASE UNCHANGED logVars
  BY <1>1 DEF logVars, goroutine, LogInv, Queues, Kept, Place, Counts
<1>2. CASE StartShipping
  <2>1. target' # NoTarget
    BY <1>2, OnboardingAssumption DEF StartShipping, UpdateState, Missing
  <2>2. UNCHANGED <<batch, phase, posted, ch, cancelled, entries, accepted, due>>
    BY <1>2 DEF StartShipping, UpdateState, goroutine
  <2>3. Queues' /\ Kept' /\ Place' BY <2>2 DEF LogInv, Queues, Kept, Place
  <2>4. Counts' BY <2>1, <2>2 DEF LogInv, Counts
  <2>5. QED BY <2>3, <2>4 DEF LogInv
<1>3. CASE End BY <1>3, CancelStep DEF End
<1>4. CASE Restart BY <1>4, RestartStep DEF Restart
<1>5. CASE Log BY <1>5, LogStep DEF Log
<1>6. Reconcile => StartShipping \/ UNCHANGED logVars
  BY DEF Reconcile, Begin, Identify, Register, NoteRegistered, FillIn, SetUp, NoteAvailable,
         CheckKey, LoadKey
<1>7. Rotate \/ Edit \/ UNCHANGED vars => UNCHANGED logVars
  BY DEF Rotate, Edit, vars
<1>8. QED BY <1>1, <1>2, <1>3, <1>4, <1>5, <1>6, <1>7 DEF Next

LEMMA InvStep == Inv /\ [Next]_vars => Inv'
  BY ReconcileStep, OthersStep, HookStep DEF Inv, Next

LEMMA Invariant == Spec => []Inv
  BY InvInit, InvStep, PTL DEF Spec

\* Whatever a registration answers, the agent logs or a user sets, every report and
\* every log entry goes under the ID that is in the spec.
THEOREM OneClusterID == Spec => []OneIdentity
<1>1. Inv => OneIdentity BY DEF Inv, ClusterInv, Identity, OneIdentity
<1>2. QED BY <1>1, Invariant, PTL

\* A log entry the channel took is posted once and in order, and before the process
\* ends; whenever the shutdown comes and whatever size the batches have.
THEOREM EntriesKept == Spec => []NoEntryLost
<1>1. Inv => NoEntryLost
  <2> SUFFICES ASSUME LogInv PROVE NoEntryLost
    BY DEF Inv
  <2>1. Queues BY DEF LogInv
  <2>2. batch = <<>> <=> Len(batch) = 0 BY <2>1, EmptyLength DEF Queues
  <2>3. phase = "done" => Len(batch) = 0 /\ Len(posted) + Len(batch) >= due /\ due \in Nat
    BY DEF LogInv, Counts
  <2>4. phase = "done" => Len(posted) >= due BY <2>1, <2>3, Lengths
  <2>5. QED BY <2>2, <2>3, <2>4 DEF LogInv, Kept, NoEntryLost
<1>2. QED BY <1>1, Invariant, PTL

\* Types, the place of the reconcile and the state of the log goroutine.
THEOREM TypeCorrect == Spec => []TypeOK
<1>1. Inv => TypeOK
  <2> SUFFICES ASSUME ClusterInv, LogInv PROVE TypeOK
    BY DEF Inv
  <2>1. LogTypeOK
    <3>1. Queues BY DEF LogInv
    <3>2. batch = <<>> <=> Len(batch) = 0 BY <3>1, EmptyLength DEF Queues
    <3>3. due \in Nat /\ due <= Len(accepted) /\ entries \in Nat /\ Len(ch) <= Capacity
          /\ (phase = "select" => Len(batch) < BatchSize)
          /\ (phase \in {"post", "last post"} => Len(batch) # 0)
      BY DEF LogInv, Counts
    <3>4. due \in 0..Len(accepted)
      <4>1. Len(accepted) \in Nat BY <3>1, Lengths
      <4>2. due \in Nat /\ due <= Len(accepted) BY <3>3
      <4>3. QED BY <4>1, <4>2
    <3>5. QED BY <3>2, <3>3, <3>4 DEF LogInv, Place, LogTypeOK
  <2>2. status \in [registered : BOOLEAN, available : BOOLEAN, noted : 0..secret.version]
    BY DEF ClusterInv, Types, Versions, Statuses, Secrets
  <2>3. QED BY <2>1, <2>2 DEF ClusterInv, Types, Identity, Clusters, TypeOK
<1>2. QED BY <1>1, Invariant, PTL
==============================================================================
