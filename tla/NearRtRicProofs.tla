--------------------------- MODULE NearRtRicProofs ---------------------------
(***************************************************************************)
(* The control path of the near-RT RIC, for any xApps, nodes, actions,     *)
(* priorities, windows and caps: what is remembered is complete as far as  *)
(* the windows reach, the later of two conflicting actions has won, the    *)
(* order of execution is that of acceptance, and the cap on handovers is   *)
(* kept by every xApp on its own.                                          *)
(***************************************************************************)
EXTENDS NearRtRic, FiniteSetTheorems, SequenceTheorems, TLAPS

-----------------------------------------------------------------------------
(* Sequences and the log.                                                  *)

\* One more element at the end.
LEMMA AppendFacts ==
    ASSUME NEW S, NEW s \in Seq(S), NEW e \in S
    PROVE  /\ Append(s, e) \in Seq(S)
           /\ Len(Append(s, e)) = Len(s) + 1
           /\ DOMAIN Append(s, e) = DOMAIN s \cup {Len(s) + 1}
           /\ Len(s) + 1 \notin DOMAIN s
           /\ \A i \in DOMAIN s : Append(s, e)[i] = s[i]
           /\ Append(s, e)[Len(s) + 1] = e
OBVIOUS

\* The i-th element leaves: those behind it move up by one.
LEMMA RemoveAtFacts ==
    ASSUME NEW S, NEW s \in Seq(S), NEW i \in DOMAIN s
    PROVE  /\ RemoveAt(s, i) \in Seq(S)
           /\ Len(RemoveAt(s, i)) = Len(s) - 1
           /\ \A j \in 1 .. Len(s) - 1 :
                 RemoveAt(s, i)[j] = IF j < i THEN s[j] ELSE s[j + 1]
<1>1. i \in 1 .. Len(s) /\ Len(s) \in Nat /\ \A j \in 1 .. Len(s) : s[j] \in S
  OBVIOUS
<1> DEFINE front == SubSeq(s, 1, i - 1)
           back == SubSeq(s, i + 1, Len(s))
<1>2. /\ front \in Seq(S) /\ Len(front) = i - 1
      /\ \A j \in 1 .. i - 1 : front[j] = s[j]
  BY <1>1
<1>3. /\ back \in Seq(S) /\ Len(back) = Len(s) - i
      /\ \A j \in 1 .. Len(s) - i : back[j] = s[i + j]
  BY <1>1
<1> HIDE DEF front, back
<1>4. /\ front \o back \in Seq(S)
      /\ Len(front \o back) = Len(s) - 1
      /\ \A j \in 1 .. Len(s) - 1 : (front \o back)[j] =
            IF j <= i - 1 THEN front[j] ELSE back[j - (i - 1)]
  <2>1. /\ front \o back \in Seq(S)
        /\ Len(front \o back) = Len(front) + Len(back)
        /\ \A j \in 1 .. Len(front) + Len(back) : (front \o back)[j] =
              IF j <= Len(front) THEN front[j] ELSE back[j - Len(front)]
    BY <1>2, <1>3, ConcatProperties
  <2>2. Len(front) + Len(back) = Len(s) - 1
    BY <1>1, <1>2, <1>3
  <2> QED
    BY <1>2, <2>1, <2>2
<1>5. RemoveAt(s, i) = front \o back
  BY DEF RemoveAt, front, back
<1>6. ASSUME NEW j \in 1 .. Len(s) - 1
      PROVE  (front \o back)[j] = IF j < i THEN s[j] ELSE s[j + 1]
  <2>1. CASE j < i
    <3>1. j <= i - 1 /\ j \in 1 .. i - 1
      BY <1>1, <2>1
    <3> QED
      BY <1>2, <1>4, <2>1, <3>1
  <2>2. CASE ~(j < i)
    <3>1. ~(j <= i - 1) /\ j - (i - 1) \in 1 .. Len(s) - i /\ i + (j - (i - 1)) = j + 1
      BY <1>1, <2>2
    <3> QED
      BY <1>3, <1>4, <2>2, <3>1
  <2> QED
    BY <2>1, <2>2
<1> QED
  BY <1>4, <1>5, <1>6

-----------------------------------------------------------------------------
(* Type correctness and completeness of what is remembered.                *)

\* The state at the start is well formed.
LEMMA InitType == Init => RicTypeOK
BY RicAssumption DEF Init, RicTypeOK, LetThrough, Recorded

\* The entries of the log, and the clock.
LEMMA EntryFacts ==
    ASSUME RicTypeOK
    PROVE  /\ log \in Seq(Entry) /\ Len(log) \in Nat /\ DOMAIN log \subseteq Nat
           /\ now \in Nat /\ Window \in Nat /\ RateWindow \in Nat
           /\ \A i \in DOMAIN log : log[i] \in Entry /\ log[i].at \in Nat
<1>1. log \in Seq(Entry) /\ now \in Nat
  BY DEF RicTypeOK
<1>2. \A i \in DOMAIN log : log[i] \in Entry
  BY <1>1
<1>3. \A e \in Entry : e.at \in Nat
  BY DEF Entry
<1> QED
  BY <1>1, <1>2, <1>3, RicAssumption

\* A submission adds one entry to the log and changes no other.
LEMMA LogFacts ==
    ASSUME RicTypeOK, NEW x \in Xapp, NEW a \in Action[x], NEW o \in Outcomes,
           Log(x, a, o)
    PROVE  /\ log' \in Seq(Entry) /\ Len(log') \in 0 .. MaxSubmit
           /\ DOMAIN log' = DOMAIN log \cup {Len(log) + 1}
           /\ Len(log) + 1 \notin DOMAIN log
           /\ \A i \in DOMAIN log : log'[i] = log[i]
           /\ log'[Len(log) + 1] =
                  [xapp |-> x, action |-> a, at |-> now, outcome |-> o]
           /\ \A i \in DOMAIN log : i < Len(log) + 1
           /\ Len(log) + 1 \in 1 .. MaxSubmit
<1> DEFINE e == [xapp |-> x, action |-> a, at |-> now, outcome |-> o]
<1>1. e \in Entry
  BY DEF RicTypeOK, Entry
<1>2. log \in Seq(Entry) /\ Len(log) \in Nat /\ log' = Append(log, e)
  BY DEF RicTypeOK, Log
<1>3. Len(log) < MaxSubmit /\ MaxSubmit \in Nat
  BY RicAssumption DEF Log
<1> HIDE DEF e
<1>4. /\ log' \in Seq(Entry) /\ Len(log') = Len(log) + 1
      /\ DOMAIN log' = DOMAIN log \cup {Len(log) + 1}
      /\ Len(log) + 1 \notin DOMAIN log
      /\ \A i \in DOMAIN log : log'[i] = log[i]
      /\ log'[Len(log) + 1] = e
  BY <1>1, <1>2, AppendFacts
<1>5. \A i \in DOMAIN log : i < Len(log) + 1
  BY <1>2
<1> QED
  BY <1>2, <1>3, <1>4, <1>5 DEF e

\* The log stays in the order of time.
LEMMA LogOrder ==
    ASSUME RicTypeOK, NEW x \in Xapp, NEW a \in Action[x], NEW o \in Outcomes,
           Log(x, a, o), now' = now
    PROVE  /\ \A i, j \in DOMAIN log' : i < j => log'[i].at <= log'[j].at
           /\ \A i \in DOMAIN log' : log'[i].at <= now
<1>1. /\ DOMAIN log' = DOMAIN log \cup {Len(log) + 1}
      /\ \A i \in DOMAIN log : log'[i] = log[i] /\ i < Len(log) + 1
      /\ log'[Len(log) + 1].at = now /\ log'[Len(log) + 1].outcome = o
  <2>1. log'[Len(log) + 1] =
            [xapp |-> x, action |-> a, at |-> now, outcome |-> o]
    BY LogFacts
  <2>2. /\ DOMAIN log' = DOMAIN log \cup {Len(log) + 1}
        /\ \A i \in DOMAIN log : log'[i] = log[i] /\ i < Len(log) + 1
    BY LogFacts
  <2> QED
    BY <2>1, <2>2
<1>2. DOMAIN log \subseteq Nat /\ Len(log) \in Nat /\ now \in Nat
  BY EntryFacts
<1>3. /\ \A i, j \in DOMAIN log : i < j => log[i].at <= log[j].at
      /\ \A i \in DOMAIN log : log[i].at <= now
  BY DEF RicTypeOK
<1>4. \A i, j \in DOMAIN log' : i < j => log'[i].at <= log'[j].at
  BY <1>1, <1>2, <1>3
<1>5. \A i \in DOMAIN log' : log'[i].at <= now
  BY <1>1, <1>2, <1>3
<1> QED
  BY <1>4, <1>5

\* Trimming forgets no handover that the rate window still holds.
LEMMA TrimmedFacts ==
    ASSUME RicTypeOK, NEW x \in Xapp
    PROVE  /\ Trimmed(x) \subseteq hoTimes[x]
           /\ Trimmed(x) \subseteq DOMAIN log
           /\ LetThrough(x) \subseteq Trimmed(x)
<1>1. hoTimes[x] \subseteq DOMAIN log /\ LetThrough(x) \subseteq hoTimes[x]
  BY DEF RicTypeOK
<1>2. \A i \in LetThrough(x) : now - log[i].at <= RateWindow
  BY DEF LetThrough
<1> QED
  BY <1>1, <1>2 DEF Trimmed

\* Pruning forgets no action that the conflict window still holds.
LEMMA PrunedFacts ==
    ASSUME RicTypeOK
    PROVE  /\ Pruned \subseteq recent
           /\ \A i \in DOMAIN log :
                 Recorded(i) /\ now - log[i].at <= Window => i \in Pruned
<1>1. ASSUME NEW i \in DOMAIN log, now - log[i].at <= Window
      PROVE  now - log[i].at <= 2 * Window
  <2>1. log[i].at \in Nat /\ now \in Nat /\ Window \in Nat
    BY EntryFacts
  <2> QED
    BY <1>1, <2>1
<1> QED
  BY <1>1 DEF RicTypeOK, Pruned

\* What a submission makes of the counted handovers.
LEMMA CountedFacts ==
    ASSUME RicTypeOK, NEW x \in Xapp, NEW a \in Action[x], NEW o \in Outcomes,
           Log(x, a, o), now' = now,
           \/ Compliant(x, a)
           \/ /\ hoTimes' = [hoTimes EXCEPT ![x] = Trimmed(x)]
              /\ o = "policy"
    PROVE  /\ hoTimes' \in [Xapp -> SUBSET DOMAIN log']
           /\ \A y \in Xapp : LetThrough(y)' \subseteq hoTimes'[y]
<1>1. /\ DOMAIN log' = DOMAIN log \cup {Len(log) + 1}
      /\ Len(log) + 1 \notin DOMAIN log
      /\ \A i \in DOMAIN log : log'[i] = log[i]
      /\ log'[Len(log) + 1] =
             [xapp |-> x, action |-> a, at |-> now, outcome |-> o]
  BY LogFacts
<1>3. hoTimes \in [Xapp -> SUBSET DOMAIN log]
  BY DEF RicTypeOK
<1>4. /\ Trimmed(x) \subseteq DOMAIN log /\ LetThrough(x) \subseteq Trimmed(x)
      /\ \A y \in Xapp : LetThrough(y) \subseteq hoTimes[y]
  BY TrimmedFacts DEF RicTypeOK
<1>5. \A y \in Xapp : \A i \in LetThrough(y)' :
          \/ i \in LetThrough(y)
          \/ /\ i = Len(log) + 1 /\ y = x /\ IsHandover(a)
             /\ o \in {"routed", "unroutable"}
  <2> SUFFICES ASSUME NEW y \in Xapp, NEW i \in LetThrough(y)'
               PROVE  \/ i \in LetThrough(y)
                      \/ /\ i = Len(log) + 1 /\ y = x /\ IsHandover(a)
                         /\ o \in {"routed", "unroutable"}
    OBVIOUS
  <2>1. /\ i \in DOMAIN log' /\ log'[i].xapp = y
        /\ log'[i].action.type = "HANDOVER_TRIGGER"
        /\ log'[i].outcome \in {"routed", "unroutable"}
        /\ now - log'[i].at <= RateWindow
    BY DEF LetThrough, Recorded, IsHandover
  <2>2. CASE i \in DOMAIN log
    BY <1>1, <2>1, <2>2 DEF LetThrough, Recorded, IsHandover
  <2>3. CASE i = Len(log) + 1
    BY <1>1, <2>1, <2>3 DEF IsHandover
  <2> QED
    BY <1>1, <2>1, <2>2, <2>3
<1>6. CASE Compliant(x, a) /\ IsHandover(a)
  <2>1. hoTimes' = [hoTimes EXCEPT ![x] = Trimmed(x) \cup {Len(log) + 1}]
    BY <1>6 DEF Compliant
  <2> QED
    BY <1>1, <1>3, <1>4, <1>5, <2>1
<1>7. CASE Compliant(x, a) /\ ~IsHandover(a)
  <2>1. hoTimes' = hoTimes
    BY <1>7 DEF Compliant
  <2> QED
    BY <1>1, <1>3, <1>4, <1>5, <1>7, <2>1
<1>8. CASE hoTimes' = [hoTimes EXCEPT ![x] = Trimmed(x)] /\ o = "policy"
  BY <1>1, <1>3, <1>4, <1>5, <1>8
<1> QED
  BY <1>6, <1>7, <1>8

\* What a submission makes of the remembered actions.
LEMMA RememberedFacts ==
    ASSUME RicTypeOK, NEW x \in Xapp, NEW a \in Action[x], NEW o \in Outcomes,
           Log(x, a, o), now' = now,
           \/ recent' = recent /\ o = "policy"
           \/ recent' = Pruned /\ o = "conflict"
           \/ /\ recent' = Pruned \cup {Len(log) + 1}
              /\ o \in {"routed", "unroutable"}
    PROVE  /\ recent' \subseteq {i \in DOMAIN log' : Recorded(i)'}
           /\ \A i \in DOMAIN log' :
                 Recorded(i)' /\ now' - log'[i].at <= Window => i \in recent'
<1>1. /\ DOMAIN log' = DOMAIN log \cup {Len(log) + 1}
      /\ Len(log) + 1 \notin DOMAIN log
      /\ \A i \in DOMAIN log : log'[i] = log[i]
      /\ log'[Len(log) + 1] =
             [xapp |-> x, action |-> a, at |-> now, outcome |-> o]
  BY LogFacts
<1>2. /\ Pruned \subseteq recent
      /\ \A i \in DOMAIN log :
            Recorded(i) /\ now - log[i].at <= Window => i \in Pruned
  BY PrunedFacts
<1>3. /\ recent \subseteq {i \in DOMAIN log : Recorded(i)}
      /\ \A i \in DOMAIN log :
            Recorded(i) /\ now - log[i].at <= Window => i \in recent
  BY DEF RicTypeOK
<1>4. log'[Len(log) + 1].outcome = o
  BY <1>1
<1>5. recent' \subseteq {i \in DOMAIN log' : Recorded(i)'}
  BY <1>1, <1>2, <1>3, <1>4 DEF Recorded
<1>6. ASSUME NEW i \in DOMAIN log', Recorded(i)', now - log'[i].at <= Window
      PROVE  i \in recent'
  BY <1>1, <1>2, <1>3, <1>4, <1>6 DEF Recorded
<1> QED
  BY <1>5, <1>6

\* What an acceptance puts on the way to the nodes.
LEMMA FlightFacts ==
    ASSUME RicTypeOK, NEW x \in Xapp, NEW a \in Action[x],
           Accepted(x, a)
    PROVE  /\ flight' \in [Node -> Seq(Sent)]
           /\ \A n \in Node :
                 [id |-> Len(log) + 1, level |-> level[n]] \in Sent
           /\ \A n \in Node : flight'[n] =
                 IF n \in Targets(a)
                 THEN Append(flight[n],
                             [id |-> Len(log) + 1, level |-> level[n]])
                 ELSE flight[n]
<1>1. Len(log) + 1 \in 1 .. MaxSubmit
  <2>1. PICK o \in Outcomes : Log(x, a, o)
    BY DEF Accepted, Outcomes
  <2> QED
    BY <2>1, LogFacts
<1>2. \A n \in Node : level[n] \in 0 .. MaxLevel
  BY DEF RicTypeOK
<1>3. \A n \in Node : [id |-> Len(log) + 1, level |-> level[n]] \in Sent
  BY <1>1, <1>2 DEF Sent
<1>4. flight' = [n \in Node |-> IF n \in Targets(a)
                   THEN Append(flight[n],
                               [id |-> Len(log) + 1, level |-> level[n]])
                   ELSE flight[n]]
  BY DEF Accepted
<1>5. \A n \in Node : flight[n] \in Seq(Sent)
  BY DEF RicTypeOK
<1>6. \A n \in Node :
          Append(flight[n], [id |-> Len(log) + 1, level |-> level[n]])
              \in Seq(Sent)
  BY <1>3, <1>5, AppendFacts
<1> QED
  BY <1>3, <1>4, <1>5, <1>6

\* A submission keeps the state well formed, however it is judged.
LEMMA SubmitType ==
    ASSUME RicTypeOK, NEW x \in Xapp, NEW a \in Action[x], SubmitAction(x, a)
    PROVE  RicTypeOK'
<1>1. UNCHANGED <<now, strategy, cap, level, executed>>
  BY DEF SubmitAction
<1>2. ASSUME NEW o \in Outcomes, Log(x, a, o),
             \/ Compliant(x, a)
             \/ /\ hoTimes' = [hoTimes EXCEPT ![x] = Trimmed(x)]
                /\ o = "policy",
             \/ recent' = recent /\ o = "policy"
             \/ recent' = Pruned /\ o = "conflict"
             \/ /\ recent' = Pruned \cup {Len(log) + 1}
                /\ o \in {"routed", "unroutable"},
             flight' \in [Node -> Seq(Sent)]
      PROVE  RicTypeOK'
  <2>1. log' \in Seq(Entry) /\ Len(log') <= MaxSubmit
    <3>1. log' \in Seq(Entry) /\ Len(log') \in 0 .. MaxSubmit
      BY <1>2, LogFacts
    <3> QED
      BY <3>1, RicAssumption
  <2>2. /\ \A i, j \in DOMAIN log' : i < j => log'[i].at <= log'[j].at
        /\ \A i \in DOMAIN log' : log'[i].at <= now
    BY <1>1, <1>2, LogOrder
  <2>3. /\ hoTimes' \in [Xapp -> SUBSET DOMAIN log']
        /\ \A y \in Xapp : LetThrough(y)' \subseteq hoTimes'[y]
    BY <1>1, <1>2, CountedFacts
  <2>4. /\ recent' \subseteq {i \in DOMAIN log' : Recorded(i)'}
        /\ \A i \in DOMAIN log' :
              Recorded(i)' /\ now' - log'[i].at <= Window => i \in recent'
    BY <1>1, <1>2, RememberedFacts
  <2> QED
    BY <1>1, <1>2, <2>1, <2>2, <2>3, <2>4 DEF RicTypeOK
<1>3. flight \in [Node -> Seq(Sent)]
  BY DEF RicTypeOK
<1>4. CASE RefusedByPolicy(x, a)
  <2>1. /\ hoTimes' = [hoTimes EXCEPT ![x] = Trimmed(x)] /\ recent' = recent
        /\ Log(x, a, "policy") /\ flight' = flight /\ "policy" \in Outcomes
    BY <1>4 DEF RefusedByPolicy, Outcomes
  <2> QED
    BY <1>2, <1>3, <2>1
<1>5. CASE RefusedByConflict(x, a)
  <2>1. /\ Compliant(x, a) /\ recent' = Pruned /\ Log(x, a, "conflict")
        /\ flight' = flight /\ "conflict" \in Outcomes
    BY <1>5 DEF RefusedByConflict, Outcomes
  <2> QED
    BY <1>2, <1>3, <2>1
<1>6. CASE Accepted(x, a)
  <2>1. /\ Compliant(x, a) /\ recent' = Pruned \cup {Len(log) + 1}
        /\ \E o \in {"unroutable", "routed"} : Log(x, a, o)
    BY <1>6 DEF Accepted
  <2>2. flight' \in [Node -> Seq(Sent)]
    BY <1>6, FlightFacts
  <2>3. PICK o \in {"unroutable", "routed"} : Log(x, a, o)
    BY <2>1
  <2>4. o \in Outcomes
    BY DEF Outcomes
  <2> QED
    BY <1>2, <2>1, <2>2, <2>3, <2>4
<1> QED
  BY <1>4, <1>5, <1>6 DEF SubmitAction

\* An action leaves the air for its node.
LEMMA ExecuteFacts ==
    ASSUME RicTypeOK, NEW n \in Node, NEW i \in DOMAIN flight[n],
           ExecuteRcAction(n, i)
    PROVE  /\ flight[n] \in Seq(Sent) /\ flight[n][i] \in Sent
           /\ executed[n] \in Seq(Sent)
           /\ flight' \in [Node -> Seq(Sent)]
           /\ flight'[n] = RemoveAt(flight[n], i)
           /\ \A m \in Node \ {n} : flight'[m] = flight[m]
           /\ executed' \in [Node -> Seq(Sent)]
           /\ executed'[n] = Append(executed[n], flight[n][i])
           /\ \A m \in Node \ {n} : executed'[m] = executed[m]
<1>1. /\ flight \in [Node -> Seq(Sent)] /\ executed \in [Node -> Seq(Sent)]
      /\ flight[n] \in Seq(Sent) /\ executed[n] \in Seq(Sent)
  BY DEF RicTypeOK
<1>2. flight[n][i] \in Sent
  BY <1>1
<1>3. RemoveAt(flight[n], i) \in Seq(Sent)
  BY <1>1, RemoveAtFacts
<1>4. Append(executed[n], flight[n][i]) \in Seq(Sent)
  BY <1>1, <1>2, AppendFacts
<1>5. /\ flight' = [flight EXCEPT ![n] = RemoveAt(flight[n], i)]
      /\ executed' = [executed EXCEPT ![n] =
                          Append(executed[n], flight[n][i])]
  BY DEF ExecuteRcAction
<1> QED
  BY <1>1, <1>2, <1>3, <1>4, <1>5

\* Every step keeps the state well formed.
LEMMA NextType == RicTypeOK /\ [Next]_vars => RicTypeOK'
<1> SUFFICES ASSUME RicTypeOK, [Next]_vars
             PROVE  RicTypeOK'
  OBVIOUS
<1>1. ASSUME NEW x \in Xapp, NEW a \in Action[x], SubmitAction(x, a)
      PROVE  RicTypeOK'
  BY <1>1, SubmitType
<1>2. ASSUME NEW n \in Node, NEW i \in DOMAIN flight[n], ExecuteRcAction(n, i)
      PROVE  RicTypeOK'
  <2>1. flight' \in [Node -> Seq(Sent)] /\ executed' \in [Node -> Seq(Sent)]
    BY <1>2, ExecuteFacts
  <2> QED
    BY <1>2, <2>1 DEF ExecuteRcAction, RicTypeOK, LetThrough, Recorded
<1>3. ASSUME NEW n \in Node, SetFeederLinkDelay(n)
      PROVE  RicTypeOK'
  <2>1. level' \in [Node -> 0 .. MaxLevel]
    BY <1>3, RicAssumption DEF SetFeederLinkDelay, RicTypeOK
  <2> QED
    BY <1>3, <2>1 DEF SetFeederLinkDelay, RicTypeOK, LetThrough, Recorded
<1>4. ASSUME NEW c \in Caps, HandleA1Policy(c)
      PROVE  RicTypeOK'
  BY <1>4 DEF HandleA1Policy, RicTypeOK, LetThrough, Recorded
<1>5. CASE Tick
  <2>1. now' \in 0 .. MaxTime /\ now' = now + 1 /\ log' = log
    BY <1>5, RicAssumption DEF Tick, RicTypeOK
  <2>2. /\ now \in Nat /\ Window \in Nat /\ RateWindow \in Nat
        /\ \A i \in DOMAIN log : log[i].at \in Nat
    BY EntryFacts
  <2>3. \A i \in DOMAIN log : log'[i].at <= now'
    BY <2>1, <2>2 DEF RicTypeOK
  <2>4. ASSUME NEW i \in DOMAIN log'
        PROVE  /\ now' - log'[i].at <= Window => now - log[i].at <= Window
               /\ now' - log'[i].at <= RateWindow =>
                      now - log[i].at <= RateWindow
    BY <2>1, <2>2
  <2>5. \A i \in DOMAIN log' :
            Recorded(i)' /\ now' - log'[i].at <= Window => i \in recent'
    BY <1>5, <2>1, <2>4 DEF Tick, RicTypeOK, Recorded
  <2>6. \A x \in Xapp : LetThrough(x)' \subseteq LetThrough(x)
    BY <2>1, <2>4 DEF LetThrough, Recorded
  <2>7. \A x \in Xapp : LetThrough(x)' \subseteq hoTimes'[x]
    BY <1>5, <2>6 DEF Tick, RicTypeOK
  <2> QED
    BY <1>5, <2>1, <2>3, <2>5, <2>7 DEF Tick, RicTypeOK, Recorded
<1>6. CASE UNCHANGED vars
  BY <1>6 DEF vars, RicTypeOK, LetThrough, Recorded
<1> QED
  BY <1>1, <1>2, <1>3, <1>4, <1>5, <1>6 DEF Next

\* The types and the memory hold in every reachable state: neither trimming
\* nor pruning forgets what a later check may need.
THEOREM RicTypeCorrect == Spec => []RicTypeOK
BY InitType, NextType, PTL DEF Spec

-----------------------------------------------------------------------------
(* The later of two conflicting actions has won.                           *)

\* What the taxonomy calls a conflict is found under one of the keys.
LEMMA ConflictIsRelated ==
    ASSUME NEW a, NEW b, ClassifyConflict(a, b) # "UNKNOWN"
    PROVE  Related(a, b)
BY DEF ClassifyConflict, Related, SameFamily

\* An accepted action has been judged against each one it conflicts with.
LEMMA NewestWins ==
    ASSUME RicTypeOK, NEW x \in Xapp, NEW a \in Action[x], Accepted(x, a),
           NEW i \in DOMAIN log, Recorded(i), log[i].xapp # x,
           now - log[i].at <= Window,
           ClassifyConflict(a, log[i].action) # "UNKNOWN"
    PROVE  Wins(x, a, log[i])
<1>1. i \in Pruned
  BY PrunedFacts
<1>2. Related(a, log[i].action)
  BY ConflictIsRelated
<1>3. i \in Rivals(x, a)
  BY <1>1, <1>2 DEF Rivals
<1> QED
  BY <1>3 DEF Accepted

\* A submission, whether it wins or loses, leaves the later winner.
LEMMA SubmitDominates ==
    ASSUME RicTypeOK, AcceptedDominates, NEW x \in Xapp, NEW a \in Action[x],
           SubmitAction(x, a)
    PROVE  AcceptedDominates'
<1>1. /\ strategy' = strategy
      /\ \E o \in Outcomes : Log(x, a, o) /\
            (o \in {"routed", "unroutable"} => Accepted(x, a))
  BY DEF SubmitAction, RefusedByPolicy, RefusedByConflict, Accepted, Outcomes
<1>2. PICK o \in Outcomes :
          Log(x, a, o) /\ (o \in {"routed", "unroutable"} => Accepted(x, a))
  BY <1>1
<1>3. /\ DOMAIN log' = DOMAIN log \cup {Len(log) + 1}
      /\ \A i \in DOMAIN log : log'[i] = log[i] /\ i < Len(log) + 1
      /\ log'[Len(log) + 1] =
             [xapp |-> x, action |-> a, at |-> now, outcome |-> o]
  BY <1>2, LogFacts
<1>4. DOMAIN log \subseteq Nat /\ Len(log) \in Nat
  BY EntryFacts
<1> SUFFICES ASSUME NEW i \in DOMAIN log', NEW j \in DOMAIN log',
                    i < j, Recorded(i)', Recorded(j)',
                    log'[i].xapp # log'[j].xapp,
                    log'[j].at - log'[i].at <= Window,
                    ClassifyConflict(log'[j].action, log'[i].action)
                        # "UNKNOWN"
             PROVE  Wins(log[j].xapp, log[j].action, log[i])'
  BY DEF AcceptedDominates
<1>5. i \in DOMAIN log
  BY <1>3, <1>4
<1>6. Recorded(i)
  BY <1>3, <1>5 DEF Recorded
<1>7. CASE j \in DOMAIN log
  <2>1. Recorded(j)
    BY <1>3, <1>7 DEF Recorded
  <2>2. Wins(log[j].xapp, log[j].action, log[i])
    BY <1>3, <1>5, <1>6, <1>7, <2>1 DEF AcceptedDominates
  <2> QED
    BY <1>1, <1>3, <1>5, <1>7, <2>2 DEF Wins
<1>8. CASE j = Len(log) + 1
  <2>1. o \in {"routed", "unroutable"}
    BY <1>3, <1>8 DEF Recorded
  <2>2. Accepted(x, a)
    BY <1>2, <2>1
  <2>3. /\ log[i].xapp # x /\ now - log[i].at <= Window
        /\ ClassifyConflict(a, log[i].action) # "UNKNOWN"
    BY <1>3, <1>5, <1>8
  <2>4. Wins(x, a, log[i])
    BY <1>5, <1>6, <2>2, <2>3, NewestWins
  <2>5. log'[j].xapp = x /\ log'[j].action = a /\ log'[i] = log[i]
    BY <1>3, <1>5, <1>8
  <2> QED
    BY <1>1, <2>4, <2>5 DEF Wins
<1> QED
  BY <1>3, <1>7, <1>8

\* Every step leaves the later winner.
LEMMA NextDominates ==
    RicTypeOK /\ AcceptedDominates /\ [Next]_vars => AcceptedDominates'
<1> SUFFICES ASSUME RicTypeOK, AcceptedDominates, [Next]_vars
             PROVE  AcceptedDominates'
  OBVIOUS
<1>1. ASSUME NEW x \in Xapp, NEW a \in Action[x], SubmitAction(x, a)
      PROVE  AcceptedDominates'
  BY <1>1, SubmitDominates
<1>2. CASE UNCHANGED <<strategy, log>>
  BY <1>2 DEF AcceptedDominates, Recorded, Wins
<1> QED
  BY <1>1, <1>2 DEF Next, vars, ExecuteRcAction, SetFeederLinkDelay,
                    HandleA1Policy, Tick

\* Of two conflicting actions of different xApps accepted within the window,
\* the later one has won: the indices find every conflict of the taxonomy and
\* pruning removes none that still counts.
THEOREM LaterWinnerStands == Spec => []AcceptedDominates
<1>1. Init => AcceptedDominates
  BY DEF Init, AcceptedDominates
<1> QED
  BY <1>1, RicTypeCorrect, NextDominates, PTL DEF Spec

-----------------------------------------------------------------------------
(* The cap on handovers.                                                   *)

\* A handover that is accepted finds the cap not reached.
LEMMA AcceptedWithinCap ==
    ASSUME RicTypeOK, NEW x \in Xapp, NEW a \in Action[x], Accepted(x, a),
           IsHandover(a), cap > 0
    PROVE  Cardinality(LetThrough(x)) < cap
<1>1. /\ cap \in Nat /\ cap # 0
  BY RicAssumption DEF RicTypeOK
<1>2. Cardinality(Trimmed(x)) < cap
  BY <1>1 DEF Accepted, Compliant, RateAllows
<1>3. IsFiniteSet(Trimmed(x))
  <2>1. Len(log) \in Nat /\ DOMAIN log = 1 .. Len(log)
    BY DEF RicTypeOK
  <2>2. IsFiniteSet(DOMAIN log)
    BY <2>1, FS_Interval
  <2> QED
    BY <2>2, TrimmedFacts, FS_Subset
<1>4. LetThrough(x) \subseteq Trimmed(x)
  BY TrimmedFacts
<1>5. /\ Cardinality(LetThrough(x)) <= Cardinality(Trimmed(x))
      /\ IsFiniteSet(LetThrough(x))
  BY <1>3, <1>4, FS_Subset
<1>6. Cardinality(LetThrough(x)) \in Nat /\ Cardinality(Trimmed(x)) \in Nat
  BY <1>3, <1>5, FS_CardinalityType
<1> QED
  BY <1>1, <1>2, <1>5, <1>6

\* No step lets a handover through beyond the cap.
LEMMA NextWithinCap ==
    ASSUME RicTypeOK, [Next]_vars
    PROVE  \A i \in DOMAIN log' \ DOMAIN log :
               Recorded(i)' /\ IsHandover(log'[i].action) /\ cap > 0 =>
                   Cardinality(LetThrough(log'[i].xapp)) < cap
<1> SUFFICES ASSUME NEW i \in DOMAIN log' \ DOMAIN log,
                    Recorded(i)', IsHandover(log'[i].action), cap > 0
             PROVE  Cardinality(LetThrough(log'[i].xapp)) < cap
  OBVIOUS
<1>1. log' # log
  OBVIOUS
<1>2. PICK x \in Xapp : \E a \in Action[x] : SubmitAction(x, a)
  BY <1>1 DEF Next, vars, ExecuteRcAction, SetFeederLinkDelay, HandleA1Policy,
              Tick
<1>3. PICK a \in Action[x] : SubmitAction(x, a)
  BY <1>2
<1>4. \E o \in Outcomes :
          Log(x, a, o) /\ (o \in {"routed", "unroutable"} => Accepted(x, a))
  BY <1>3 DEF SubmitAction, RefusedByPolicy, RefusedByConflict, Accepted,
              Outcomes
<1>5. PICK o \in Outcomes :
          Log(x, a, o) /\ (o \in {"routed", "unroutable"} => Accepted(x, a))
  BY <1>4
<1>6. /\ DOMAIN log' = DOMAIN log \cup {Len(log) + 1}
      /\ log'[Len(log) + 1] =
             [xapp |-> x, action |-> a, at |-> now, outcome |-> o]
  BY <1>5, LogFacts
<1>7. i = Len(log) + 1 /\ log'[i].xapp = x /\ log'[i].action = a
      /\ log'[i].outcome = o
  BY <1>6
<1>8. Accepted(x, a)
  BY <1>5, <1>7 DEF Recorded
<1>9. Cardinality(LetThrough(x)) < cap
  BY <1>7, <1>8, AcceptedWithinCap
<1> QED
  BY <1>7, <1>9

\* No handover of an xApp goes through when as many of that xApp as the policy
\* allows already have within the rate window, whenever the policy came.  The
\* code keeps m_recentHoTimes per xApp, and this is all it keeps to.
THEOREM XappCapIsKept == Spec => XappRateHonoured
BY RicTypeCorrect, NextWithinCap, PTL DEF Spec, XappRateHonoured

\* What an xApp submits is its own.
OwnActions == \A i \in DOMAIN log : log[i].action \in Action[log[i].xapp]

\* The log grows by a submission only, and by an action of the one who submits.
LEMMA NextOwnActions == RicTypeOK /\ OwnActions /\ [Next]_vars => OwnActions'
<1> SUFFICES ASSUME RicTypeOK, OwnActions, [Next]_vars PROVE OwnActions'
  OBVIOUS
<1>1. CASE log' = log
  BY <1>1 DEF OwnActions
<1>2. CASE log' # log
  <2>1. PICK x \in Xapp : \E a \in Action[x] : SubmitAction(x, a)
    BY <1>2 DEF Next, vars, ExecuteRcAction, SetFeederLinkDelay,
                HandleA1Policy, Tick
  <2>2. PICK a \in Action[x] : SubmitAction(x, a)
    BY <2>1
  <2>3. PICK o \in Outcomes : Log(x, a, o)
    BY <2>2 DEF SubmitAction, RefusedByPolicy, RefusedByConflict, Accepted,
                Outcomes
  <2>4. /\ DOMAIN log' = DOMAIN log \cup {Len(log) + 1}
        /\ \A i \in DOMAIN log : log'[i] = log[i]
        /\ log'[Len(log) + 1] =
               [xapp |-> x, action |-> a, at |-> now, outcome |-> o]
    BY <2>3, LogFacts
  <2> QED
    BY <2>4 DEF OwnActions
<1> QED
  BY <1>1, <1>2

\* One xApp alone triggers handovers.
OneTriggers ==
    \E x \in Xapp : \A y \in Xapp \ {x} : \A a \in Action[y] : ~IsHandover(a)

\* With one xApp that triggers handovers, all of them are its own.
LEMMA NextWithinScopeCap ==
    ASSUME OneTriggers, RicTypeOK, OwnActions, [Next]_vars
    PROVE  \A i \in DOMAIN log' \ DOMAIN log :
               Recorded(i)' /\ IsHandover(log'[i].action) /\ cap > 0 =>
                   Cardinality(UNION {LetThrough(x) : x \in Xapp}) < cap
<1> SUFFICES ASSUME NEW i \in DOMAIN log' \ DOMAIN log,
                    Recorded(i)', IsHandover(log'[i].action), cap > 0
             PROVE  Cardinality(UNION {LetThrough(x) : x \in Xapp}) < cap
  OBVIOUS
<1>0. PICK x \in Xapp : \A y \in Xapp \ {x} : \A a \in Action[y] : ~IsHandover(a)
  BY DEF OneTriggers
<1>1. OwnActions' /\ RicTypeOK'
  BY NextOwnActions, NextType
<1>2. log'[i].xapp \in Xapp
  <2>1. log' \in Seq(Entry)
    BY <1>1 DEF RicTypeOK
  <2>2. log'[i] \in Entry
    BY <2>1
  <2> QED
    BY <2>2 DEF Entry
<1>3. log'[i].xapp = x
  BY <1>0, <1>1, <1>2 DEF OwnActions
<1>4. \A y \in Xapp \ {x} : LetThrough(y) = {}
  BY <1>0 DEF LetThrough, OwnActions
<1>5. UNION {LetThrough(y) : y \in Xapp} = LetThrough(x)
  BY <1>4
<1> QED
  BY <1>3, <1>5, NextWithinCap

\* What the documented rate of the scope needs: where one xApp alone triggers
\* handovers, the cap holds for the scope, that is for all xApps together.
THEOREM OneXappKeepsScopeCap == OneTriggers /\ Spec => ScopeRateHonoured
<1>1. OneTriggers => OneTriggers'
  BY DEF OneTriggers, IsHandover
<1>2. Init => OwnActions
  BY DEF Init, OwnActions
<1>3. RicTypeOK /\ OwnActions /\ [Next]_vars => OwnActions'
  BY NextOwnActions
<1>4. OneTriggers /\ RicTypeOK /\ OwnActions /\ [Next]_vars =>
          \A i \in DOMAIN log' \ DOMAIN log :
              Recorded(i)' /\ IsHandover(log'[i].action) /\ cap > 0 =>
                  Cardinality(UNION {LetThrough(x) : x \in Xapp}) < cap
  BY NextWithinScopeCap
<1>5. OneTriggers => []OneTriggers
  BY <1>1, PTL
<1>6. Spec => []OwnActions
  BY <1>2, <1>3, RicTypeCorrect, PTL DEF Spec
<1>7. Spec /\ []OneTriggers => ScopeRateHonoured
  BY <1>4, <1>6, RicTypeCorrect, PTL DEF Spec, ScopeRateHonoured
<1> QED
  BY <1>5, <1>7, PTL

-----------------------------------------------------------------------------
(* The order of execution.  The path of a node is what it has executed and *)
(* then what is in the air to it; the actions owed to it are the accepted  *)
(* ones that name it.                                                      *)

Ordered(s) == \A i, j \in DOMAIN s : i < j =>
    \/ s[i].id < s[j].id
    \/ s[i].id > s[j].id /\ s[i].level > s[j].level

Ids(s) == {t.id : t \in Range(s)}

Owed(n) == {i \in DOMAIN log : Recorded(i) /\ n \in Targets(log[i].action)}

\* The last word, in these terms.
LEMMA LastWordIs ==
    LastWord <=> \A n \in Node :
                     /\ Ordered(executed[n] \o flight[n])
                     /\ Ids(executed[n] \o flight[n]) = Owed(n)
BY DEF LastWord, Ordered, Ids, Owed

\* The elements of a sequence.
LEMMA RangeIs == ASSUME NEW s PROVE Range(s) = {s[i] : i \in DOMAIN s}
BY DEF Range

\* The identifiers of a sequence are those of its elements.
LEMMA IdsIs ==
    ASSUME NEW s
    PROVE  Ids(s) = {s[i].id : i \in DOMAIN s}
BY RangeIs DEF Ids

\* What is sent later goes to the end of the path.
LEMMA ConcatAppend ==
    ASSUME NEW e \in Seq(Sent), NEW f \in Seq(Sent), NEW s \in Sent
    PROVE  e \o Append(f, s) = Append(e \o f, s)
OBVIOUS

\* A newer action at the end leaves a path in order.
LEMMA AppendOrdered ==
    ASSUME NEW s \in Seq(Sent), NEW t \in Sent, Ordered(s),
           \A k \in Ids(s) : k < t.id
    PROVE  /\ Ordered(Append(s, t))
           /\ Ids(Append(s, t)) = Ids(s) \cup {t.id}
<1>1. /\ DOMAIN Append(s, t) = DOMAIN s \cup {Len(s) + 1}
      /\ Len(s) + 1 \notin DOMAIN s
      /\ \A i \in DOMAIN s : Append(s, t)[i] = s[i] /\ i < Len(s) + 1
      /\ Append(s, t)[Len(s) + 1] = t
      /\ DOMAIN s \subseteq Nat
  OBVIOUS
<1> DEFINE q == Append(s, t)
<1> HIDE DEF q
<1>2. /\ DOMAIN q = DOMAIN s \cup {Len(s) + 1}
      /\ \A i \in DOMAIN s : q[i] = s[i] /\ i < Len(s) + 1
      /\ q[Len(s) + 1] = t
      /\ DOMAIN s \subseteq Nat /\ Len(s) \in Nat
  BY <1>1 DEF q
<1>3. \A i \in DOMAIN s : s[i].id < t.id
  BY IdsIs
<1>4. Ordered(q)
  <2> SUFFICES ASSUME NEW i \in DOMAIN q, NEW j \in DOMAIN q, i < j
               PROVE  \/ q[i].id < q[j].id
                      \/ q[i].id > q[j].id /\ q[i].level > q[j].level
    BY DEF Ordered
  <2>1. i \in DOMAIN s
    BY <1>2
  <2> QED
    BY <1>2, <1>3, <2>1 DEF Ordered
<1>5. Ids(q) = {q[i].id : i \in DOMAIN q} /\ Ids(s) = {s[i].id : i \in DOMAIN s}
  BY IdsIs
<1>6. Ids(q) = Ids(s) \cup {t.id}
  BY <1>2, <1>5
<1> QED
  BY <1>4, <1>6 DEF q

\* The place in the old path of what stands at a place of the new one, when
\* the i-th action in the air comes down behind m executed ones.
Place(m, i, p) == IF p = m + 1 THEN m + i
                  ELSE IF p > m + 1 /\ p <= m + i THEN p - 1
                  ELSE p

\* The new path is the old one with one action moved forward.
LEMMA MoveFacts ==
    ASSUME NEW e \in Seq(Sent), NEW f \in Seq(Sent), NEW i \in DOMAIN f
    PROVE  LET p == e \o f
               q == Append(e, f[i]) \o RemoveAt(f, i)
           IN  /\ DOMAIN p = 1 .. Len(e) + Len(f) /\ DOMAIN q = DOMAIN p
               /\ \A k \in DOMAIN q : /\ Place(Len(e), i, k) \in DOMAIN p
                                      /\ q[k] = p[Place(Len(e), i, k)]
               /\ \A k \in DOMAIN p : \E l \in DOMAIN q :
                      Place(Len(e), i, l) = k
<1> DEFINE p == e \o f
           q == Append(e, f[i]) \o RemoveAt(f, i)
           m == Len(e)
<1>1. m \in Nat /\ Len(f) \in Nat /\ i \in 1 .. Len(f) /\ f[i] \in Sent
  OBVIOUS
<1>2. /\ Append(e, f[i]) \in Seq(Sent) /\ Len(Append(e, f[i])) = m + 1
      /\ \A k \in 1 .. m : Append(e, f[i])[k] = e[k]
      /\ Append(e, f[i])[m + 1] = f[i]
  BY <1>1
<1>3. /\ RemoveAt(f, i) \in Seq(Sent) /\ Len(RemoveAt(f, i)) = Len(f) - 1
      /\ \A k \in 1 .. Len(f) - 1 :
            RemoveAt(f, i)[k] = IF k < i THEN f[k] ELSE f[k + 1]
  BY RemoveAtFacts
<1>4. /\ Len(p) = m + Len(f) /\ DOMAIN p = 1 .. m + Len(f)
      /\ \A k \in 1 .. m + Len(f) : p[k] = IF k <= m THEN e[k] ELSE f[k - m]
  BY <1>1
<1> DEFINE e2 == Append(e, f[i])
           f2 == RemoveAt(f, i)
<1> HIDE DEF e2, f2
<1>5. /\ e2 \in Seq(Sent) /\ Len(e2) = m + 1 /\ f2 \in Seq(Sent)
      /\ Len(f2) = Len(f) - 1
  BY <1>2, <1>3 DEF e2, f2
<1>6. /\ DOMAIN (e2 \o f2) = 1 .. m + Len(f)
      /\ \A k \in 1 .. m + Len(f) :
            (e2 \o f2)[k] = IF k <= m + 1 THEN e2[k] ELSE f2[k - (m + 1)]
  <2>1. /\ e2 \o f2 \in Seq(Sent) /\ Len(e2 \o f2) = Len(e2) + Len(f2)
        /\ \A k \in 1 .. Len(e2) + Len(f2) : (e2 \o f2)[k] =
              IF k <= Len(e2) THEN e2[k] ELSE f2[k - Len(e2)]
    BY <1>5, ConcatProperties
  <2>2. Len(e2) + Len(f2) = m + Len(f)
    BY <1>1, <1>5
  <2>3. DOMAIN (e2 \o f2) = 1 .. Len(e2 \o f2)
    BY <2>1
  <2> QED
    BY <1>5, <2>1, <2>2, <2>3
<1>7. /\ DOMAIN q = 1 .. m + Len(f)
      /\ \A k \in 1 .. m + Len(f) : q[k] =
            IF k <= m THEN e[k]
            ELSE IF k = m + 1 THEN f[i]
            ELSE IF k - (m + 1) < i THEN f[k - (m + 1)] ELSE f[k - m]
  <2>1. q = e2 \o f2
    BY DEF e2, f2
  <2>2. ASSUME NEW k \in 1 .. m + Len(f)
        PROVE  (e2 \o f2)[k] =
                  IF k <= m THEN e[k]
                  ELSE IF k = m + 1 THEN f[i]
                  ELSE IF k - (m + 1) < i THEN f[k - (m + 1)] ELSE f[k - m]
    <3>1. CASE k <= m + 1
      <4>1. (e2 \o f2)[k] = e2[k]
        BY <1>6, <3>1
      <4> QED
        BY <1>1, <1>2, <3>1, <4>1 DEF e2
    <3>2. CASE k > m + 1
      <4>1. (e2 \o f2)[k] = f2[k - (m + 1)]
        BY <1>1, <1>6, <3>2
      <4>2. /\ k - (m + 1) \in 1 .. Len(f) - 1
            /\ (k - (m + 1)) + 1 = k - m
            /\ ~(k <= m) /\ k # m + 1
        BY <1>1, <3>2
      <4> QED
        BY <1>3, <4>1, <4>2 DEF f2
    <3>3. k <= m + 1 \/ k > m + 1
      BY <1>1
    <3> HIDE DEF m
    <3> QED
      BY <3>1, <3>2, <3>3
  <2> QED
    BY <1>6, <2>1, <2>2
<1> HIDE DEF p, q, m
<1>8. ASSUME NEW k \in 1 .. m + Len(f)
      PROVE  /\ Place(m, i, k) \in 1 .. m + Len(f)
             /\ q[k] = p[Place(m, i, k)]
  <2>1. CASE k <= m
    <3>1. Place(m, i, k) = k
      BY <1>1, <2>1 DEF Place, m
    <3> QED
      BY <1>4, <1>7, <2>1, <3>1
  <2>2. CASE k = m + 1
    <3>1. /\ Place(m, i, k) = m + i /\ m + i \in 1 .. m + Len(f)
          /\ ~(m + i <= m) /\ (m + i) - m = i
      BY <1>1, <2>2 DEF Place, m
    <3>2. p[m + i] = f[i]
      BY <1>4, <3>1
    <3>3. ~(k <= m)
      BY <1>1, <2>2 DEF m
    <3> QED
      BY <1>7, <2>2, <3>1, <3>2, <3>3
  <2>3. CASE k > m + 1 /\ k <= m + i
    <3>1. /\ Place(m, i, k) = k - 1 /\ k - 1 \in 1 .. m + Len(f)
          /\ ~(k - 1 <= m) /\ (k - 1) - m = k - (m + 1)
          /\ ~(k <= m) /\ k # m + 1 /\ k - (m + 1) < i
      BY <1>1, <2>3 DEF Place, m
    <3> QED
      BY <1>4, <1>7, <3>1
  <2>4. CASE k > m + i
    <3>1. /\ Place(m, i, k) = k
          /\ ~(k <= m) /\ k # m + 1 /\ ~(k - (m + 1) < i)
      BY <1>1, <2>4 DEF Place, m
    <3> QED
      BY <1>4, <1>7, <3>1
  <2> QED
    BY <1>1, <2>1, <2>2, <2>3, <2>4 DEF m
<1>9. ASSUME NEW k \in 1 .. m + Len(f)
      PROVE  \E l \in 1 .. m + Len(f) : Place(m, i, l) = k
  <2>1. CASE k <= m \/ k > m + i
    <3>1. Place(m, i, k) = k
      BY <1>1, <2>1 DEF Place, m
    <3> QED
      BY <3>1
  <2>2. CASE k = m + i
    <3>1. m + 1 \in 1 .. m + Len(f) /\ Place(m, i, m + 1) = k
      BY <1>1, <2>2 DEF Place, m
    <3> QED
      BY <3>1
  <2>3. CASE k > m /\ k < m + i
    <3>1. k + 1 \in 1 .. m + Len(f) /\ Place(m, i, k + 1) = k
      BY <1>1, <2>3 DEF Place, m
    <3> QED
      BY <3>1
  <2> QED
    BY <1>1, <2>1, <2>2, <2>3 DEF m
<1>10. /\ DOMAIN p = 1 .. m + Len(f) /\ DOMAIN q = DOMAIN p
       /\ \A k \in DOMAIN q : Place(m, i, k) \in DOMAIN p
                              /\ q[k] = p[Place(m, i, k)]
       /\ \A k \in DOMAIN p : \E l \in DOMAIN q : Place(m, i, l) = k
  BY <1>4, <1>7, <1>8, <1>9
<1> QED
  BY <1>10 DEF p, q, m

\* An action that overtakes only ones sent at a lower level leaves the path in
\* order, and the actions on it the same.
LEMMA MoveOrdered ==
    ASSUME NEW e \in Seq(Sent), NEW f \in Seq(Sent), NEW i \in DOMAIN f,
           Ordered(e \o f), \A j \in 1 .. i - 1 : f[j].level < f[i].level
    PROVE  LET q == Append(e, f[i]) \o RemoveAt(f, i)
           IN  Ordered(q) /\ Ids(q) = Ids(e \o f)
<1> DEFINE p == e \o f
           q == Append(e, f[i]) \o RemoveAt(f, i)
           m == Len(e)
<1>1. /\ DOMAIN p = 1 .. m + Len(f) /\ DOMAIN q = DOMAIN p
      /\ \A k \in DOMAIN q : Place(m, i, k) \in DOMAIN p
                             /\ q[k] = p[Place(m, i, k)]
      /\ \A k \in DOMAIN p : \E l \in DOMAIN q : Place(m, i, l) = k
  BY MoveFacts
<1>2. m \in Nat /\ Len(f) \in Nat /\ i \in 1 .. Len(f)
  OBVIOUS
<1>3. \A j \in 1 .. i - 1 : p[m + j] = f[j]
  BY <1>2
<1>4. p[m + i] = f[i]
  BY <1>2
<1>5. \A k \in DOMAIN p : p[k].id \in Nat /\ p[k].level \in Nat
  <2>1. p \in Seq(Sent)
    BY ConcatProperties
  <2>2. \A t \in Sent : t.id \in Nat /\ t.level \in Nat
    BY RicAssumption DEF Sent
  <2> QED
    BY <2>1, <2>2
<1>6. Ordered(p)
  OBVIOUS
<1> HIDE DEF p, q, m
<1>7. Ordered(q)
  <2> SUFFICES ASSUME NEW k \in DOMAIN q, NEW l \in DOMAIN q, k < l
               PROVE  \/ q[k].id < q[l].id
                      \/ q[k].id > q[l].id /\ q[k].level > q[l].level
    BY DEF Ordered
  <2> DEFINE u == Place(m, i, k)
             v == Place(m, i, l)
  <2>1. /\ u \in DOMAIN p /\ v \in DOMAIN p /\ q[k] = p[u] /\ q[l] = p[v]
    BY <1>1
  <2>2. \/ u < v
        \/ u = m + i /\ v \in m + 1 .. m + i - 1
    <3>1. k \in 1 .. m + Len(f) /\ l \in 1 .. m + Len(f)
      BY <1>1
    <3>2. CASE k = m + 1
      BY <1>2, <3>1, <3>2 DEF Place
    <3>3. CASE k # m + 1
      BY <1>2, <3>1, <3>3 DEF Place
    <3> QED
      BY <3>2, <3>3
  <2> HIDE DEF u, v
  <2>3. CASE u < v
    BY <1>6, <2>1, <2>3 DEF Ordered
  <2>4. CASE u = m + i /\ v \in m + 1 .. m + i - 1
    <3>1. v - m \in 1 .. i - 1 /\ m + (v - m) = v /\ v < u
      BY <1>2, <2>4
    <3>2. p[v].level < p[u].level
      BY <1>3, <1>4, <2>4, <3>1
    <3>3. \/ p[v].id < p[u].id
          \/ p[v].id > p[u].id /\ p[v].level > p[u].level
      BY <1>6, <2>1, <3>1 DEF Ordered
    <3>4. /\ p[u].id \in Nat /\ p[v].id \in Nat
          /\ p[u].level \in Nat /\ p[v].level \in Nat
      BY <1>5, <2>1
    <3> QED
      BY <2>1, <3>2, <3>3, <3>4
  <2> QED
    BY <2>2, <2>3, <2>4
<1>8. Ids(q) = Ids(p)
  <2>1. Ids(q) = {q[k].id : k \in DOMAIN q} /\ Ids(p) = {p[k].id : k \in DOMAIN p}
    BY IdsIs
  <2>2. ASSUME NEW k \in DOMAIN q
        PROVE  \E l \in DOMAIN p : q[k].id = p[l].id
    BY <1>1
  <2>3. ASSUME NEW k \in DOMAIN p
        PROVE  \E l \in DOMAIN q : p[k].id = q[l].id
    <3>1. PICK l \in DOMAIN q : Place(m, i, l) = k
      BY <1>1
    <3> QED
      BY <1>1, <3>1
  <2> QED
    BY <2>1, <2>2, <2>3
<1> QED
  BY <1>7, <1>8 DEF p, q

\* A submission adds to the path of a node what it adds to what is owed to it.
LEMMA SubmitLastWord ==
    ASSUME RicTypeOK, LastWord, NEW x \in Xapp, NEW a \in Action[x],
           SubmitAction(x, a), NEW n \in Node
    PROVE  /\ Ordered(executed'[n] \o flight'[n])
           /\ Ids(executed'[n] \o flight'[n]) =
                  {i \in DOMAIN log' : /\ log'[i].outcome
                                              \in {"routed", "unroutable"}
                                       /\ n \in Targets(log'[i].action)}
<1> DEFINE path == executed[n] \o flight[n]
           owed == {i \in DOMAIN log' : /\ log'[i].outcome
                                               \in {"routed", "unroutable"}
                                        /\ n \in Targets(log'[i].action)}
<1>1. Ordered(path) /\ Ids(path) = Owed(n) /\ executed' = executed
  BY LastWordIs DEF SubmitAction
<1>2. executed[n] \in Seq(Sent) /\ flight[n] \in Seq(Sent)
  BY DEF RicTypeOK
<1>3. path \in Seq(Sent)
  BY <1>2, ConcatProperties
<1>4. ASSUME NEW o \in Outcomes, Log(x, a, o)
      PROVE  owed = IF o \in {"routed", "unroutable"} /\ n \in Targets(a)
                    THEN Owed(n) \cup {Len(log) + 1} ELSE Owed(n)
  <2>1. /\ DOMAIN log' = DOMAIN log \cup {Len(log) + 1}
        /\ Len(log) + 1 \notin DOMAIN log
        /\ \A i \in DOMAIN log : log'[i] = log[i]
        /\ log'[Len(log) + 1] =
               [xapp |-> x, action |-> a, at |-> now, outcome |-> o]
    BY <1>4, LogFacts
  <2>2. /\ log'[Len(log) + 1].action = a /\ log'[Len(log) + 1].outcome = o
    BY <2>1
  <2>3. \A i \in DOMAIN log : i \in owed <=> i \in Owed(n)
    BY <2>1 DEF Owed, Recorded
  <2>4. Len(log) + 1 \in owed <=>
            o \in {"routed", "unroutable"} /\ n \in Targets(a)
    BY <2>1, <2>2
  <2>5. owed \subseteq DOMAIN log' /\ Owed(n) \subseteq DOMAIN log
    BY DEF Owed
  <2> HIDE DEF owed
  <2>6. CASE o \in {"routed", "unroutable"} /\ n \in Targets(a)
    <3>1. owed = Owed(n) \cup {Len(log) + 1}
      BY <2>1, <2>3, <2>4, <2>5, <2>6
    <3> QED
      BY <2>6, <3>1
  <2>7. CASE ~(o \in {"routed", "unroutable"} /\ n \in Targets(a))
    <3>1. owed = Owed(n)
      BY <2>1, <2>3, <2>4, <2>5, <2>7
    <3> QED
      BY <2>7, <3>1
  <2> QED
    BY <2>6, <2>7
<1>5. CASE RefusedByPolicy(x, a) \/ RefusedByConflict(x, a)
  <2>1. PICK o \in {"policy", "conflict"} : Log(x, a, o)
    BY <1>5 DEF RefusedByPolicy, RefusedByConflict
  <2>2. owed = Owed(n)
    <3>1. o \in Outcomes /\ o \notin {"routed", "unroutable"}
      BY DEF Outcomes
    <3> QED
      BY <1>4, <2>1, <3>1
  <2>3. flight' = flight
    BY <1>5 DEF RefusedByPolicy, RefusedByConflict
  <2> QED
    BY <1>1, <2>2, <2>3
<1>6. CASE Accepted(x, a)
  <2> DEFINE t == [id |-> Len(log) + 1, level |-> level[n]]
  <2>1. PICK o \in {"unroutable", "routed"} : Log(x, a, o)
    BY <1>6 DEF Accepted
  <2>2. owed = IF n \in Targets(a) THEN Owed(n) \cup {Len(log) + 1} ELSE Owed(n)
    <3>1. o \in Outcomes /\ o \in {"routed", "unroutable"}
      BY DEF Outcomes
    <3> QED
      BY <1>4, <2>1, <3>1
  <2>3. /\ t \in Sent
        /\ flight'[n] = IF n \in Targets(a) THEN Append(flight[n], t)
                                            ELSE flight[n]
    BY <1>6, FlightFacts
  <2>4. CASE n \notin Targets(a)
    BY <1>1, <2>2, <2>3, <2>4
  <2>5. CASE n \in Targets(a)
    <3>1. t.id = Len(log) + 1
      OBVIOUS
    <3>2. \A k \in Ids(path) : k < t.id
      <4>1. Owed(n) \subseteq DOMAIN log
        BY DEF Owed
      <4>2. \A k \in DOMAIN log : k < Len(log) + 1
        BY DEF RicTypeOK
      <4> QED
        BY <1>1, <3>1, <4>1, <4>2
    <3> HIDE DEF t
    <3>3. executed'[n] \o flight'[n] = Append(path, t)
      <4>1. executed[n] \o Append(flight[n], t) = Append(path, t)
        BY <1>2, <2>3, ConcatAppend
      <4> QED
        BY <1>1, <2>3, <2>5, <4>1
    <3>4. Ordered(Append(path, t)) /\ Ids(Append(path, t)) = Ids(path) \cup {t.id}
      BY <1>1, <1>3, <2>3, <3>2, AppendOrdered
    <3> QED
      BY <1>1, <2>2, <2>5, <3>1, <3>3, <3>4
  <2> QED
    BY <2>4, <2>5
<1> QED
  BY <1>5, <1>6 DEF SubmitAction

\* Every step keeps the order of execution.
LEMMA NextLastWord == RicTypeOK /\ LastWord /\ [Next]_vars => LastWord'
<1> SUFFICES ASSUME RicTypeOK, LastWord, [Next]_vars
             PROVE  LastWord'
  OBVIOUS
<1>1. LastWord' <=> \A n \in Node :
          /\ Ordered(executed'[n] \o flight'[n])
          /\ Ids(executed'[n] \o flight'[n]) =
                 {i \in DOMAIN log' : /\ log'[i].outcome
                                             \in {"routed", "unroutable"}
                                      /\ n \in Targets(log'[i].action)}
  BY DEF LastWord, Ordered, Ids, Recorded
<1>2. \A n \in Node :
          /\ Ordered(executed[n] \o flight[n])
          /\ Ids(executed[n] \o flight[n]) =
                 {i \in DOMAIN log : /\ log[i].outcome
                                            \in {"routed", "unroutable"}
                                     /\ n \in Targets(log[i].action)}
  BY DEF LastWord, Ordered, Ids, Recorded
<1>3. ASSUME NEW x \in Xapp, NEW a \in Action[x], SubmitAction(x, a)
      PROVE  LastWord'
  BY <1>1, <1>3, SubmitLastWord
<1>4. ASSUME NEW n \in Node, NEW i \in DOMAIN flight[n], ExecuteRcAction(n, i)
      PROVE  LastWord'
  <2>1. /\ flight[n] \in Seq(Sent) /\ executed[n] \in Seq(Sent)
        /\ flight'[n] = RemoveAt(flight[n], i)
        /\ executed'[n] = Append(executed[n], flight[n][i])
        /\ \A m \in Node \ {n} :
              flight'[m] = flight[m] /\ executed'[m] = executed[m]
    BY <1>4, ExecuteFacts
  <2>2. /\ \A j \in 1 .. i - 1 : flight[n][j].level < flight[n][i].level
        /\ log' = log
    BY <1>4 DEF ExecuteRcAction
  <2>3. Ordered(executed[n] \o flight[n])
    BY <1>2
  <2>4. /\ Ordered(executed'[n] \o flight'[n])
        /\ Ids(executed'[n] \o flight'[n]) = Ids(executed[n] \o flight[n])
    BY <2>1, <2>2, <2>3, MoveOrdered
  <2> QED
    BY <1>1, <1>2, <2>1, <2>2, <2>4
<1>5. CASE UNCHANGED <<flight, executed, log>>
  BY <1>1, <1>2, <1>5
<1> QED
  BY <1>3, <1>4, <1>5 DEF Next, vars, SetFeederLinkDelay, HandleA1Policy, Tick

\* An accepted action executes once on every node it names and nowhere else,
\* in the order of acceptance unless the feeder delay was shortened in between.
THEOREM WinnerHasTheLastWord == Spec => []LastWord
<1>1. Init => LastWord
  <2> SUFFICES ASSUME Init, NEW n \in Node
               PROVE  Ordered(<<>> \o <<>>) /\ Ids(<<>> \o <<>>) = Owed(n)
    BY LastWordIs DEF Init
  <2>1. << >> \o << >> = << >> /\ log = << >>
    BY DEF Init
  <2>2. Ids(<<>>) = {}
    BY IdsIs
  <2>3. Ordered(<<>>)
    BY DEF Ordered
  <2>4. Owed(n) = {}
    BY <2>1 DEF Owed
  <2> QED
    BY <2>1, <2>2, <2>3, <2>4
<1> QED
  BY <1>1, RicTypeCorrect, NextLastWord, PTL DEF Spec

=============================================================================
