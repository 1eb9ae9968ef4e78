-------------------------- MODULE PushDeliveryProofs --------------------------
(***************************************************************************)
(* Proofs about what PushWriter delivers, for any number of requests,      *)
(* idents, backends and queues: every backend gets its share, no sample is *)
(* sent twice, and, where the code can keep it, the order.                 *)
(*                                                                         *)
(* A sample goes from a request to a queue, from there in a batch to a     *)
(* consumer, and from the consumer to each backend by a Write of its own.  *)
(***************************************************************************)
EXTENDS PushWriterProofs, SequenceTheorems

USE DEF Made, NoQueue, QueueIds

\* Where samples are, on their way to backend b.
Held == { s \in Sample : \E p \in Pushers : pusher[p] # Idle /\ pusher[p].sample = s }
Queued == { s \in Sample : Waiting(s) }
Batched(b) == { s \in Sample : Taken(s, b) }
InWrite(b) == { s \in Sample : Writing(s, b) }
Arrived(b) == { s \in Sample : Posted(s, b) }

\* A consumer that is not at its loop over the backends has nothing for them.
NothingTodo == \A q \in Made : consumer[q].step # "dispatch" => consumer[q].todo = {}

-------------------------------------------------------------------------------
(***************************************************************************)
(* The steps, element by element.                                          *)
(***************************************************************************)

\* PopBack takes the oldest samples of a list into the batch of its consumer.
LEMMA PopEffect ==
  ASSUME TypeOK, NEW q \in Made, PopBack(q)
  PROVE  \E n \in 0..Len(list[q]) :
           /\ list[q] \in Seq(Sample) /\ Len(list[q]) \in Nat
           /\ Made' = Made
           /\ \A r \in Made \ {q} : list'[r] = list[r] /\ consumer'[r] = consumer[r]
           /\ list'[q] \in Seq(Sample) /\ Len(list'[q]) = Len(list[q]) - n
           /\ DOMAIN list'[q] = 1..Len(list[q]) - n
           /\ \A i \in 1..Len(list[q]) - n : list'[q][i] = list[q][i + n]
           /\ \/ consumer'[q] = Looping("check") /\ (n = 0 \/ Backends = {})
              \/ /\ n > 0 /\ consumer'[q].step = "dispatch" /\ consumer'[q].todo = Backends
                 /\ consumer'[q].batch \in Seq(Sample) /\ DOMAIN consumer'[q].batch = 1..n
                 /\ \A i \in 1..n : consumer'[q].batch[i] = list[q][i]
<1> DEFINE n == IF Len(list[q]) < QueuePopSize THEN Len(list[q]) ELSE QueuePopSize
           rest == SubSeq(list[q], n + 1, Len(list[q]))
           front == SubSeq(list[q], 1, n)
<1>1. list \in Seq(Seq(Sample)) /\ consumer \in Seq(Consumer) /\ Len(consumer) = Len(list)
  BY DEF TypeOK
<1>2. list[q] \in Seq(Sample) /\ q \in DOMAIN consumer
  BY <1>1
<1>3. Len(list[q]) \in Nat
  BY <1>2
<1>4. n \in 0..Len(list[q])
  BY <1>3, SizesAssumption
<1>5. list' = [list EXCEPT ![q] = rest]
  BY <1>1 DEF PopBack
<1>6. consumer' = [consumer EXCEPT ![q] =
         IF n = 0 \/ Backends = {} THEN Looping("check")
         ELSE [step |-> "dispatch", batch |-> front, todo |-> Backends]]
  BY <1>1 DEF PopBack
<1> HIDE DEF n
<1>7. rest \in Seq(Sample) /\ Len(rest) = Len(list[q]) - n
      /\ \A i \in 1..Len(list[q]) - n : rest[i] = list[q][i + n]
  <2>1. n + 1 \in 1..Len(list[q]) + 1 /\ Len(list[q]) \in (n + 1) - 1 .. Len(list[q])
    BY <1>3, <1>4
  <2>2. \A i \in 1..Len(list[q]) - n : rest[i] = list[q][n + 1 + i - 1] /\ n + 1 + i - 1 = i + n
    BY <1>2, <1>3, <1>4, <2>1, SubSeqProperties
  <2>3. rest \in Seq(Sample)
    BY <1>2, <1>3, <1>4, <2>1, SubSeqProperties
  <2>4. Len(rest) = Len(list[q]) - n
    BY <1>2, <1>3, <1>4, <2>1, SubSeqProperties
  <2> QED
    BY <2>2, <2>3, <2>4
<1>8. front \in Seq(Sample) /\ Len(front) = n /\ \A i \in 1..n : front[i] = list[q][i]
  <2>1. 1 \in 1..Len(list[q]) + 1 /\ n \in 0..Len(list[q])
    BY <1>3, <1>4
  <2> QED
    BY <1>2, <1>3, <1>4, <2>1, SubSeqProperties
<1> HIDE DEF rest, front
<1>9. DOMAIN rest = 1..Len(list[q]) - n /\ DOMAIN front = 1..n
  BY <1>7, <1>8
<1>10. list'[q] = rest /\ Made' = Made
       /\ \A r \in Made \ {q} : list'[r] = list[r] /\ consumer'[r] = consumer[r]
  BY <1>1, <1>2, <1>5, <1>6
<1>11. consumer'[q] = IF n = 0 \/ Backends = {} THEN Looping("check")
                      ELSE [step |-> "dispatch", batch |-> front, todo |-> Backends]
  BY <1>2, <1>6
<1>12. CASE n = 0 \/ Backends = {}
  BY <1>2, <1>3, <1>4, <1>7, <1>9, <1>10, <1>11, <1>12
<1>13. CASE ~(n = 0 \/ Backends = {})
  <2>1. n > 0 /\ consumer'[q].step = "dispatch" /\ consumer'[q].todo = Backends /\ consumer'[q].batch = front
    BY <1>4, <1>11, <1>13
  <2> QED
    BY <1>2, <1>3, <1>4, <1>7, <1>8, <1>9, <1>10, <2>1
<1> QED
  BY <1>12, <1>13

\* A consumer that looks at closeCh keeps what it has.
LEMMA CheckEffect ==
  ASSUME TypeOK, NEW q \in Made, CheckClosed(q)
  PROVE  /\ consumer[q].step = "check" /\ consumer'[q].step \in {"stopped", "pop"}
         /\ \A r \in Made : consumer'[r].todo = consumer[r].todo /\ consumer'[r].batch = consumer[r].batch
         /\ \A r \in Made \ {q} : consumer'[r] = consumer[r]
         /\ UNCHANGED <<registered, list, closed, pusher, writing, posted, dropped, samples>>
<1>1. consumer \in Seq(Consumer) /\ Len(consumer) = Len(list)
  BY DEF TypeOK
<1>2. q \in DOMAIN consumer /\ consumer[q] \in Consumer
  BY <1>1 DEF TypeOK
<1>3. consumer' = [consumer EXCEPT ![q] = [consumer[q] EXCEPT !.step = IF q \in closed THEN "stopped" ELSE "pop"]]
  BY DEF CheckClosed
<1>4. consumer'[q] = [consumer[q] EXCEPT !.step = IF q \in closed THEN "stopped" ELSE "pop"]
  BY <1>2, <1>3
<1>5. consumer'[q].step \in {"stopped", "pop"} /\ consumer'[q].todo = consumer[q].todo
      /\ consumer'[q].batch = consumer[q].batch
  BY <1>2, <1>4 DEF Consumer
<1>6. \A r \in Made \ {q} : consumer'[r] = consumer[r]
  BY <1>1, <1>3 DEF TypeOK
<1> QED
  BY <1>5, <1>6 DEF CheckClosed, queueVars, backendVars

\* Dispatch hands the batch to one Write, and the backend is done.
LEMMA DispatchEffect ==
  ASSUME TypeOK, NEW q \in Made, NEW b \in Backends, Dispatch(q, b)
  PROVE  /\ consumer[q].step = "dispatch" /\ b \in consumer[q].todo
         /\ consumer[q].batch \in Seq(Sample)
         /\ \A r \in Made \ {q} : consumer'[r] = consumer[r]
         /\ consumer'[q].todo = consumer[q].todo \ {b}
         /\ \/ consumer'[q] = Looping("check")
            \/ consumer'[q].step = "dispatch" /\ consumer'[q].batch = consumer[q].batch
         /\ writing' = writing \cup {[backend |-> b, batch |-> consumer[q].batch]}
         /\ UNCHANGED <<list, pusher, posted, dropped, samples>>
<1>1. consumer \in Seq(Consumer) /\ Len(consumer) = Len(list)
  BY DEF TypeOK
<1>2. q \in DOMAIN consumer /\ consumer[q] \in Consumer
  BY <1>1 DEF TypeOK
<1>3. consumer' = [consumer EXCEPT ![q] =
         IF consumer[q].todo = {b} THEN Looping("check")
         ELSE [step |-> "dispatch", batch |-> consumer[q].batch, todo |-> consumer[q].todo \ {b}]]
  BY DEF Dispatch
<1>4. consumer'[q] = IF consumer[q].todo = {b} THEN Looping("check")
         ELSE [step |-> "dispatch", batch |-> consumer[q].batch, todo |-> consumer[q].todo \ {b}]
  BY <1>2, <1>3
<1>5. \A r \in Made \ {q} : consumer'[r] = consumer[r]
  BY <1>1, <1>3 DEF TypeOK
<1>6. consumer'[q].todo = consumer[q].todo \ {b}
  BY <1>4 DEF Looping
<1>7. consumer[q].batch \in Seq(Sample)
  BY <1>2 DEF Consumer
<1> QED
  BY <1>4, <1>5, <1>6, <1>7 DEF Dispatch, queueVars

\* Create adds an empty list with a consumer that has nothing.
LEMMA CreateEffect ==
  ASSUME TypeOK, NEW p \in Pushers, Create(p)
  PROVE  \E c : /\ Made' = Made \cup {c} /\ c \notin Made /\ c = Len(list) + 1 /\ c \in Nat \ {0}
                /\ list'[c] = <<>> /\ consumer'[c] = Looping("check")
                /\ \A r \in Made : list'[r] = list[r] /\ consumer'[r] = consumer[r]
                /\ pusher[p] \in Pushing /\ pusher[p] # Idle
                /\ pusher' = [pusher EXCEPT ![p] = [pusher[p] EXCEPT !.step = "stamp", !.queue = c]]
                /\ registered' = [registered EXCEPT ![pusher[p].sample.ident] = c]
                /\ UNCHANGED <<closed, writing, posted, dropped, samples>>
<1> DEFINE c == Len(list) + 1
<1>1. list \in Seq(Seq(Sample)) /\ consumer \in Seq(Consumer) /\ Len(consumer) = Len(list)
  BY DEF TypeOK
<1>2. Len(list) \in Nat /\ c \in Nat \ {0}
  BY <1>1
<1>3. list' = Append(list, <<>>) /\ consumer' = Append(consumer, Looping("check"))
  BY DEF Create
<1>4. Made' = Made \cup {c} /\ c \notin Made
  BY <1>1, <1>2, <1>3
<1>5. list'[c] = <<>> /\ consumer'[c] = Looping("check")
  BY <1>1, <1>3
<1>6. \A r \in Made : list'[r] = list[r] /\ consumer'[r] = consumer[r]
  BY <1>1, <1>3
<1>7. pusher[p] \in Pushing /\ pusher[p] # Idle
  BY DEF TypeOK, Create, Idle
<1>8. pusher' = [pusher EXCEPT ![p] = [pusher[p] EXCEPT !.step = "stamp", !.queue = c]]
  BY DEF Create
<1>9. registered' = [registered EXCEPT ![pusher[p].sample.ident] = c]
  BY DEF Create
<1> QED
  BY <1>2, <1>4, <1>5, <1>6, <1>7, <1>8, <1>9 DEF Create, backendVars

\* PushFront puts the sample behind the others.
LEMMA PushEffect ==
  ASSUME TypeOK, NEW p \in Pushers, PushFront(p)
  PROVE  \E q \in Made :
           /\ q = pusher[p].queue /\ pusher[p] \in Pushing /\ pusher[p] # Idle
           /\ Made' = Made
           /\ \A r \in Made \ {q} : list'[r] = list[r]
           /\ list[q] \in Seq(Sample) /\ Len(list[q]) \in Nat
           /\ DOMAIN list'[q] = 1..Len(list[q]) + 1
           /\ \A i \in 1..Len(list[q]) : list'[q][i] = list[q][i]
           /\ list'[q][Len(list[q]) + 1] = pusher[p].sample
           /\ pusher' = [pusher EXCEPT ![p] = Idle]
           /\ UNCHANGED <<registered, closed, consumer, writing, posted, dropped, samples>>
<1> DEFINE q == pusher[p].queue
<1>1. pusher[p] \in Pushing /\ pusher[p] # Idle /\ pusher[p].sample \in Sample
  BY DEF TypeOK, PushFront, Idle, Pushing
<1>2. q \in Made
  BY DEF TypeOK, PushFront
<1>3. list \in Seq(Seq(Sample)) /\ list[q] \in Seq(Sample)
  BY <1>2 DEF TypeOK
<1>4. Len(list[q]) \in Nat
  BY <1>3
<1>5. list' = [list EXCEPT ![q] = Append(list[q], pusher[p].sample)]
  BY DEF PushFront
<1>6. Made' = Made /\ \A r \in Made \ {q} : list'[r] = list[r]
  BY <1>3, <1>5
<1>7. list'[q] = Append(list[q], pusher[p].sample)
  BY <1>2, <1>3, <1>5
<1> HIDE DEF q
<1>8. DOMAIN list'[q] = 1..Len(list[q]) + 1
  BY <1>1, <1>3, <1>4, <1>7
<1>9. \A i \in 1..Len(list[q]) : list'[q][i] = list[q][i]
  BY <1>1, <1>3, <1>4, <1>7
<1>10. list'[q][Len(list[q]) + 1] = pusher[p].sample
  BY <1>1, <1>3, <1>4, <1>7
<1>11. UNCHANGED <<registered, closed, consumer, writing, posted, dropped, samples>>
       /\ pusher' = [pusher EXCEPT ![p] = Idle]
  BY DEF PushFront, backendVars
<1> QED
  BY <1>1, <1>2, <1>3, <1>4, <1>6, <1>8, <1>9, <1>10, <1>11 DEF q

\* What posting a batch adds.
LEMMA PostEffect ==
  ASSUME TypeOK, NEW w \in writing, Post(w)
  PROVE  /\ w.backend \in Backends /\ w.batch \in Seq(Sample) /\ Len(w.batch) \in Nat
         /\ posted[w.backend] \in Seq(Sample) /\ Len(posted[w.backend]) \in Nat
         /\ writing' = writing \ {w}
         /\ \A b \in Backends \ {w.backend} : posted'[b] = posted[b]
         /\ DOMAIN posted'[w.backend] = 1..Len(posted[w.backend]) + Len(w.batch)
         /\ \A i \in 1..Len(posted[w.backend]) : posted'[w.backend][i] = posted[w.backend][i]
         /\ \A i \in 1..Len(w.batch) : posted'[w.backend][Len(posted[w.backend]) + i] = w.batch[i]
         /\ UNCHANGED <<registered, closed, list, consumer, pusher, dropped, samples>>
<1>1. w.backend \in Backends /\ w.batch \in Seq(Sample)
  BY DEF TypeOK, Write
<1>2. posted[w.backend] \in Seq(Sample)
  BY <1>1 DEF TypeOK
<1>3. Len(w.batch) \in Nat /\ Len(posted[w.backend]) \in Nat
  BY <1>1, <1>2
<1>4. posted' = [posted EXCEPT ![w.backend] = posted[w.backend] \o w.batch]
  BY DEF Post
<1>5. posted'[w.backend] = posted[w.backend] \o w.batch
      /\ \A b \in Backends \ {w.backend} : posted'[b] = posted[b]
  BY <1>1, <1>4 DEF TypeOK
<1> DEFINE m == Len(posted[w.backend])
           n == Len(w.batch)
           both == posted[w.backend] \o w.batch
<1>6. both \in Seq(Sample) /\ Len(both) = m + n
      /\ \A i \in 1..m + n : both[i] = IF i <= m THEN posted[w.backend][i] ELSE w.batch[i - m]
  BY <1>1, <1>2, ConcatProperties
<1>7. m \in Nat /\ n \in Nat /\ posted'[w.backend] = both
  BY <1>3, <1>5
<1> HIDE DEF m, n, both
<1>8. \A i \in 1..n : m + i \in 1..m + n /\ ~(m + i <= m) /\ (m + i) - m = i
  BY <1>7
<1>9. DOMAIN posted'[w.backend] = 1..m + n
      /\ \A i \in 1..m : posted'[w.backend][i] = posted[w.backend][i]
  BY <1>6, <1>7
<1>10. \A i \in 1..n : posted'[w.backend][m + i] = w.batch[i]
  BY <1>6, <1>7, <1>8
<1> QED
  BY <1>1, <1>2, <1>3, <1>5, <1>9, <1>10 DEF Post, Release, queueVars, m, n

-------------------------------------------------------------------------------
(***************************************************************************)
(* One step moves samples from one place to the next.  That the place they *)
(* leave does not have them still is because nothing has them twice.       *)
(***************************************************************************)

\* No two places of the lists have the same sample.
OnceQueued ==
  \A q, r \in Made : \A i \in DOMAIN list[q], j \in DOMAIN list[r] :
    list[q][i] = list[r][j] => q = r /\ i = j

\* No two batches for one backend have a sample in common.
OnceBatched ==
  \A b \in Backends : \A q, r \in Made :
    b \in consumer[q].todo /\ b \in consumer[r].todo /\ q # r
      => ToSet(consumer[q].batch) \cap ToSet(consumer[r].batch) = {}

OnceInWrite ==
  \A v, w \in writing : v # w /\ v.backend = w.backend => ToSet(v.batch) \cap ToSet(w.batch) = {}

\* Steps that leave the consumers, the lists and the writes alone.
LEMMA SamePlaces ==
  /\ UNCHANGED list => Queued' = Queued
  /\ UNCHANGED pusher => Held' = Held
  /\ UNCHANGED <<list, consumer>> => \A b \in Backends : Batched(b)' = Batched(b)
  /\ UNCHANGED writing => \A b \in Backends : InWrite(b)' = InWrite(b)
  /\ UNCHANGED posted => \A b \in Backends : Arrived(b)' = Arrived(b)
BY DEF Queued, Waiting, Held, Batched, Taken, InWrite, Writing, Arrived, Posted

\* A sample in the sequence of samples of a batch is a sample.
LEMMA BatchSamples ==
  ASSUME TypeOK
  PROVE  /\ \A q \in Made : consumer[q] \in Consumer /\ ToSet(consumer[q].batch) \subseteq Sample
         /\ \A w \in writing : w.backend \in Backends /\ ToSet(w.batch) \subseteq Sample
<1>1. ASSUME NEW q \in Made  PROVE consumer[q] \in Consumer /\ ToSet(consumer[q].batch) \subseteq Sample
  <2>1. consumer[q] \in Consumer
    BY DEF TypeOK
  <2>2. consumer[q].batch \in Seq(Sample)
    BY <2>1 DEF Consumer
  <2> QED
    BY <2>1, <2>2 DEF ToSet
<1>2. ASSUME NEW w \in writing  PROVE w.backend \in Backends /\ ToSet(w.batch) \subseteq Sample
  <2>1. w.backend \in Backends /\ w.batch \in Seq(Sample)
    BY DEF TypeOK, Write
  <2> QED
    BY <2>1 DEF ToSet
<1> QED
  BY <1>1, <1>2

\* PopBack: from a list to the batches of all backends.
LEMMA PopMoves ==
  ASSUME TypeOK, NothingTodo, NEW q \in Made, PopBack(q)
  PROVE  \E B \in SUBSET Queued :
           /\ \A b \in Backends : Batched(b)' = Batched(b) \cup B
           /\ Queued' \subseteq Queued
           /\ OnceQueued /\ Backends # {} => Queued' \cap B = {}
           /\ UNCHANGED <<Held, posted, dropped, writing, samples, pusher>>
           /\ \A b \in Backends : InWrite(b)' = InWrite(b) /\ Arrived(b)' = Arrived(b)
<1>1. PICK n \in 0..Len(list[q]) :
           /\ list[q] \in Seq(Sample) /\ Len(list[q]) \in Nat
           /\ Made' = Made
           /\ \A r \in Made \ {q} : list'[r] = list[r] /\ consumer'[r] = consumer[r]
           /\ list'[q] \in Seq(Sample) /\ Len(list'[q]) = Len(list[q]) - n
           /\ DOMAIN list'[q] = 1..Len(list[q]) - n
           /\ \A i \in 1..Len(list[q]) - n : list'[q][i] = list[q][i + n]
           /\ \/ consumer'[q] = Looping("check") /\ (n = 0 \/ Backends = {})
              \/ /\ n > 0 /\ consumer'[q].step = "dispatch" /\ consumer'[q].todo = Backends
                 /\ consumer'[q].batch \in Seq(Sample) /\ DOMAIN consumer'[q].batch = 1..n
                 /\ \A i \in 1..n : consumer'[q].batch[i] = list[q][i]
  BY PopEffect
<1> DEFINE B == { list[q][i] : i \in 1..n }
<1>2. n \in Nat /\ DOMAIN list[q] = 1..Len(list[q]) /\ 1..n \subseteq DOMAIN list[q]
  BY <1>1
<1>3. consumer[q].todo = {}
  BY DEF NothingTodo, PopBack
<1>4. UNCHANGED <<posted, dropped, writing, samples, pusher>>
  BY DEF PopBack, backendVars
<1>5. UNCHANGED Held /\ \A b \in Backends : InWrite(b)' = InWrite(b) /\ Arrived(b)' = Arrived(b)
  BY <1>4, SamePlaces
<1>6. B \subseteq Queued
  <2> SUFFICES ASSUME NEW i \in 1..n  PROVE list[q][i] \in Queued
    OBVIOUS
  <2>1. i \in DOMAIN list[q] /\ list[q][i] \in Sample
    BY <1>1, <1>2
  <2> QED
    BY <2>1 DEF Queued, Waiting, ToSet
<1>7. \A i \in DOMAIN list'[q] : i + n \in DOMAIN list[q] /\ list'[q][i] = list[q][i + n] /\ i + n \notin 1..n
  <2> DEFINE m == Len(list[q])
  <2>1. m \in Nat /\ n \in 0..m /\ DOMAIN list[q] = 1..m /\ DOMAIN list'[q] = 1..m - n
        /\ \A i \in 1..m - n : list'[q][i] = list[q][i + n]
    BY <1>1, <1>2
  <2> HIDE DEF m
  <2>2. \A i \in 1..m - n : i + n \in 1..m /\ i + n \notin 1..n
    BY <2>1
  <2> QED
    BY <2>1, <2>2
<1>8. ASSUME NEW s \in Queued'
      PROVE  \E r \in Made : \E i \in DOMAIN list[r] : s = list[r][i] /\ (r = q => i \notin 1..n)
  <2>1. PICK r \in Made : s \in ToSet(list'[r])
    BY <1>1 DEF Queued, Waiting
  <2>2. PICK i \in DOMAIN list'[r] : s = list'[r][i]
    BY <2>1 DEF ToSet
  <2>3. CASE r = q
    BY <1>7, <2>2, <2>3
  <2>4. CASE r # q
    BY <1>1, <2>2, <2>4
  <2> QED
    BY <2>3, <2>4
<1>9. Queued' \subseteq Queued
  <2> SUFFICES ASSUME NEW s \in Queued'  PROVE s \in Queued
    OBVIOUS
  <2>1. s \in Sample
    BY DEF Queued
  <2> QED
    BY <1>8, <2>1 DEF Queued, Waiting, ToSet
<1>10. OnceQueued => Queued' \cap B = {}
  <2> SUFFICES ASSUME OnceQueued, NEW s \in Queued', NEW k \in 1..n, s = list[q][k]  PROVE FALSE
    OBVIOUS
  <2>1. PICK r \in Made : \E i \in DOMAIN list[r] : s = list[r][i] /\ (r = q => i \notin 1..n)
    BY <1>8
  <2>2. PICK i \in DOMAIN list[r] : s = list[r][i] /\ (r = q => i \notin 1..n)
    BY <2>1
  <2>3. k \in DOMAIN list[q]
    BY <1>2
  <2>4. list[q][k] = list[r][i]
    BY <2>2
  <2>5. q = r /\ k = i
    BY <2>3, <2>4 DEF OnceQueued
  <2> QED
    BY <2>2, <2>5
<1>11. CASE consumer'[q] = Looping("check") /\ (n = 0 \/ Backends = {})
  <2>1. consumer'[q].todo = {}
    BY <1>11 DEF Looping
  <2>2. \A b \in Backends : Batched(b)' = Batched(b)
    BY <1>1, <1>3, <2>1 DEF Batched, Taken
  <2>3. Backends # {} => B = {}
    BY <1>11
  <2> HIDE DEF B
  <2>4. {} \subseteq Queued /\ \A b \in Backends : Batched(b)' = Batched(b) \cup {}
    BY <2>2
  <2>5. Queued' \cap {} = {}
    OBVIOUS
  <2> QED
    BY <1>4, <1>5, <1>9, <2>4, <2>5
<1>12. CASE /\ n > 0 /\ consumer'[q].step = "dispatch" /\ consumer'[q].todo = Backends
            /\ consumer'[q].batch \in Seq(Sample) /\ DOMAIN consumer'[q].batch = 1..n
            /\ \A i \in 1..n : consumer'[q].batch[i] = list[q][i]
  <2>1. ToSet(consumer'[q].batch) = B
    BY <1>12 DEF ToSet
  <2>2. B \subseteq Sample
    BY <1>6 DEF Queued
  <2> HIDE DEF B
  <2>3. ASSUME NEW b \in Backends  PROVE Batched(b)' = Batched(b) \cup B
    <3>1. \A s \in Sample : Taken(s, b)' <=> Taken(s, b) \/ s \in B
      BY <1>1, <1>3, <1>12, <2>1 DEF Taken
    <3> QED
      BY <2>2, <3>1 DEF Batched
  <2>4. B \in SUBSET Queued
    BY <1>6
  <2> QED
    BY <1>4, <1>5, <1>9, <1>10, <2>3, <2>4
<1> QED
  BY <1>1, <1>11, <1>12

\* Dispatch: from the batch for b to a Write for b.
LEMMA DispatchMoves ==
  ASSUME TypeOK, NEW q \in Made, NEW b \in Backends, Dispatch(q, b)
  PROVE  \E B \in SUBSET Batched(b) :
           /\ Batched(b) \ B \subseteq Batched(b)' /\ Batched(b)' \subseteq Batched(b)
           /\ OnceBatched => Batched(b)' \cap B = {}
           /\ InWrite(b)' = InWrite(b) \cup B
           /\ \A c \in Backends \ {b} : Batched(c)' = Batched(c) /\ InWrite(c)' = InWrite(c)
           /\ \A c \in Backends : Arrived(c)' = Arrived(c)
           /\ UNCHANGED <<Held, Queued, posted, dropped, samples, pusher, list>>
<1> DEFINE B == ToSet(consumer[q].batch)
           w == [backend |-> b, batch |-> consumer[q].batch]
<1>1. /\ consumer[q].step = "dispatch" /\ b \in consumer[q].todo
      /\ consumer[q].batch \in Seq(Sample)
      /\ \A r \in Made \ {q} : consumer'[r] = consumer[r]
      /\ consumer'[q].todo = consumer[q].todo \ {b}
      /\ \/ consumer'[q] = Looping("check")
         \/ consumer'[q].step = "dispatch" /\ consumer'[q].batch = consumer[q].batch
      /\ writing' = writing \cup {w}
      /\ UNCHANGED <<list, pusher, posted, dropped, samples>>
  BY DispatchEffect
<1>2. UNCHANGED <<Held, Queued>> /\ \A c \in Backends : Arrived(c)' = Arrived(c)
  BY <1>1, SamePlaces
<1>3. B \subseteq Sample
  BY <1>1 DEF ToSet
<1>4. B \subseteq Batched(b)
  BY <1>1, <1>3 DEF Batched, Taken
<1>5. \A c \in Backends : InWrite(c)' = InWrite(c) \cup (IF c = b THEN B ELSE {})
  <2> TAKE c \in Backends
  <2>1. w.backend = b /\ ToSet(w.batch) = B /\ writing' = writing \cup {w}
    BY <1>1
  <2> HIDE DEF w, B
  <2>2. \A s \in Sample : Writing(s, c)' <=> Writing(s, c) \/ (c = b /\ s \in B)
    BY <2>1 DEF Writing
  <2> QED
    BY <1>3, <2>2 DEF InWrite
<1>6. Made' = Made
  BY <1>1
<1>7. \A c \in Backends, s \in Sample : Taken(s, c)' =>
        \E r \in Made : c \in consumer[r].todo /\ s \in ToSet(consumer[r].batch) /\ (c = b => r # q)
  <2> SUFFICES ASSUME NEW c \in Backends, NEW s \in Sample, NEW r \in Made,
                      c \in consumer'[r].todo, s \in ToSet(consumer'[r].batch)
               PROVE  c \in consumer[r].todo /\ s \in ToSet(consumer[r].batch) /\ (c = b => r # q)
    BY <1>6 DEF Taken
  <2>1. CASE r = q
    <3>1. c \in consumer[q].todo /\ c # b
      BY <1>1, <2>1
    <3>2. consumer'[q].batch = consumer[q].batch
      BY <1>1, <2>1 DEF Looping
    <3> QED
      BY <2>1, <3>1, <3>2
  <2>2. CASE r # q
    BY <1>1, <2>2
  <2> QED
    BY <2>1, <2>2
<1>8. \A c \in Backends : Batched(c)' \subseteq Batched(c)
  BY <1>7 DEF Batched, Taken
<1>9. \A c \in Backends, s \in Sample : Taken(s, c) /\ ~(c = b /\ s \in B) => Taken(s, c)'
  <2> SUFFICES ASSUME NEW c \in Backends, NEW s \in Sample, NEW r \in Made,
                      c \in consumer[r].todo, s \in ToSet(consumer[r].batch), ~(c = b /\ s \in B)
               PROVE  c \in consumer'[r].todo /\ s \in ToSet(consumer'[r].batch)
    BY <1>6 DEF Taken
  <2>1. CASE r = q
    <3>1. c # b /\ c \in consumer'[q].todo
      BY <1>1, <2>1
    <3>2. consumer'[q].batch = consumer[q].batch
      BY <1>1, <3>1 DEF Looping
    <3> QED
      BY <2>1, <3>1, <3>2
  <2>2. CASE r # q
    BY <1>1, <2>2
  <2> QED
    BY <2>1, <2>2
<1>10. OnceBatched => Batched(b)' \cap B = {}
  <2> SUFFICES ASSUME OnceBatched, NEW s \in Batched(b)', s \in B  PROVE FALSE
    OBVIOUS
  <2>1. PICK r \in Made : b \in consumer[r].todo /\ s \in ToSet(consumer[r].batch) /\ r # q
    BY <1>7 DEF Batched
  <2> QED
    BY <1>1, <2>1 DEF OnceBatched
<1> HIDE DEF B, w
<1>11. Batched(b) \ B \subseteq Batched(b)' /\ \A c \in Backends \ {b} : Batched(c) \subseteq Batched(c)'
  BY <1>9 DEF Batched
<1>12. B \in SUBSET Batched(b)
  BY <1>4
<1>13. \A c \in Backends \ {b} : Batched(c)' = Batched(c) /\ InWrite(c)' = InWrite(c)
  BY <1>5, <1>8, <1>11
<1>14. InWrite(b)' = InWrite(b) \cup B
  BY <1>5
<1> QED
  BY <1>1, <1>2, <1>8, <1>10, <1>11, <1>12, <1>13, <1>14

\* The end of a Write: to the backend, or lost to it.
LEMMA WriteMoves ==
  ASSUME TypeOK, NEW w \in writing, Post(w) \/ GiveUp(w)
  PROVE  LET b == w.backend
             B == ToSet(w.batch)
         IN  /\ b \in Backends /\ B \subseteq InWrite(b)
             /\ InWrite(b) \ B \subseteq InWrite(b)' /\ InWrite(b)' \subseteq InWrite(b)
             /\ OnceInWrite => InWrite(b)' \cap B = {}
             /\ \/ Arrived(b)' = Arrived(b) \cup B /\ dropped'[b] = dropped[b]
                \/ Arrived(b)' = Arrived(b) /\ dropped'[b] = dropped[b] \cup B
             /\ \A c \in Backends \ {b} :
                  InWrite(c)' = InWrite(c) /\ Arrived(c)' = Arrived(c) /\ dropped'[c] = dropped[c]
             /\ \A c \in Backends : Batched(c)' = Batched(c)
             /\ UNCHANGED <<Held, Queued, consumer, samples, pusher, list>>
<1> DEFINE b == w.backend
           B == ToSet(w.batch)
<1>1. b \in Backends /\ B \subseteq Sample /\ w.batch \in Seq(Sample)
  BY BatchSamples DEF TypeOK, Write
<1>2. writing' = writing \ {w} /\ UNCHANGED <<consumer, samples, pusher, list>>
  BY DEF Post, GiveUp, Release, queueVars
<1>3. UNCHANGED <<Held, Queued>> /\ \A c \in Backends : Batched(c)' = Batched(c)
  BY <1>2, SamePlaces
<1>4. B \subseteq InWrite(b)
  BY <1>1 DEF InWrite, Writing
<1>5. \A c \in Backends : InWrite(c)' \subseteq InWrite(c)
  BY <1>2 DEF InWrite, Writing
<1>6. \A c \in Backends, s \in Sample : Writing(s, c) /\ ~(c = b /\ s \in B) => Writing(s, c)'
  BY <1>2 DEF Writing
<1>7. OnceInWrite => InWrite(b)' \cap B = {}
  <2> SUFFICES ASSUME OnceInWrite, NEW s \in InWrite(b)', s \in B  PROVE FALSE
    OBVIOUS
  <2>1. PICK v \in writing \ {w} : v.backend = b /\ s \in ToSet(v.batch)
    BY <1>2 DEF InWrite, Writing
  <2> QED
    BY <2>1 DEF OnceInWrite
<1>8. CASE Post(w)
  <2>1. /\ Len(w.batch) \in Nat /\ posted[b] \in Seq(Sample) /\ Len(posted[b]) \in Nat
        /\ \A c \in Backends \ {b} : posted'[c] = posted[c]
        /\ DOMAIN posted'[b] = 1..Len(posted[b]) + Len(w.batch)
        /\ \A i \in 1..Len(posted[b]) : posted'[b][i] = posted[b][i]
        /\ \A i \in 1..Len(w.batch) : posted'[b][Len(posted[b]) + i] = w.batch[i]
        /\ UNCHANGED dropped
    BY <1>8, PostEffect
  <2> DEFINE m == Len(posted[b])
             n == Len(w.batch)
  <2>2. DOMAIN posted[b] = 1..m /\ DOMAIN w.batch = 1..n /\ m \in Nat /\ n \in Nat
    BY <1>1, <2>1
  <2>3. ToSet(posted'[b]) = ToSet(posted[b]) \cup B
    <3>1. /\ DOMAIN posted'[b] = 1..m + n
          /\ \A i \in 1..m : posted'[b][i] = posted[b][i]
          /\ \A i \in 1..n : posted'[b][m + i] = w.batch[i]
      BY <2>1
    <3> HIDE DEF m, n, b
    <3>2. \A i \in 1..m + n : i \in 1..m \/ (i - m \in 1..n /\ m + (i - m) = i)
      BY <2>2
    <3>3. \A i \in 1..n : m + i \in 1..m + n
      BY <2>2
    <3>4. \A i \in 1..m : i \in 1..m + n
      BY <2>2
    <3>5. ASSUME NEW s \in ToSet(posted'[b])  PROVE s \in ToSet(posted[b]) \cup B
      <4>1. PICK i \in 1..m + n : s = posted'[b][i]
        BY <3>1 DEF ToSet
      <4>2. CASE i \in 1..m
        BY <2>2, <3>1, <4>1, <4>2 DEF ToSet
      <4>3. CASE i - m \in 1..n /\ m + (i - m) = i
        <5>1. posted'[b][m + (i - m)] = w.batch[i - m]
          BY <3>1, <4>3
        <5> QED
          BY <2>2, <4>1, <4>3, <5>1 DEF ToSet
      <4> QED
        BY <3>2, <4>2, <4>3
    <3>6. ASSUME NEW s \in ToSet(posted[b])  PROVE s \in ToSet(posted'[b])
      <4>1. PICK i \in 1..m : s = posted[b][i]
        BY <2>2 DEF ToSet
      <4> QED
        BY <3>1, <3>4, <4>1 DEF ToSet
    <3>7. ASSUME NEW s \in B  PROVE s \in ToSet(posted'[b])
      <4>1. PICK i \in 1..n : s = w.batch[i]
        BY <2>2 DEF ToSet
      <4> QED
        BY <3>1, <3>3, <4>1 DEF ToSet
    <3> QED
      BY <3>5, <3>6, <3>7
  <2> HIDE DEF B
  <2>4. Arrived(b)' = Arrived(b) \cup B
    BY <1>1, <2>3 DEF Arrived, Posted
  <2>5. \A c \in Backends \ {b} : Arrived(c)' = Arrived(c)
    BY <2>1 DEF Arrived, Posted
  <2>6. UNCHANGED dropped
    BY <2>1
  <2>8. InWrite(b) \ B \subseteq InWrite(b)' /\ \A c \in Backends \ {b} : InWrite(c) \subseteq InWrite(c)'
    BY <1>1, <1>6 DEF InWrite
  <2> QED
    BY <1>1, <1>2, <1>3, <1>4, <1>5, <1>7, <2>4, <2>5, <2>6, <2>8 DEF B
<1>9. CASE GiveUp(w)
  <2>1. dropped' = [dropped EXCEPT ![b] = dropped[b] \cup B] /\ UNCHANGED posted
    BY <1>9 DEF GiveUp
  <2>2. dropped'[b] = dropped[b] \cup B /\ \A c \in Backends \ {b} : dropped'[c] = dropped[c]
    BY <1>1, <2>1 DEF TypeOK
  <2>3. \A c \in Backends : Arrived(c)' = Arrived(c)
    BY <2>1, SamePlaces
  <2>8. InWrite(b) \ B \subseteq InWrite(b)' /\ \A c \in Backends \ {b} : InWrite(c) \subseteq InWrite(c)'
    BY <1>1, <1>6 DEF InWrite
  <2> QED
    BY <1>1, <1>2, <1>3, <1>4, <1>5, <1>7, <2>2, <2>3, <2>8
<1> QED
  BY <1>8, <1>9

-------------------------------------------------------------------------------
(***************************************************************************)
(* Every backend gets its share: what has left the lists is, for every     *)
(* backend, in a batch, being written, arrived or lost, and it is the same *)
(* samples for all of them.                                                *)
(***************************************************************************)

Left(b) == Batched(b) \cup InWrite(b) \cup Arrived(b) \cup dropped[b]

Even == \A b, c \in Backends : Left(b) = Left(c)

\* Initially nothing is on its way.
LEMMA EvenInit == Init => NothingTodo /\ Even
<1> SUFFICES ASSUME Init  PROVE NothingTodo /\ Even
  OBVIOUS
<1>1. Made = {} /\ NothingTodo
  BY DEF Init, NothingTodo
<1>2. \A b \in Backends : Left(b) = {}
  BY <1>1 DEF Init, Left, Batched, Taken, InWrite, Writing, Arrived, Posted, ToSet
<1> QED
  BY <1>1, <1>2 DEF Even

\* What the steps of requests, of the cleaner and of the clock do to the rest.
LEMMA RequestSteps ==
  ASSUME TypeOK, NothingTodo,
         \/ \E p \in Pushers : (\E i \in SendsFor[p] : Lookup(p, i)) \/ PusherStep(p)
         \/ CleanExpQueue \/ Tick \/ UNCHANGED vars
  PROVE  /\ NothingTodo'
         /\ UNCHANGED <<writing, posted, dropped>>
         /\ \A b \in Backends : Batched(b)' = Batched(b) /\ InWrite(b)' = InWrite(b) /\ Arrived(b)' = Arrived(b)
<1>1. ASSUME NEW p \in Pushers, Create(p)
      PROVE  NothingTodo' /\ \A b \in Backends : Batched(b)' = Batched(b)
  <2>1. PICK c : /\ Made' = Made \cup {c} /\ c \notin Made
                 /\ consumer'[c] = Looping("check")
                 /\ \A r \in Made : consumer'[r] = consumer[r]
    BY <1>1, CreateEffect
  <2>2. consumer'[c].todo = {}
    BY <2>1 DEF Looping
  <2>3. NothingTodo'
    BY <2>1, <2>2 DEF NothingTodo
  <2>4. ASSUME NEW b \in Backends  PROVE Batched(b)' = Batched(b)
    BY <2>1, <2>2 DEF Batched, Taken
  <2> QED
    BY <2>3, <2>4
<1>2. ASSUME UNCHANGED consumer /\ Made' = Made
      PROVE  NothingTodo' /\ \A b \in Backends : Batched(b)' = Batched(b)
  <2>1. NothingTodo'
    BY <1>2 DEF NothingTodo
  <2>2. \A b \in Backends : Batched(b)' = Batched(b)
    BY <1>2 DEF Batched, Taken
  <2> QED
    BY <2>1, <2>2
<1>3. ASSUME NEW p \in Pushers, (\E i \in SendsFor[p] : Lookup(p, i)) \/ SetTs(p) \/ CheckRoom(p) \/ PushFront(p)
      PROVE  UNCHANGED consumer /\ Made' = Made
  BY <1>3 DEF Lookup, SetTs, CheckRoom, PushFront, queueVars, TypeOK
<1>4. ASSUME CleanExpQueue \/ Tick \/ UNCHANGED vars
      PROVE  UNCHANGED consumer /\ Made' = Made
  BY <1>4 DEF CleanExpQueue, Tick, vars, queueVars
<1>5. NothingTodo' /\ \A b \in Backends : Batched(b)' = Batched(b)
  BY <1>1, <1>2, <1>3, <1>4 DEF PusherStep
<1>6. UNCHANGED <<writing, posted, dropped>>
  BY DEF Lookup, PusherStep, Create, SetTs, CheckRoom, PushFront, CleanExpQueue, Tick, vars, backendVars
<1>7. \A b \in Backends : InWrite(b)' = InWrite(b) /\ Arrived(b)' = Arrived(b)
  BY <1>6, SamePlaces
<1>8. NothingTodo'
  BY <1>5
<1>9. \A b \in Backends : Batched(b)' = Batched(b) /\ InWrite(b)' = InWrite(b) /\ Arrived(b)' = Arrived(b)
  BY <1>5, <1>7
<1> QED
  BY <1>6, <1>8, <1>9

\* Only a consumer at its loop over the backends has backends to serve.
LEMMA TodoStep == TypeOK /\ NothingTodo /\ [Next]_vars => NothingTodo'
<1> SUFFICES ASSUME TypeOK, NothingTodo, [Next]_vars  PROVE NothingTodo'
  OBVIOUS
<1>1. ASSUME NEW q \in Made, CheckClosed(q)
      PROVE  NothingTodo'
  <2>1. /\ consumer[q].step = "check" /\ UNCHANGED list
        /\ \A r \in Made : consumer'[r].todo = consumer[r].todo
        /\ \A r \in Made \ {q} : consumer'[r] = consumer[r]
    BY <1>1, CheckEffect
  <2> QED
    BY <2>1 DEF NothingTodo
<1>2. ASSUME NEW q \in Made, PopBack(q)
      PROVE  NothingTodo'
  <2>1. /\ Made' = Made
        /\ \A r \in Made \ {q} : consumer'[r] = consumer[r]
        /\ consumer'[q] = Looping("check") \/ consumer'[q].step = "dispatch"
    BY <1>2, PopEffect
  <2> QED
    BY <2>1 DEF NothingTodo, Looping
<1>3. ASSUME NEW q \in Made, NEW b \in Backends, Dispatch(q, b)
      PROVE  NothingTodo'
  <2>1. /\ UNCHANGED list
        /\ \A r \in Made \ {q} : consumer'[r] = consumer[r]
        /\ consumer'[q] = Looping("check") \/ consumer'[q].step = "dispatch"
    BY <1>3, DispatchEffect
  <2> QED
    BY <2>1 DEF NothingTodo, Looping
<1>4. ASSUME WriteStep  PROVE NothingTodo'
  BY <1>4 DEF WriteStep, Post, GiveUp, queueVars, NothingTodo
<1> QED
  BY <1>1, <1>2, <1>3, <1>4, RequestSteps DEF Next, ConsumerStep

\* What has left the lists for one backend has left them for all.
LEMMA EvenStep == TypeOK /\ NothingTodo /\ Even /\ [Next]_vars => Even'
<1> SUFFICES ASSUME TypeOK, NothingTodo, Even, [Next]_vars  PROVE Even'
  OBVIOUS
<1>1. CASE \A b \in Backends : Left(b)' = Left(b)
  BY <1>1 DEF Even
<1>2. ASSUME NEW q \in Made, CheckClosed(q)
      PROVE  \A b \in Backends : Left(b)' = Left(b)
  <2>1. UNCHANGED <<list, writing, posted, dropped>>
    BY <1>2, CheckEffect
  <2>3. \A r \in Made : consumer'[r].todo = consumer[r].todo /\ consumer'[r].batch = consumer[r].batch
    BY <1>2, CheckEffect
  <2>4. \A b \in Backends : Batched(b)' = Batched(b)
    BY <2>1, <2>3 DEF Batched, Taken
  <2> QED
    BY <2>1, <2>4, SamePlaces DEF Left
<1>3. ASSUME NEW q \in Made, PopBack(q)
      PROVE  Even'
  <2>1. PICK B : /\ \A b \in Backends : Batched(b)' = Batched(b) \cup B
                 /\ UNCHANGED dropped
                 /\ \A b \in Backends : InWrite(b)' = InWrite(b) /\ Arrived(b)' = Arrived(b)
    BY <1>3, PopMoves
  <2>2. \A b \in Backends : Left(b)' = Left(b) \cup B
    BY <2>1 DEF Left
  <2> QED
    BY <2>2 DEF Even
<1>4. ASSUME NEW q \in Made, NEW b \in Backends, Dispatch(q, b)
      PROVE  \A c \in Backends : Left(c)' = Left(c)
  <2>1. PICK B \in SUBSET Batched(b) :
           /\ Batched(b) \ B \subseteq Batched(b)' /\ Batched(b)' \subseteq Batched(b)
           /\ InWrite(b)' = InWrite(b) \cup B
           /\ \A c \in Backends \ {b} : Batched(c)' = Batched(c) /\ InWrite(c)' = InWrite(c)
           /\ \A c \in Backends : Arrived(c)' = Arrived(c)
           /\ UNCHANGED dropped
    BY <1>4, DispatchMoves
  <2>2. Left(b)' = Left(b)
    BY <2>1 DEF Left
  <2>3. \A c \in Backends \ {b} : Left(c)' = Left(c)
    BY <2>1 DEF Left
  <2> QED
    BY <2>2, <2>3
<1>5. ASSUME NEW w \in writing, Post(w) \/ GiveUp(w)
      PROVE  \A c \in Backends : Left(c)' = Left(c)
  <2> DEFINE b == w.backend
             B == ToSet(w.batch)
  <2>1. /\ b \in Backends /\ B \subseteq InWrite(b)
        /\ InWrite(b) \ B \subseteq InWrite(b)' /\ InWrite(b)' \subseteq InWrite(b)
        /\ \/ Arrived(b)' = Arrived(b) \cup B /\ dropped'[b] = dropped[b]
           \/ Arrived(b)' = Arrived(b) /\ dropped'[b] = dropped[b] \cup B
        /\ \A c \in Backends \ {b} :
             InWrite(c)' = InWrite(c) /\ Arrived(c)' = Arrived(c) /\ dropped'[c] = dropped[c]
        /\ \A c \in Backends : Batched(c)' = Batched(c)
    BY <1>5, WriteMoves
  <2> HIDE DEF b, B
  <2>2. Left(b)' = Left(b)
    BY <2>1 DEF Left
  <2>3. \A c \in Backends \ {b} : Left(c)' = Left(c)
    BY <2>1 DEF Left
  <2> QED
    BY <2>2, <2>3
<1>6. ASSUME \/ \E p \in Pushers : (\E i \in SendsFor[p] : Lookup(p, i)) \/ PusherStep(p)
             \/ CleanExpQueue \/ Tick \/ UNCHANGED vars
      PROVE  \A c \in Backends : Left(c)' = Left(c)
  BY <1>6, RequestSteps DEF Left
<1> QED
  BY <1>1, <1>2, <1>3, <1>4, <1>5, <1>6 DEF Next, ConsumerStep, WriteStep

\* Whatever one backend got, or lost, every other one has got or lost, or has it on
\* its way: the loop over the backends leaves none out, however the consumers wait
\* for the semaphore and whichever Write gives up.
THEOREM EveryBackendIsServed == Spec => []AllBackendsServed
<1>1. TypeOK /\ Even => AllBackendsServed
  <2> SUFFICES ASSUME Even, NEW b \in Backends, NEW c \in Backends, NEW s \in Sample,
                      Posted(s, b) \/ s \in dropped[b]
               PROVE  Taken(s, c) \/ Writing(s, c) \/ Posted(s, c) \/ s \in dropped[c]
    BY DEF AllBackendsServed
  <2>1. s \in Left(b)
    BY DEF Left, Arrived
  <2>2. s \in Left(c)
    BY <2>1 DEF Even
  <2> QED
    BY <2>2 DEF Left, Batched, InWrite, Arrived
<1> QED
  BY <1>1, TypeCorrect, EvenInit, TodoStep, EvenStep, PTL DEF Spec

-------------------------------------------------------------------------------
(***************************************************************************)
(* Nothing is sent twice: a sample has a number of its own and is at one   *)
(* place at a time, on its way to each backend.                            *)
(***************************************************************************)

\* No two requests hold the same sample.
OnceHeld ==
  \A p, r \in Pushers :
    pusher[p] # Idle /\ pusher[r] # Idle /\ pusher[p].sample = pusher[r].sample => p = r

\* No batch has a sample twice, nor has a backend.
OnceInside ==
  /\ \A q \in Made : IsInjective(consumer[q].batch)
  /\ \A w \in writing : IsInjective(w.batch)
  /\ \A b \in Backends : IsInjective(posted[b])

\* Samples have been numbered.
Known ==
  /\ \A s \in Held \cup Queued : s.number <= samples
  /\ \A b \in Backends : \A s \in Left(b) : s.number <= samples

\* The places of a sample on its way to b exclude each other.
Exclusive ==
  /\ Held \cap Queued = {}
  /\ \A b \in Backends :
       /\ (Held \cup Queued) \cap Left(b) = {}
       /\ Batched(b) \cap InWrite(b) = {} /\ Batched(b) \cap Arrived(b) = {}
       /\ Batched(b) \cap dropped[b] = {} /\ InWrite(b) \cap Arrived(b) = {}
       /\ InWrite(b) \cap dropped[b] = {} /\ Arrived(b) \cap dropped[b] = {}

Once ==
  OnceHeld /\ OnceQueued /\ OnceBatched /\ OnceInWrite /\ OnceInside /\ Known /\ Exclusive

\* Initially there are no samples.
LEMMA OnceInit == Init => Once
<1> SUFFICES ASSUME Init  PROVE Once
  OBVIOUS
<1>1. Made = {} /\ Held = {} /\ Queued = {}
  BY DEF Init, Held, Queued, Waiting
<1>2. \A b \in Backends : Left(b) = {}
  BY <1>1 DEF Init, Left, Batched, Taken, InWrite, Writing, Arrived, Posted, ToSet
<1>3. \A b \in Backends :
        Batched(b) = {} /\ InWrite(b) = {} /\ Arrived(b) = {} /\ dropped[b] = {}
  BY <1>2 DEF Left
<1>4. OnceHeld /\ OnceQueued /\ OnceBatched /\ OnceInWrite
  BY <1>1 DEF Init, OnceHeld, OnceQueued, OnceBatched, OnceInWrite
<1>5. OnceInside
  BY <1>1 DEF Init, OnceInside, IsInjective
<1>6. Known /\ Exclusive
  BY <1>1, <1>2, <1>3 DEF Known, Exclusive
<1> QED
  BY <1>4, <1>5, <1>6 DEF Once

\* A request that works holds a sample.
LEMMA HeldSample ==
  ASSUME TypeOK, NEW p \in Pushers, pusher[p] # Idle
  PROVE  pusher[p] \in Pushing /\ pusher[p].sample \in Held /\ pusher[p].sample \in Sample
<1>1. pusher[p] \in Pushing
  BY DEF TypeOK
<1>2. pusher[p].sample \in Sample
  BY <1>1 DEF Pushing
<1> QED
  BY <1>1, <1>2 DEF Held

\* Lookup numbers a sample.
LEMMA LookupMoves ==
  ASSUME TypeOK, NEW p \in Pushers, NEW i \in SendsFor[p], Lookup(p, i)
  PROVE  \E s \in Sample :
           /\ s.number = samples + 1 /\ samples' = samples + 1
           /\ Held' \subseteq Held \cup {s}
           /\ OnceHeld /\ s \notin Held => OnceHeld'
           /\ UNCHANGED <<list, Queued>>
<1> DEFINE s == [ident |-> i, number |-> samples + 1]
<1>1. i \in Idents
  BY PushersAssumption
<1>2. samples \in Nat /\ samples + 1 \in 1..MaxSamples
  BY BoundsAssumption DEF TypeOK, Lookup
<1>3. s \in Sample /\ s.number = samples + 1
  BY <1>1, <1>2 DEF Sample
<1>4. pusher[p] = Idle /\ samples' = samples + 1 /\ UNCHANGED list
  BY DEF Lookup, queueVars
<1>5. pusher'[p].sample = s /\ \A r \in Pushers \ {p} : pusher'[r] = pusher[r]
  BY DEF Lookup, TypeOK
<1> HIDE DEF s
<1>6. Held' \subseteq Held \cup {s}
  BY <1>5 DEF Held
<1>7. ASSUME OnceHeld, s \notin Held  PROVE OnceHeld'
  <2>1. \A r \in Pushers \ {p} : pusher[r] # Idle => pusher[r].sample # s
    BY <1>3, <1>7 DEF Held
  <2> QED
    BY <1>5, <1>7, <2>1 DEF OnceHeld
<1>8. Queued' = Queued
  BY <1>4, SamePlaces
<1> QED
  BY <1>3, <1>4, <1>6, <1>7, <1>8

\* The steps of a request before it pushes: at most it drops its sample.
LEMMA RequestMoves ==
  ASSUME TypeOK, NEW p \in Pushers, Create(p) \/ SetTs(p) \/ CheckRoom(p)
  PROVE  /\ UNCHANGED samples
         /\ Held' \subseteq Held /\ (OnceHeld => OnceHeld')
         /\ Queued' \subseteq Queued /\ (OnceQueued => OnceQueued')
<1>1. pusher[p] # Idle
  BY DEF Create, SetTs, CheckRoom, Idle
<1>2. pusher[p] \in Pushing /\ pusher[p].sample \in Sample
  BY <1>1, HeldSample
<1>3. \A r \in Pushers \ {p} : pusher'[r] = pusher[r]
  BY DEF Create, SetTs, CheckRoom, TypeOK
<1>4. pusher'[p] # Idle => pusher'[p].sample = pusher[p].sample
  BY <1>2 DEF Create, SetTs, CheckRoom, TypeOK, Pushing
<1>5. Held' \subseteq Held
  BY <1>1, <1>3, <1>4 DEF Held
<1>6. OnceHeld => OnceHeld'
  BY <1>1, <1>3, <1>4 DEF OnceHeld
<1>7. UNCHANGED samples
  BY DEF Create, SetTs, CheckRoom
<1>8. ASSUME Create(p)  PROVE Queued' \subseteq Queued /\ (OnceQueued => OnceQueued')
  <2>1. PICK c : /\ Made' = Made \cup {c} /\ c \notin Made /\ list'[c] = <<>>
                 /\ \A r \in Made : list'[r] = list[r]
    BY <1>8, CreateEffect
  <2>2. ToSet(list'[c]) = {} /\ DOMAIN list'[c] = {}
    BY <2>1 DEF ToSet
  <2>3. Queued' \subseteq Queued
    BY <2>1, <2>2 DEF Queued, Waiting
  <2>4. OnceQueued => OnceQueued'
    BY <2>1, <2>2 DEF OnceQueued
  <2> QED
    BY <2>3, <2>4
<1>9. ASSUME SetTs(p) \/ CheckRoom(p)  PROVE Queued' \subseteq Queued /\ (OnceQueued => OnceQueued')
  <2>1. UNCHANGED list
    BY <1>9 DEF SetTs, CheckRoom, queueVars
  <2> QED
    BY <2>1, SamePlaces DEF OnceQueued
<1> QED
  BY <1>5, <1>6, <1>7, <1>8, <1>9

\* PushFront: from the request to its list.
LEMMA PushMoves ==
  ASSUME TypeOK, NEW p \in Pushers, PushFront(p)
  PROVE  \E s \in Held :
           /\ UNCHANGED samples
           /\ Held' \subseteq Held /\ (OnceHeld => OnceHeld' /\ s \notin Held')
           /\ Queued' \subseteq Queued \cup {s}
           /\ OnceQueued /\ s \notin Queued => OnceQueued'
<1> DEFINE s == pusher[p].sample
<1>1. PICK q \in Made :
           /\ q = pusher[p].queue /\ pusher[p] \in Pushing /\ pusher[p] # Idle
           /\ Made' = Made
           /\ \A r \in Made \ {q} : list'[r] = list[r]
           /\ list[q] \in Seq(Sample) /\ Len(list[q]) \in Nat
           /\ DOMAIN list'[q] = 1..Len(list[q]) + 1
           /\ \A i \in 1..Len(list[q]) : list'[q][i] = list[q][i]
           /\ list'[q][Len(list[q]) + 1] = pusher[p].sample
           /\ pusher' = [pusher EXCEPT ![p] = Idle]
           /\ UNCHANGED samples
  BY PushEffect
<1>2. s \in Held /\ s \in Sample
  BY <1>1, HeldSample
<1>3. pusher'[p] = Idle /\ \A r \in Pushers \ {p} : pusher'[r] = pusher[r]
  BY <1>1 DEF TypeOK
<1>4. Held' \subseteq Held
  BY <1>3 DEF Held
<1>5. OnceHeld => OnceHeld' /\ s \notin Held'
  BY <1>1, <1>3 DEF OnceHeld, Held
<1> DEFINE m == Len(list[q])
<1>6. /\ m \in Nat /\ DOMAIN list[q] = 1..m /\ DOMAIN list'[q] = 1..m + 1
      /\ \A i \in 1..m : list'[q][i] = list[q][i]
      /\ list'[q][m + 1] = s
  BY <1>1
<1> HIDE DEF m, s
<1>7. \A i \in 1..m + 1 : i \in 1..m \/ i = m + 1
  BY <1>6
<1>8. \A r \in Made : \A i \in DOMAIN list'[r] :
        \/ i \in DOMAIN list[r] /\ list'[r][i] = list[r][i]
        \/ r = q /\ i = m + 1 /\ list'[r][i] = s
  BY <1>1, <1>6, <1>7
<1>9. Queued' \subseteq Queued \cup {s}
  <2> SUFFICES ASSUME NEW x \in Queued', x # s  PROVE x \in Queued
    OBVIOUS
  <2>1. PICK r \in Made : x \in ToSet(list'[r])
    BY <1>1 DEF Queued, Waiting
  <2>2. PICK i \in DOMAIN list'[r] : x = list'[r][i]
    BY <2>1 DEF ToSet
  <2>3. i \in DOMAIN list[r] /\ x = list[r][i]
    BY <1>8, <2>2
  <2> QED
    BY <2>3 DEF Queued, Waiting, ToSet
<1>10. ASSUME OnceQueued, s \notin Queued  PROVE OnceQueued'
  <2>1. \A r \in Made : \A i \in DOMAIN list[r] : list[r][i] # s
    BY <1>2, <1>10 DEF Queued, Waiting, ToSet
  <2> SUFFICES ASSUME NEW r \in Made, NEW t \in Made, NEW i \in DOMAIN list'[r], NEW j \in DOMAIN list'[t],
                      list'[r][i] = list'[t][j]
               PROVE  r = t /\ i = j
    BY <1>1 DEF OnceQueued
  <2>2. CASE i \in DOMAIN list[r] /\ list'[r][i] = list[r][i]
    <3>1. j \in DOMAIN list[t] /\ list'[t][j] = list[t][j]
      BY <1>8, <2>1, <2>2
    <3>2. list[r][i] = list[t][j]
      BY <2>2, <3>1
    <3> QED
      BY <1>10, <2>2, <3>1, <3>2 DEF OnceQueued
  <2>3. CASE r = q /\ i = m + 1 /\ list'[r][i] = s
    <3>1. t = q /\ j = m + 1
      BY <1>8, <2>1, <2>3
    <3> QED
      BY <2>3, <3>1
  <2> QED
    BY <1>8, <2>2, <2>3
<1>11. UNCHANGED samples
  BY <1>1
<1> QED
  BY <1>2, <1>4, <1>5, <1>9, <1>10, <1>11

\* Steps of a request leave the batches, the writes and the backends alone.
LEMMA RequestKeeps ==
  ASSUME TypeOK, NothingTodo, NEW p \in Pushers, PusherStep(p) \/ \E i \in SendsFor[p] : Lookup(p, i)
  PROVE  /\ UNCHANGED <<writing, posted, dropped>>
         /\ \A b \in Backends : /\ Batched(b)' = Batched(b) /\ InWrite(b)' = InWrite(b)
                                /\ Arrived(b)' = Arrived(b) /\ Left(b)' = Left(b)
         /\ OnceInWrite => OnceInWrite'
         /\ OnceBatched => OnceBatched'
         /\ OnceInside => OnceInside'
<1>1. /\ UNCHANGED <<writing, posted, dropped>>
      /\ \A b \in Backends : Batched(b)' = Batched(b) /\ InWrite(b)' = InWrite(b) /\ Arrived(b)' = Arrived(b)
  BY RequestSteps
<1>2. \A b \in Backends : Left(b)' = Left(b)
  BY <1>1 DEF Left
<1>3. OnceInWrite => OnceInWrite'
  BY <1>1 DEF OnceInWrite
<1>4. ASSUME Create(p)
      PROVE  (OnceBatched => OnceBatched') /\ (OnceInside => OnceInside')
  <2>1. PICK c : /\ Made' = Made \cup {c} /\ c \notin Made /\ consumer'[c] = Looping("check")
                 /\ \A r \in Made : consumer'[r] = consumer[r]
    BY <1>4, CreateEffect
  <2>2. consumer'[c].todo = {} /\ consumer'[c].batch = <<>>
    BY <2>1 DEF Looping
  <2>3. OnceBatched => OnceBatched'
    BY <2>1, <2>2 DEF OnceBatched
  <2>4. IsInjective(<<>>)
    BY DEF IsInjective
  <2>5. OnceInside => OnceInside'
    BY <1>1, <2>1, <2>2, <2>4 DEF OnceInside
  <2> QED
    BY <2>3, <2>5
<1>5. ASSUME SetTs(p) \/ CheckRoom(p) \/ PushFront(p) \/ \E i \in SendsFor[p] : Lookup(p, i)
      PROVE  (OnceBatched => OnceBatched') /\ (OnceInside => OnceInside')
  <2>1. UNCHANGED consumer /\ Made' = Made
    BY <1>5 DEF Lookup, SetTs, CheckRoom, PushFront, queueVars, TypeOK
  <2> QED
    BY <1>1, <2>1 DEF OnceBatched, OnceInside
<1>6. (OnceBatched => OnceBatched') /\ (OnceInside => OnceInside')
  BY <1>4, <1>5 DEF PusherStep
<1> QED
  BY <1>1, <1>2, <1>3, <1>6

\* A request numbers its sample anew, and hands it to one list.
LEMMA RequestOnce ==
  ASSUME TypeOK, NothingTodo, Once, NEW p \in Pushers, PusherStep(p) \/ \E i \in SendsFor[p] : Lookup(p, i)
  PROVE  Once'
<1> USE DEF Once
<1>1. /\ UNCHANGED dropped
      /\ \A b \in Backends : /\ Batched(b)' = Batched(b) /\ InWrite(b)' = InWrite(b)
                             /\ Arrived(b)' = Arrived(b) /\ Left(b)' = Left(b)
      /\ OnceInWrite' /\ OnceBatched' /\ OnceInside'
  BY RequestKeeps
<1>2. /\ samples \in Nat /\ \A s \in Sample : s.number \in Nat
      /\ Held \subseteq Sample /\ Queued \subseteq Sample /\ \A b \in Backends : Left(b) \subseteq Sample
  <2>1. \A s \in Sample : s.number \in Nat
    BY DEF Sample
  <2>2. Held \subseteq Sample /\ Queued \subseteq Sample
    BY DEF Held, Queued
  <2>3. \A b \in Backends : Left(b) \subseteq Sample
    BY DEF Left, Batched, InWrite, Arrived, TypeOK
  <2> QED
    BY <2>1, <2>2, <2>3 DEF TypeOK
<1>3. ASSUME NEW i \in SendsFor[p], Lookup(p, i)
      PROVE  OnceHeld' /\ OnceQueued' /\ Known' /\ Exclusive'
  <2>1. PICK s \in Sample :
           /\ s.number = samples + 1 /\ samples' = samples + 1
           /\ Held' \subseteq Held \cup {s}
           /\ OnceHeld /\ s \notin Held => OnceHeld'
           /\ UNCHANGED <<list, Queued>>
    BY <1>3, LookupMoves
  <2>2. s \notin Held \cup Queued /\ \A b \in Backends : s \notin Left(b)
    BY <1>2, <2>1 DEF Known
  <2>3. OnceHeld' /\ OnceQueued'
    BY <2>1, <2>2 DEF OnceQueued
  <2>4. Known'
    <3>1. \A x \in Held' \cup Queued' : x.number <= samples'
      BY <1>2, <2>1 DEF Known
    <3>2. \A b \in Backends : \A x \in Left(b)' : x.number <= samples'
      BY <1>1, <1>2, <2>1 DEF Known
    <3> QED
      BY <3>1, <3>2 DEF Known
  <2>5. Exclusive'
    BY <1>1, <2>1, <2>2 DEF Exclusive
  <2> QED
    BY <2>3, <2>4, <2>5
<1>4. ASSUME Create(p) \/ SetTs(p) \/ CheckRoom(p)
      PROVE  OnceHeld' /\ OnceQueued' /\ Known' /\ Exclusive'
  <2>1. /\ UNCHANGED samples
        /\ Held' \subseteq Held /\ OnceHeld'
        /\ Queued' \subseteq Queued /\ OnceQueued'
    BY <1>4, RequestMoves
  <2> QED
    BY <1>1, <2>1 DEF Known, Exclusive
<1>5. ASSUME PushFront(p)
      PROVE  OnceHeld' /\ OnceQueued' /\ Known' /\ Exclusive'
  <2>1. PICK s \in Held :
           /\ UNCHANGED samples
           /\ Held' \subseteq Held /\ (OnceHeld => OnceHeld' /\ s \notin Held')
           /\ Queued' \subseteq Queued \cup {s}
           /\ OnceQueued /\ s \notin Queued => OnceQueued'
    BY <1>5, PushMoves
  <2>2. s \notin Queued /\ \A b \in Backends : s \notin Left(b)
    BY DEF Exclusive
  <2> QED
    BY <1>1, <2>1, <2>2 DEF Known, Exclusive
<1> QED
  BY <1>1, <1>3, <1>4, <1>5 DEF PusherStep

\* PopBack: the batch is part of a list, where nothing is twice.
LEMMA PopOnce ==
  ASSUME TypeOK, NothingTodo, Once, NEW q \in Made, PopBack(q)
  PROVE  Once'
<1> USE DEF Once
<1>1. PICK B \in SUBSET Queued :
           /\ \A b \in Backends : Batched(b)' = Batched(b) \cup B
           /\ Queued' \subseteq Queued
           /\ OnceQueued /\ Backends # {} => Queued' \cap B = {}
           /\ UNCHANGED <<Held, posted, dropped, writing, samples, pusher>>
           /\ \A b \in Backends : InWrite(b)' = InWrite(b) /\ Arrived(b)' = Arrived(b)
  BY PopMoves
<1>2. PICK n \in 0..Len(list[q]) :
           /\ list[q] \in Seq(Sample) /\ Len(list[q]) \in Nat
           /\ Made' = Made
           /\ \A r \in Made \ {q} : list'[r] = list[r] /\ consumer'[r] = consumer[r]
           /\ list'[q] \in Seq(Sample) /\ Len(list'[q]) = Len(list[q]) - n
           /\ DOMAIN list'[q] = 1..Len(list[q]) - n
           /\ \A i \in 1..Len(list[q]) - n : list'[q][i] = list[q][i + n]
           /\ \/ consumer'[q] = Looping("check") /\ (n = 0 \/ Backends = {})
              \/ /\ n > 0 /\ consumer'[q].step = "dispatch" /\ consumer'[q].todo = Backends
                 /\ consumer'[q].batch \in Seq(Sample) /\ DOMAIN consumer'[q].batch = 1..n
                 /\ \A i \in 1..n : consumer'[q].batch[i] = list[q][i]
  BY PopEffect
<1> DEFINE m == Len(list[q])
<1>3. /\ m \in Nat /\ n \in 0..m /\ DOMAIN list[q] = 1..m /\ DOMAIN list'[q] = 1..m - n
      /\ \A i \in 1..m - n : list'[q][i] = list[q][i + n]
  BY <1>2
<1> HIDE DEF m
<1>4. \A i \in 1..m - n : i + n \in 1..m
  BY <1>3
<1>5. \A i \in 1..n : i \in 1..m
  BY <1>3
<1>6. OnceHeld' /\ OnceInWrite'
  BY <1>1 DEF OnceHeld, OnceInWrite
<1>7. OnceQueued'
  <2> DEFINE shift(r, i) == IF r = q THEN i + n ELSE i
  <2>1. \A r \in Made : \A i \in DOMAIN list'[r] :
          shift(r, i) \in DOMAIN list[r] /\ list'[r][i] = list[r][shift(r, i)]
    BY <1>2, <1>3, <1>4
  <2> SUFFICES ASSUME NEW r \in Made, NEW t \in Made, NEW i \in DOMAIN list'[r], NEW j \in DOMAIN list'[t],
                      list'[r][i] = list'[t][j]
               PROVE  r = t /\ i = j
    BY <1>2 DEF OnceQueued
  <2>2. r = t /\ shift(r, i) = shift(t, j)
    <3>1. /\ shift(r, i) \in DOMAIN list[r] /\ shift(t, j) \in DOMAIN list[t]
          /\ list[r][shift(r, i)] = list[t][shift(t, j)]
      BY <2>1
    <3> HIDE DEF shift
    <3> QED
      BY <3>1 DEF OnceQueued
  <2>3. r # q => i = j
    BY <2>2
  <2>4. r = q => i \in 1..m - n /\ j \in 1..m - n /\ i + n = j + n
    BY <1>3, <2>2
  <2>5. r = q => i = j
    BY <1>3, <2>4
  <2> QED
    BY <2>2, <2>3, <2>5
<1>8. \A b \in Backends : B \cap Batched(b) = {}
  BY DEF Exclusive, Left
<1>9. OnceBatched' /\ \A r \in Made : IsInjective(consumer'[r].batch)
  <2>1. CASE consumer'[q] = Looping("check")
    <3>1. consumer'[q].todo = {} /\ consumer'[q].batch = <<>>
      BY <2>1 DEF Looping
    <3>2. OnceBatched'
      BY <1>2, <3>1 DEF OnceBatched
    <3>3. IsInjective(<<>>)
      BY DEF IsInjective
    <3> QED
      BY <1>2, <3>1, <3>2, <3>3 DEF OnceInside
  <2>2. CASE /\ n > 0 /\ consumer'[q].todo = Backends
             /\ consumer'[q].batch \in Seq(Sample) /\ DOMAIN consumer'[q].batch = 1..n
             /\ \A i \in 1..n : consumer'[q].batch[i] = list[q][i]
    <3>1. \A b \in Backends : \A r \in Made \ {q} :
            b \in consumer[r].todo => ToSet(consumer'[q].batch) \cap ToSet(consumer[r].batch) = {}
      <4> SUFFICES ASSUME NEW b \in Backends, NEW r \in Made \ {q}, b \in consumer[r].todo,
                          NEW s \in ToSet(consumer'[q].batch), s \in ToSet(consumer[r].batch)
                   PROVE  FALSE
        OBVIOUS
      <4>1. PICK i \in 1..n : s = list[q][i]
        BY <2>2 DEF ToSet
      <4>2. i \in DOMAIN list[q]
        BY <1>3, <1>5
      <4>3. s \in Sample
        BY <1>2, <4>1, <4>2
      <4>4. s \in Queued
        BY <4>1, <4>2, <4>3 DEF Queued, Waiting, ToSet
      <4>5. s \in Left(b)
        BY <4>3 DEF Left, Batched, Taken
      <4> QED
        BY <4>4, <4>5 DEF Exclusive
    <3>2. OnceBatched'
      <4> SUFFICES ASSUME NEW b \in Backends, NEW r \in Made, NEW t \in Made,
                          b \in consumer'[r].todo, b \in consumer'[t].todo, r # t
                   PROVE  ToSet(consumer'[r].batch) \cap ToSet(consumer'[t].batch) = {}
        BY <1>2 DEF OnceBatched
      <4>1. CASE r = q
        BY <1>2, <3>1, <4>1
      <4>2. CASE t = q
        BY <1>2, <3>1, <4>2
      <4>3. CASE r # q /\ t # q
        BY <1>2, <4>3 DEF OnceBatched
      <4> QED
        BY <4>1, <4>2, <4>3
    <3>3. IsInjective(consumer'[q].batch)
      BY <1>3, <1>5, <2>2 DEF OnceQueued, IsInjective
    <3> QED
      BY <1>2, <3>2, <3>3 DEF OnceInside
  <2> QED
    BY <1>2, <2>1, <2>2
<1>10. OnceInside'
  BY <1>1, <1>2, <1>9 DEF OnceInside
<1>11. Known'
  BY <1>1 DEF Known, Left
<1>12. Exclusive'
  <2>1. CASE Backends = {}
    BY <1>1, <2>1 DEF Exclusive
  <2>2. CASE Backends # {}
    <3>1. Queued' \cap B = {} /\ Held' = Held /\ dropped' = dropped
      BY <1>1, <2>2
    <3> SUFFICES ASSUME NEW b \in Backends
                 PROVE  /\ (Held' \cup Queued') \cap Left(b)' = {}
                        /\ Batched(b)' \cap InWrite(b)' = {} /\ Batched(b)' \cap Arrived(b)' = {}
                        /\ Batched(b)' \cap dropped'[b] = {} /\ InWrite(b)' \cap Arrived(b)' = {}
                        /\ InWrite(b)' \cap dropped'[b] = {} /\ Arrived(b)' \cap dropped'[b] = {}
      BY <1>1 DEF Exclusive
    <3>2. /\ Batched(b)' = Batched(b) \cup B /\ InWrite(b)' = InWrite(b) /\ Arrived(b)' = Arrived(b)
          /\ B \subseteq Queued /\ Queued' \subseteq Queued
      BY <1>1
    <3>3. Left(b)' = Left(b) \cup B
      BY <3>1, <3>2 DEF Left
    <3>4. B \cap InWrite(b) = {} /\ B \cap Arrived(b) = {} /\ B \cap dropped[b] = {} /\ Held \cap B = {}
      BY <3>2 DEF Exclusive, Left
    <3> QED
      BY <3>1, <3>2, <3>3, <3>4 DEF Exclusive
  <2> QED
    BY <2>1, <2>2
<1> QED
  BY <1>6, <1>7, <1>9, <1>10, <1>11, <1>12

\* Steps that only close queues, tell the time or look at closeCh.
LEMMA QuietOnce ==
  ASSUME Once, UNCHANGED <<list, pusher, writing, posted, dropped, samples>>,
         \A r \in Made : consumer'[r].todo = consumer[r].todo /\ consumer'[r].batch = consumer[r].batch
  PROVE  Once'
<1> USE DEF Once
<1>1. /\ UNCHANGED <<Held, Queued>>
      /\ \A b \in Backends : InWrite(b)' = InWrite(b) /\ Arrived(b)' = Arrived(b)
  BY SamePlaces
<1>2. \A b \in Backends : Batched(b)' = Batched(b)
  BY DEF Batched, Taken
<1>3. \A b \in Backends : Left(b)' = Left(b)
  BY <1>1, <1>2 DEF Left
<1>4. OnceHeld' /\ OnceQueued' /\ OnceInWrite'
  BY DEF OnceHeld, OnceQueued, OnceInWrite
<1>5. OnceBatched' /\ OnceInside'
  BY DEF OnceBatched, OnceInside
<1>6. Known' /\ Exclusive'
  BY <1>1, <1>2, <1>3 DEF Known, Exclusive
<1> QED
  BY <1>4, <1>5, <1>6

\* A Write takes over what was in the batch for its backend, which the batch gives up.
LEMMA DispatchOnce ==
  ASSUME TypeOK, Once, NEW q \in Made, NEW b \in Backends, Dispatch(q, b)
  PROVE  Once'
<1> USE DEF Once
<1>1. PICK B \in SUBSET Batched(b) :
           /\ Batched(b) \ B \subseteq Batched(b)' /\ Batched(b)' \subseteq Batched(b)
           /\ OnceBatched => Batched(b)' \cap B = {}
           /\ InWrite(b)' = InWrite(b) \cup B
           /\ \A c \in Backends \ {b} : Batched(c)' = Batched(c) /\ InWrite(c)' = InWrite(c)
           /\ \A c \in Backends : Arrived(c)' = Arrived(c)
           /\ UNCHANGED <<Held, Queued, posted, dropped, samples, pusher, list>>
  BY DispatchMoves
<1> DEFINE w == [backend |-> b, batch |-> consumer[q].batch]
<1>2. /\ b \in consumer[q].todo /\ consumer[q].batch \in Seq(Sample)
      /\ \A r \in Made \ {q} : consumer'[r] = consumer[r]
      /\ consumer'[q].todo = consumer[q].todo \ {b}
      /\ \/ consumer'[q] = Looping("check")
         \/ consumer'[q].step = "dispatch" /\ consumer'[q].batch = consumer[q].batch
      /\ writing' = writing \cup {w}
  BY DispatchEffect
<1>3. OnceHeld' /\ OnceQueued'
  BY <1>1 DEF OnceHeld, OnceQueued
<1>4. /\ \A r \in Made : consumer'[r].todo \subseteq consumer[r].todo
      /\ \A r \in Made : consumer'[r].todo = {} \/ consumer'[r].batch = consumer[r].batch
      /\ \A r \in Made : consumer'[r].batch = <<>> \/ consumer'[r].batch = consumer[r].batch
  BY <1>2 DEF Looping
<1>5. OnceBatched'
  BY <1>1, <1>4 DEF OnceBatched
<1>6. w.backend = b /\ w.batch = consumer[q].batch
  OBVIOUS
<1> HIDE DEF w
<1>7. OnceInWrite'
  <2>1. \A v \in writing : v.backend = b => ToSet(v.batch) \cap ToSet(w.batch) = {}
    <3> SUFFICES ASSUME NEW v \in writing, v.backend = b, NEW s \in ToSet(v.batch), s \in ToSet(w.batch)
                 PROVE  FALSE
      OBVIOUS
    <3>1. s \in Sample
      BY <1>2, <1>6 DEF ToSet
    <3>2. s \in InWrite(b)
      BY <3>1 DEF InWrite, Writing
    <3>3. s \in Batched(b)
      BY <1>2, <1>6, <3>1 DEF Batched, Taken
    <3> QED
      BY <3>2, <3>3 DEF Exclusive
  <2> SUFFICES ASSUME NEW u \in writing \cup {w}, NEW v \in writing \cup {w}, v # u, v.backend = u.backend
               PROVE  ToSet(v.batch) \cap ToSet(u.batch) = {}
    BY <1>2 DEF OnceInWrite
  <2>2. CASE u \in writing /\ v \in writing
    BY <2>2 DEF OnceInWrite
  <2>3. CASE u = w /\ v \in writing
    BY <1>6, <2>1, <2>3
  <2>4. CASE v = w /\ u \in writing
    BY <1>6, <2>1, <2>4
  <2> QED
    BY <2>2, <2>3, <2>4
<1>8. OnceInside'
  <2>1. IsInjective(<<>>)
    BY DEF IsInjective
  <2>2. \A r \in Made : IsInjective(consumer'[r].batch)
    BY <1>4, <2>1 DEF OnceInside
  <2>3. \A v \in writing' : IsInjective(v.batch)
    BY <1>2, <1>6 DEF OnceInside
  <2> QED
    BY <1>1, <2>2, <2>3 DEF OnceInside
<1>9. \A c \in Backends : Left(c)' \subseteq Left(c)
  BY <1>1 DEF Left
<1>10. Known'
  BY <1>1, <1>9 DEF Known
<1>11. Exclusive'
  <2>1. ASSUME NEW c \in Backends
        PROVE  /\ (Held' \cup Queued') \cap Left(c)' = {}
               /\ Batched(c)' \cap InWrite(c)' = {} /\ Batched(c)' \cap Arrived(c)' = {}
               /\ Batched(c)' \cap dropped'[c] = {} /\ InWrite(c)' \cap Arrived(c)' = {}
               /\ InWrite(c)' \cap dropped'[c] = {} /\ Arrived(c)' \cap dropped'[c] = {}
    <3>1. (Held' \cup Queued') \cap Left(c)' = {}
      BY <1>1, <1>9 DEF Exclusive
    <3>2. CASE c = b
      BY <1>1, <3>1, <3>2 DEF Exclusive
    <3>3. CASE c # b
      BY <1>1, <3>1, <3>3 DEF Exclusive
    <3> QED
      BY <3>2, <3>3
  <2> QED
    BY <1>1, <2>1 DEF Exclusive
<1> QED
  BY <1>3, <1>5, <1>7, <1>8, <1>10, <1>11

\* A backend gets, or loses, what the Write had, and the Write is gone.
LEMMA WriteOnce ==
  ASSUME TypeOK, Once, NEW w \in writing, Post(w) \/ GiveUp(w)
  PROVE  Once'
<1> USE DEF Once
<1> DEFINE b == w.backend
           B == ToSet(w.batch)
<1>1. /\ b \in Backends /\ B \subseteq InWrite(b)
      /\ InWrite(b)' \subseteq InWrite(b)
      /\ OnceInWrite => InWrite(b)' \cap B = {}
      /\ \/ Arrived(b)' = Arrived(b) \cup B /\ dropped'[b] = dropped[b]
         \/ Arrived(b)' = Arrived(b) /\ dropped'[b] = dropped[b] \cup B
      /\ \A c \in Backends \ {b} :
           InWrite(c)' = InWrite(c) /\ Arrived(c)' = Arrived(c) /\ dropped'[c] = dropped[c]
      /\ \A c \in Backends : Batched(c)' = Batched(c)
      /\ UNCHANGED <<Held, Queued, consumer, samples, pusher, list>>
  BY WriteMoves
<1>2. writing' = writing \ {w}
  BY DEF Post, GiveUp, Release
<1>0. UNCHANGED <<consumer, pusher, list>>
  BY <1>1
<1>3. OnceHeld' /\ OnceQueued' /\ OnceBatched' /\ OnceInWrite'
  <2>1. OnceHeld'
    BY <1>0 DEF OnceHeld
  <2>2. OnceQueued'
    BY <1>0 DEF OnceQueued
  <2>3. OnceBatched'
    BY <1>0 DEF OnceBatched
  <2>4. OnceInWrite'
    BY <1>2 DEF OnceInWrite
  <2> QED
    BY <2>1, <2>2, <2>3, <2>4
<1>4. \A c \in Backends : IsInjective(posted'[c])
  <2>1. ASSUME GiveUp(w)  PROVE \A c \in Backends : IsInjective(posted'[c])
    BY <2>1 DEF GiveUp, OnceInside
  <2>2. ASSUME Post(w)  PROVE \A c \in Backends : IsInjective(posted'[c])
    <3> DEFINE m == Len(posted[b])
               n == Len(w.batch)
    <3>1. /\ w.batch \in Seq(Sample) /\ n \in Nat /\ posted[b] \in Seq(Sample) /\ m \in Nat
          /\ \A c \in Backends \ {b} : posted'[c] = posted[c]
          /\ DOMAIN posted'[b] = 1..m + n
          /\ \A i \in 1..m : posted'[b][i] = posted[b][i]
          /\ \A i \in 1..n : posted'[b][m + i] = w.batch[i]
      BY <2>2, PostEffect
    <3>2. DOMAIN posted[b] = 1..m /\ DOMAIN w.batch = 1..n
      BY <3>1
    <3>3. IsInjective(posted[b]) /\ IsInjective(w.batch)
      BY <1>1 DEF OnceInside
    <3>4. \A i \in 1..m, j \in 1..n : posted[b][i] # w.batch[j]
      <4> SUFFICES ASSUME NEW i \in 1..m, NEW j \in 1..n, posted[b][i] = w.batch[j]  PROVE FALSE
        OBVIOUS
      <4>1. posted[b][i] \in Arrived(b)
        BY <3>1, <3>2 DEF Arrived, Posted, ToSet
      <4>2. w.batch[j] \in B
        BY <3>2 DEF ToSet
      <4> QED
        BY <1>1, <4>1, <4>2 DEF Exclusive
    <3> HIDE DEF m, n
    <3>5. \A i \in 1..m + n : i \in 1..m \/ (i - m \in 1..n /\ m + (i - m) = i)
      BY <3>1
    <3>6. IsInjective(posted'[b])
      <4> SUFFICES ASSUME NEW i \in 1..m + n, NEW j \in 1..m + n, posted'[b][i] = posted'[b][j]
                   PROVE  i = j
        BY <3>1 DEF IsInjective
      <4>1. \A k \in 1..m + n : \/ k \in 1..m /\ posted'[b][k] = posted[b][k]
                                \/ k - m \in 1..n /\ posted'[b][k] = w.batch[k - m]
        <5> TAKE k \in 1..m + n
        <5>1. CASE k \in 1..m
          BY <3>1, <5>1
        <5>2. CASE k - m \in 1..n /\ m + (k - m) = k
          <6>1. posted'[b][m + (k - m)] = w.batch[k - m]
            BY <3>1, <5>2
          <6> QED
            BY <5>2, <6>1
        <5> QED
          BY <3>5, <5>1, <5>2
      <4>2. CASE i \in 1..m /\ posted'[b][i] = posted[b][i]
        <5>1. j \in 1..m /\ posted'[b][j] = posted[b][j]
          BY <3>4, <4>1, <4>2
        <5> QED
          BY <3>2, <3>3, <4>2, <5>1 DEF IsInjective
      <4>3. CASE i - m \in 1..n /\ posted'[b][i] = w.batch[i - m]
        <5>1. j - m \in 1..n /\ posted'[b][j] = w.batch[j - m]
          BY <3>4, <4>1, <4>3
        <5>2. i - m = j - m
          BY <3>2, <3>3, <4>3, <5>1 DEF IsInjective
        <5> QED
          BY <3>1, <5>2
      <4> QED
        BY <4>1, <4>2, <4>3
    <3> QED
      BY <3>1, <3>6 DEF OnceInside
  <2> QED
    BY <2>1, <2>2
<1>5. OnceInside'
  BY <1>1, <1>2, <1>4 DEF OnceInside
<1> HIDE DEF b, B
<1>6. \A c \in Backends : Left(c)' \subseteq Left(c)
  BY <1>1 DEF Left
<1>7. Known'
  BY <1>1, <1>6 DEF Known
<1>8. ASSUME NEW c \in Backends
      PROVE  /\ (Held' \cup Queued') \cap Left(c)' = {}
             /\ Batched(c)' \cap InWrite(c)' = {} /\ Batched(c)' \cap Arrived(c)' = {}
             /\ Batched(c)' \cap dropped'[c] = {} /\ InWrite(c)' \cap Arrived(c)' = {}
             /\ InWrite(c)' \cap dropped'[c] = {} /\ Arrived(c)' \cap dropped'[c] = {}
  <2>1. (Held' \cup Queued') \cap Left(c)' = {}
    BY <1>1, <1>6 DEF Exclusive
  <2>2. CASE c = b
    BY <1>1, <2>1, <2>2 DEF Exclusive
  <2>3. CASE c # b
    BY <1>1, <2>1, <2>3 DEF Exclusive
  <2> QED
    BY <2>2, <2>3
<1>9. Exclusive'
  BY <1>1, <1>8 DEF Exclusive
<1> QED
  BY <1>3, <1>5, <1>7, <1>9

\* Every step keeps a sample at one place for each backend.
LEMMA OnceStep == TypeOK /\ NothingTodo /\ Once /\ [Next]_vars => Once'
<1> SUFFICES ASSUME TypeOK, NothingTodo, Once, [Next]_vars  PROVE Once'
  OBVIOUS
<1>1. ASSUME NEW q \in Made, CheckClosed(q)  PROVE Once'
  <2>1. /\ UNCHANGED <<list, pusher, writing, posted, dropped, samples>>
        /\ \A r \in Made : consumer'[r].todo = consumer[r].todo /\ consumer'[r].batch = consumer[r].batch
    BY <1>1, CheckEffect
  <2> QED
    BY <2>1, QuietOnce
<1>2. ASSUME CleanExpQueue \/ Tick \/ UNCHANGED vars  PROVE Once'
  <2>1. UNCHANGED <<list, pusher, writing, posted, dropped, samples, consumer>>
    BY <1>2 DEF CleanExpQueue, Tick, vars, queueVars, backendVars
  <2> QED
    BY <2>1, QuietOnce
<1>3. ASSUME NEW p \in Pushers, (\E i \in SendsFor[p] : Lookup(p, i)) \/ PusherStep(p)  PROVE Once'
  BY <1>3, RequestOnce
<1> QED
  BY <1>1, <1>2, <1>3, PopOnce, DispatchOnce, WriteOnce DEF Next, ConsumerStep, WriteStep

\* A set with at most one element has at most one element.
LEMMA AtMostOne ==
  ASSUME NEW S, \A x, y \in S : x = y
  PROVE  Cardinality(S) <= 1
<1>1. CASE S = {}
  BY <1>1, FS_EmptySet
<1>2. CASE S # {}
  <2>1. PICK x \in S : S = {x}
    BY <1>2
  <2> QED
    BY <2>1, FS_Singleton
<1> QED
  BY <1>1, <1>2

\* No sample is in two lists, in two batches, being written twice, or posted twice
\* to a backend, nor in two of these places at once, for any number of requests,
\* consumers and writes that interleave with the cleaner.
THEOREM NothingIsSentTwice == Spec => []NeverTwice
<1>1. Once => NeverTwice
  <2> SUFFICES ASSUME Once, NEW b \in Backends
               PROVE  /\ IsInjective(posted[b])
                      /\ \A s \in Sample :
                           Cardinality({ place \in 1..5 :
                               \/ place = 1 /\ Waiting(s)
                               \/ place = 2 /\ Taken(s, b)
                               \/ place = 3 /\ Writing(s, b)
                               \/ place = 4 /\ Posted(s, b)
                               \/ place = 5 /\ s \in dropped[b] }) <= 1
    BY DEF NeverTwice
  <2>1. IsInjective(posted[b])
    BY DEF Once, OnceInside
  <2>2. ASSUME NEW s \in Sample
        PROVE  Cardinality({ place \in 1..5 :
                               \/ place = 1 /\ Waiting(s)
                               \/ place = 2 /\ Taken(s, b)
                               \/ place = 3 /\ Writing(s, b)
                               \/ place = 4 /\ Posted(s, b)
                               \/ place = 5 /\ s \in dropped[b] }) <= 1
    <3> DEFINE places == { place \in 1..5 :
                               \/ place = 1 /\ s \in Queued
                               \/ place = 2 /\ s \in Batched(b)
                               \/ place = 3 /\ s \in InWrite(b)
                               \/ place = 4 /\ s \in Arrived(b)
                               \/ place = 5 /\ s \in dropped[b] }
    <3>1. /\ ~(s \in Queued /\ (s \in Batched(b) \/ s \in InWrite(b) \/ s \in Arrived(b) \/ s \in dropped[b]))
          /\ ~(s \in Batched(b) /\ (s \in InWrite(b) \/ s \in Arrived(b) \/ s \in dropped[b]))
          /\ ~(s \in InWrite(b) /\ (s \in Arrived(b) \/ s \in dropped[b]))
          /\ ~(s \in Arrived(b) /\ s \in dropped[b])
      BY DEF Once, Exclusive, Left
    <3>2. \A x, y \in places : x = y
      BY <3>1
    <3>3. Cardinality(places) <= 1
      <4> HIDE DEF places
      <4> QED
        BY <3>2, AtMostOne
    <3> QED
      BY <3>3 DEF Queued, Batched, InWrite, Arrived
  <2> QED
    BY <2>1, <2>2
<1> QED
  BY <1>1, TypeCorrect, EvenInit, TodoStep, OnceInit, OnceStep, PTL DEF Spec

-------------------------------------------------------------------------------
(***************************************************************************)
(* The order in which a backend gets the samples of an ident.  Nothing     *)
(* overtakes: what is further on its way was numbered earlier.  The        *)
(* samples of an ident are all in one queue, and with one place in the     *)
(* semaphore there is one Write at a time.                                 *)
(***************************************************************************)

Before(s, t) == s.ident = t.ident => s.number < t.number
Ahead(S, T) == \A s \in S, t \in T : Before(s, t)
Sorted(batch) == \A m, n \in DOMAIN batch : m < n => Before(batch[m], batch[n])

Past(b) == Arrived(b) \cup InWrite(b) \cup Batched(b)

\* The samples of an ident are where ws.queues sends the next of them.
Homes ==
  /\ \A q \in Made : \A i \in DOMAIN list[q] : registered[list[q][i].ident] = q
  /\ \A q \in Made : \A i \in DOMAIN consumer[q].batch : registered[consumer[q].batch[i].ident] = q
  /\ \A p \in Pushers : pusher[p] # Idle =>
       /\ pusher[p].sample.ident \in SendsFor[p]
       /\ pusher[p].step # "create" => registered[pusher[p].sample.ident] = pusher[p].queue

AllSorted ==
  /\ \A q \in Made : Sorted(list[q]) /\ Sorted(consumer[q].batch)
  /\ \A w \in writing : Sorted(w.batch)
  /\ \A b \in Backends : Sorted(posted[b])

NoOvertaking ==
  /\ Ahead(Queued, Held)
  /\ \A b \in Backends :
       /\ Ahead(Arrived(b), InWrite(b))
       /\ Ahead(Arrived(b) \cup InWrite(b), Batched(b))
       /\ Ahead(Past(b), Queued)
       /\ Ahead(Past(b), Held)

InOrder == Homes /\ AllSorted /\ NoOvertaking

\* Initially there are no samples.
LEMMA OrderInit == Init => InOrder
<1> SUFFICES ASSUME Init  PROVE InOrder
  OBVIOUS
<1>1. Made = {} /\ Held = {} /\ Queued = {} /\ writing = {}
  BY DEF Init, Held, Queued, Waiting
<1>2. \A b \in Backends : Past(b) = {} /\ posted[b] = <<>>
  BY <1>1 DEF Init, Past, Batched, Taken, InWrite, Writing, Arrived, Posted, ToSet
<1>3. Homes
  BY <1>1 DEF Homes, Init
<1>4. AllSorted
  BY <1>1, <1>2 DEF AllSorted, Sorted
<1>5. NoOvertaking
  BY <1>1, <1>2 DEF NoOvertaking, Ahead, Past
<1> QED
  BY <1>3, <1>4, <1>5 DEF InOrder

\* With one place in the semaphore there is at most one Write.
LEMMA OneWrite ==
  ASSUME WriteConcurrency = 1, TypeOK, IsFiniteSet(writing)
  PROVE  /\ \A v, w \in writing : v = w
         /\ MayAcquire => writing = {}
<1>1. Cardinality(writing) \in Nat /\ Cardinality(writing) <= 1
  BY FS_CardinalityType DEF TypeOK
<1>2. ASSUME NEW v \in writing, NEW w \in writing, v # w  PROVE FALSE
  <2>1. Cardinality({v}) = 1 /\ IsFiniteSet({v})
    BY FS_Singleton
  <2>2. Cardinality({v} \cup {w}) = 2
    BY <1>2, <2>1, FS_AddElement
  <2>3. {v} \cup {w} \subseteq writing
    OBVIOUS
  <2>4. Cardinality({v} \cup {w}) <= Cardinality(writing)
    BY <2>3, FS_Subset
  <2> QED
    BY <1>1, <2>2, <2>4
<1>3. ASSUME MayAcquire  PROVE writing = {}
  <2>1. Cardinality(writing) = 0
    BY <1>1, <1>3 DEF MayAcquire
  <2> QED
    BY <2>1, FS_EmptySet
<1> QED
  BY <1>2, <1>3

\* The samples of a place, and the places they come from.
LEMMA PlaceSamples ==
  ASSUME TypeOK
  PROVE  /\ \A q \in Made : \A i \in DOMAIN list[q] : list[q][i] \in Queued /\ list[q][i] \in Sample
         /\ \A s \in Queued : \E q \in Made : \E i \in DOMAIN list[q] : s = list[q][i]
         /\ \A b \in Backends : \A s \in Batched(b) :
              \E q \in Made : b \in consumer[q].todo /\ \E i \in DOMAIN consumer[q].batch : s = consumer[q].batch[i]
         /\ \A s \in Held : s \in Sample /\ \E p \in Pushers : pusher[p] # Idle /\ s = pusher[p].sample
         /\ \A b \in Backends : Past(b) \subseteq Sample
<1>1. ASSUME NEW q \in Made, NEW i \in DOMAIN list[q]
      PROVE  list[q][i] \in Queued /\ list[q][i] \in Sample
  <2>1. list[q] \in Seq(Sample)
    BY DEF TypeOK
  <2>2. list[q][i] \in Sample
    BY <2>1
  <2> QED
    BY <2>2 DEF Queued, Waiting, ToSet
<1>2. \A s \in Queued : \E q \in Made : \E i \in DOMAIN list[q] : s = list[q][i]
  BY DEF Queued, Waiting, ToSet
<1>3. \A b \in Backends : \A s \in Batched(b) :
        \E q \in Made : b \in consumer[q].todo /\ \E i \in DOMAIN consumer[q].batch : s = consumer[q].batch[i]
  BY DEF Batched, Taken, ToSet
<1>4. \A s \in Held : s \in Sample /\ \E p \in Pushers : pusher[p] # Idle /\ s = pusher[p].sample
  BY DEF Held
<1>5. \A b \in Backends : Past(b) \subseteq Sample
  BY DEF Past, Arrived, InWrite, Batched
<1> QED
  BY <1>1, <1>2, <1>3, <1>4, <1>5

\* Steps that only look at closeCh or tell the time.
LEMMA QuietOrder ==
  ASSUME InOrder, UNCHANGED <<registered, list, pusher, writing, posted>>,
         \A r \in Made : consumer'[r].todo = consumer[r].todo /\ consumer'[r].batch = consumer[r].batch
  PROVE  InOrder'
<1>1. /\ UNCHANGED <<Held, Queued>>
      /\ \A b \in Backends : InWrite(b)' = InWrite(b) /\ Arrived(b)' = Arrived(b)
  BY SamePlaces
<1>2. \A b \in Backends : Batched(b)' = Batched(b)
  BY DEF Batched, Taken
<1>3. \A b \in Backends : Past(b)' = Past(b)
  BY <1>1, <1>2 DEF Past
<1>4. Homes'
  BY DEF InOrder, Homes
<1>5. AllSorted'
  BY DEF InOrder, AllSorted
<1>6. NoOvertaking'
  BY <1>1, <1>2, <1>3 DEF InOrder, NoOvertaking, Ahead
<1> QED
  BY <1>4, <1>5, <1>6 DEF InOrder

\* Lookup: the new number is larger than all others, and the queue is the one
\* ws.queues has.
LEMMA LookupOrder ==
  ASSUME TypeOK, NothingTodo, Known, InOrder, NEW p \in Pushers, NEW i \in SendsFor[p], Lookup(p, i)
  PROVE  InOrder'
<1>1. PICK s \in Sample :
         /\ s.number = samples + 1
         /\ Held' \subseteq Held \cup {s}
         /\ UNCHANGED <<list, Queued>>
  BY LookupMoves
<1>2. \A b \in Backends : Batched(b)' = Batched(b) /\ InWrite(b)' = InWrite(b) /\ Arrived(b)' = Arrived(b)
  BY RequestKeeps
<1>3. UNCHANGED <<registered, list, consumer, writing, posted>>
  BY DEF Lookup, queueVars, backendVars
<1>4. \A b \in Backends : Past(b)' = Past(b)
  BY <1>2 DEF Past
<1>5. Homes'
  <2>1. pusher' = [pusher EXCEPT ![p] =
          [step |-> IF registered[i] = NoQueue THEN "create" ELSE "stamp",
           queue |-> registered[i], sample |-> [ident |-> i, number |-> samples + 1]]]
    BY DEF Lookup
  <2>2. \A r \in Pushers \ {p} : pusher'[r] = pusher[r]
    BY <2>1 DEF TypeOK
  <2>3. /\ pusher'[p].sample.ident = i
        /\ pusher'[p].step # "create" => registered[i] = pusher'[p].queue
    BY <2>1 DEF TypeOK
  <2>4. \A r \in Pushers : pusher'[r] # Idle =>
          /\ pusher'[r].sample.ident \in SendsFor[r]
          /\ pusher'[r].step # "create" => registered[pusher'[r].sample.ident] = pusher'[r].queue
    BY <2>2, <2>3 DEF InOrder, Homes
  <2> QED
    BY <1>3, <2>4 DEF InOrder, Homes
<1>6. AllSorted'
  BY <1>3 DEF InOrder, AllSorted
<1>7. NoOvertaking'
  <2>1. samples \in Nat /\ \A x \in Sample : x.number \in Nat
    BY DEF TypeOK, Sample
  <2>2. Queued \subseteq Sample /\ \A b \in Backends : Past(b) \subseteq Sample /\ Past(b) \subseteq Left(b)
    BY DEF Queued, Past, Left, Batched, InWrite, Arrived
  <2>3. \A x \in Queued : x.number < s.number
    BY <1>1, <2>1, <2>2 DEF Known
  <2>4. \A b \in Backends : \A x \in Past(b) : x.number < s.number
    BY <1>1, <2>1, <2>2 DEF Known
  <2>5. Ahead(Queued, Held)'
    BY <1>1, <2>3 DEF InOrder, NoOvertaking, Ahead, Before
  <2>6. \A b \in Backends : Ahead(Past(b), Held)'
    BY <1>1, <1>4, <2>4 DEF InOrder, NoOvertaking, Ahead, Before
  <2>7. \A b \in Backends :
          /\ Ahead(Arrived(b), InWrite(b))'
          /\ Ahead(Arrived(b) \cup InWrite(b), Batched(b))'
          /\ Ahead(Past(b), Queued)'
    BY <1>1, <1>2, <1>4 DEF InOrder, NoOvertaking, Ahead
  <2> QED
    BY <2>5, <2>6, <2>7 DEF NoOvertaking
<1> QED
  BY <1>5, <1>6, <1>7 DEF InOrder

\* The time stamp and the look at the room move no sample.
LEMMA RequestOrder ==
  ASSUME TypeOK, NothingTodo, InOrder, NEW p \in Pushers, SetTs(p) \/ CheckRoom(p)
  PROVE  InOrder'
<1>1. Held' \subseteq Held /\ Queued' \subseteq Queued
  BY RequestMoves
<1>2. \A b \in Backends : Batched(b)' = Batched(b) /\ InWrite(b)' = InWrite(b) /\ Arrived(b)' = Arrived(b)
  BY RequestKeeps DEF PusherStep
<1>3. UNCHANGED <<registered, list, consumer, writing, posted>>
  BY DEF SetTs, CheckRoom, queueVars, backendVars
<1>4. Homes'
  <2>1. \A r \in Pushers \ {p} : pusher'[r] = pusher[r]
    BY DEF SetTs, CheckRoom, TypeOK
  <2>2. pusher[p] # Idle /\ pusher[p].step # "create"
    BY DEF SetTs, CheckRoom, Idle
  <2>3. pusher[p] \in Pushing
    BY <2>2, HeldSample
  <2>4. pusher'[p] # Idle => pusher'[p].sample = pusher[p].sample /\ pusher'[p].queue = pusher[p].queue
    BY <2>3 DEF SetTs, CheckRoom, TypeOK, Pushing
  <2>5. \A r \in Pushers : pusher'[r] # Idle =>
          /\ pusher'[r].sample.ident \in SendsFor[r]
          /\ pusher'[r].step # "create" => registered[pusher'[r].sample.ident] = pusher'[r].queue
    BY <2>1, <2>2, <2>4 DEF InOrder, Homes
  <2> QED
    BY <1>3, <2>5 DEF InOrder, Homes
<1>5. AllSorted'
  BY <1>3 DEF InOrder, AllSorted
<1>6. \A b \in Backends : Past(b)' = Past(b)
  BY <1>2 DEF Past
<1>7. NoOvertaking'
  BY <1>1, <1>2, <1>6 DEF InOrder, NoOvertaking, Ahead
<1> QED
  BY <1>4, <1>5, <1>7 DEF InOrder

\* Create: the ident had no queue, so that none of its samples is in another one.
LEMMA CreateOrder ==
  ASSUME OneRequestPerIdent, TypeOK, NothingTodo, Closable, InOrder, NEW p \in Pushers, Create(p)
  PROVE  InOrder'
<1> DEFINE i == pusher[p].sample.ident
<1>1. Held' \subseteq Held /\ Queued' \subseteq Queued
  BY RequestMoves
<1>2. \A b \in Backends : Batched(b)' = Batched(b) /\ InWrite(b)' = InWrite(b) /\ Arrived(b)' = Arrived(b)
  BY RequestKeeps DEF PusherStep
<1>3. PICK c : /\ Made' = Made \cup {c} /\ c \notin Made /\ c \in Nat \ {0}
               /\ list'[c] = <<>> /\ consumer'[c] = Looping("check")
               /\ \A r \in Made : list'[r] = list[r] /\ consumer'[r] = consumer[r]
               /\ pusher[p] \in Pushing /\ pusher[p] # Idle
               /\ pusher' = [pusher EXCEPT ![p] = [pusher[p] EXCEPT !.step = "stamp", !.queue = c]]
               /\ registered' = [registered EXCEPT ![i] = c]
               /\ UNCHANGED <<writing, posted>>
  BY CreateEffect
<1>4. i \in SendsFor[p] /\ i \in Idents /\ registered[i] = NoQueue
  BY PushersAssumption DEF Create, Closable
<1>5. \A q \in Made : q # NoQueue
  BY DEF TypeOK
<1>6. registered'[i] = c /\ \A k \in Idents \ {i} : registered'[k] = registered[k]
  BY <1>3, <1>4 DEF TypeOK
<1>7. consumer'[c].batch = <<>> /\ DOMAIN <<>> = {}
  BY <1>3 DEF Looping
<1>8. Homes'
  <2>1. ASSUME NEW q \in Made', NEW j \in DOMAIN list'[q]
        PROVE  registered'[list'[q][j].ident] = q
    <3>1. q \in Made /\ list'[q] = list[q]
      BY <1>3, <1>7, <2>1
    <3>2. registered[list[q][j].ident] = q /\ list[q][j].ident \in Idents
      <4>1. list[q][j] \in Sample
        BY <2>1, <3>1, PlaceSamples
      <4> QED
        BY <2>1, <3>1, <4>1 DEF InOrder, Homes, Sample
    <3> QED
      BY <1>4, <1>5, <1>6, <3>1, <3>2
  <2>2. ASSUME NEW q \in Made', NEW j \in DOMAIN consumer'[q].batch
        PROVE  registered'[consumer'[q].batch[j].ident] = q
    <3>1. q \in Made /\ consumer'[q] = consumer[q]
      BY <1>3, <1>7, <2>2
    <3>2. registered[consumer[q].batch[j].ident] = q /\ consumer[q].batch[j].ident \in Idents
      <4>1. consumer[q].batch[j] \in Sample
        <5>1. ToSet(consumer[q].batch) \subseteq Sample
          BY <3>1, BatchSamples
        <5> QED
          BY <2>2, <3>1, <5>1 DEF ToSet
      <4> QED
        BY <2>2, <3>1, <4>1 DEF InOrder, Homes, Sample
    <3> QED
      BY <1>4, <1>5, <1>6, <3>1, <3>2
  <2>3. ASSUME NEW r \in Pushers, pusher'[r] # Idle
        PROVE  /\ pusher'[r].sample.ident \in SendsFor[r]
               /\ pusher'[r].step # "create" => registered'[pusher'[r].sample.ident] = pusher'[r].queue
    <3>1. CASE r = p
      <4>1. pusher'[p].sample = pusher[p].sample /\ pusher'[p].queue = c
        BY <1>3 DEF TypeOK, Pushing
      <4> QED
        BY <1>4, <1>6, <3>1, <4>1
    <3>2. CASE r # p
      <4>1. pusher'[r] = pusher[r]
        BY <1>3, <3>2 DEF TypeOK
      <4>2. pusher[r].sample.ident \in SendsFor[r]
            /\ (pusher[r].step # "create" => registered[pusher[r].sample.ident] = pusher[r].queue)
        BY <2>3, <4>1 DEF InOrder, Homes
      <4>3. pusher[r].sample.ident # i /\ pusher[r].sample.ident \in Idents
        BY <1>4, <3>2, <4>2, PushersAssumption DEF OneRequestPerIdent
      <4> QED
        BY <1>6, <4>1, <4>2, <4>3
    <3> QED
      BY <3>1, <3>2
  <2> QED
    BY <2>1, <2>2, <2>3 DEF Homes
<1>9. AllSorted'
  <2>1. Sorted(<<>>)
    BY DEF Sorted
  <2> QED
    BY <1>3, <1>7, <2>1 DEF InOrder, AllSorted
<1>10. \A b \in Backends : Past(b)' = Past(b)
  BY <1>2 DEF Past
<1>11. NoOvertaking'
  BY <1>1, <1>2, <1>10 DEF InOrder, NoOvertaking, Ahead
<1> QED
  BY <1>8, <1>9, <1>11 DEF InOrder

\* PushFront: all samples of the ident in the list were numbered before this one.
LEMMA PushOrder ==
  ASSUME OneRequestPerIdent, TypeOK, NothingTodo, InOrder, NEW p \in Pushers, PushFront(p)
  PROVE  InOrder'
<1> DEFINE s == pusher[p].sample
<1>1. PICK q \in Made :
         /\ q = pusher[p].queue /\ pusher[p] \in Pushing /\ pusher[p] # Idle
         /\ Made' = Made
         /\ \A r \in Made \ {q} : list'[r] = list[r]
         /\ Len(list[q]) \in Nat /\ list[q] \in Seq(Sample)
         /\ DOMAIN list'[q] = 1..Len(list[q]) + 1
         /\ \A i \in 1..Len(list[q]) : list'[q][i] = list[q][i]
         /\ list'[q][Len(list[q]) + 1] = s
         /\ pusher' = [pusher EXCEPT ![p] = Idle]
         /\ UNCHANGED <<registered, consumer, writing, posted>>
  BY PushEffect
<1>2. \A b \in Backends : Batched(b)' = Batched(b) /\ InWrite(b)' = InWrite(b) /\ Arrived(b)' = Arrived(b)
  BY RequestKeeps DEF PusherStep
<1>3. s \in Held /\ s.ident \in SendsFor[p] /\ registered[s.ident] = q
  <2>1. pusher[p].step # "create"
    BY DEF PushFront
  <2> QED
    BY <1>1, <2>1, HeldSample DEF InOrder, Homes
<1>4. pusher'[p] = Idle /\ \A r \in Pushers \ {p} : pusher'[r] = pusher[r]
  BY <1>1 DEF TypeOK
<1>5. Held' \subseteq Held
  BY <1>4 DEF Held
<1>6. \A t \in Held' : t.ident # s.ident
  <2>1. SUFFICES ASSUME NEW r \in Pushers, pusher'[r] # Idle  PROVE pusher'[r].sample.ident # s.ident
    BY DEF Held
  <2>2. r # p /\ pusher'[r] = pusher[r]
    BY <1>4, <2>1
  <2>3. pusher[r].sample.ident \in SendsFor[r]
    BY <2>1, <2>2 DEF InOrder, Homes
  <2> QED
    BY <1>3, <2>2, <2>3 DEF OneRequestPerIdent
<1> DEFINE n == Len(list[q])
<1>7. n \in Nat /\ DOMAIN list[q] = 1..n
  BY <1>1
<1> HIDE DEF s, n
<1>8. \A j \in 1..n + 1 : (j \in 1..n /\ list'[q][j] = list[q][j]) \/ (j = n + 1 /\ list'[q][j] = s)
  <2>1. \A j \in 1..n + 1 : j \in 1..n \/ j = n + 1
    BY <1>7
  <2> QED
    BY <1>1, <2>1 DEF s, n
<1>9. Homes'
  <2>1. \A r \in Made : \A j \in DOMAIN list'[r] : registered[list'[r][j].ident] = r
    <3>1. \A r \in Made \ {q} : \A j \in DOMAIN list'[r] : registered[list'[r][j].ident] = r
      BY <1>1 DEF InOrder, Homes
    <3>2. \A j \in 1..n + 1 : registered[list'[q][j].ident] = q
      BY <1>3, <1>7, <1>8 DEF InOrder, Homes
    <3> QED
      BY <1>1, <3>1, <3>2 DEF n
  <2> QED
    BY <1>1, <1>4, <2>1 DEF InOrder, Homes
<1>10. \A j \in 1..n : list[q][j] \in Queued
  BY <1>7, PlaceSamples
<1>11. Sorted(list'[q])
  <2> SUFFICES ASSUME NEW j \in 1..n + 1, NEW k \in 1..n + 1, j < k
               PROVE  Before(list'[q][j], list'[q][k])
    BY <1>1 DEF Sorted, n
  <2>1. j \in 1..n /\ list'[q][j] = list[q][j]
    <3>1. j # n + 1
      BY <1>7
    <3> QED
      BY <1>8, <3>1
  <2>2. CASE k \in 1..n
    <3>1. list'[q][k] = list[q][k]
      BY <1>1, <2>2 DEF n
    <3>2. Before(list[q][j], list[q][k])
      BY <1>7, <2>1, <2>2 DEF InOrder, AllSorted, Sorted
    <3> QED
      BY <2>1, <3>1, <3>2
  <2>3. CASE list'[q][k] = s
    BY <1>3, <1>10, <2>1, <2>3 DEF InOrder, NoOvertaking, Ahead
  <2> QED
    BY <1>8, <2>2, <2>3
<1>12. AllSorted'
  BY <1>1, <1>11 DEF InOrder, AllSorted
<1>13. Queued' \subseteq Queued \cup {s}
  <2> SUFFICES ASSUME NEW t \in Queued'  PROVE t \in Queued \cup {s}
    OBVIOUS
  <2>1. t \in Sample /\ \E r \in Made : \E j \in DOMAIN list'[r] : t = list'[r][j]
    BY <1>1 DEF Queued, Waiting, ToSet
  <2>2. PICK r \in Made : \E j \in DOMAIN list'[r] : t = list'[r][j]
    BY <2>1
  <2>3. CASE r = q
    BY <1>1, <1>8, <1>10, <2>2, <2>3 DEF n
  <2>4. CASE r # q
    BY <1>1, <2>2, <2>4, PlaceSamples
  <2> QED
    BY <2>3, <2>4
<1>14. \A b \in Backends : Past(b)' = Past(b)
  BY <1>2 DEF Past
<1>15. NoOvertaking'
  <2>1. Ahead(Queued, Held)'
    BY <1>5, <1>6, <1>13 DEF InOrder, NoOvertaking, Ahead, Before
  <2>2. \A b \in Backends : Ahead(Past(b), Queued)' /\ Ahead(Past(b), Held)'
    BY <1>3, <1>5, <1>13, <1>14 DEF InOrder, NoOvertaking, Ahead
  <2>3. \A b \in Backends :
          Ahead(Arrived(b), InWrite(b))' /\ Ahead(Arrived(b) \cup InWrite(b), Batched(b))'
    BY <1>2 DEF InOrder, NoOvertaking, Ahead
  <2> QED
    BY <2>1, <2>2, <2>3 DEF NoOvertaking
<1> QED
  BY <1>9, <1>12, <1>15 DEF InOrder

\* PopBack: the batch is the older part of a list.
LEMMA PopOrder ==
  ASSUME TypeOK, NothingTodo, InOrder, NEW q \in Made, PopBack(q)
  PROVE  InOrder'
<1>1. PICK n \in 0..Len(list[q]) :
           /\ list[q] \in Seq(Sample) /\ Len(list[q]) \in Nat
           /\ Made' = Made
           /\ \A r \in Made \ {q} : list'[r] = list[r] /\ consumer'[r] = consumer[r]
           /\ DOMAIN list'[q] = 1..Len(list[q]) - n
           /\ \A i \in 1..Len(list[q]) - n : list'[q][i] = list[q][i + n]
           /\ \/ consumer'[q] = Looping("check")
              \/ /\ n > 0 /\ DOMAIN consumer'[q].batch = 1..n
                 /\ \A i \in 1..n : consumer'[q].batch[i] = list[q][i]
  BY PopEffect
<1> DEFINE L == Len(list[q])
<1>2. n \in Nat /\ L \in Nat /\ n <= L /\ DOMAIN list[q] = 1..L
  BY <1>1
<1>3. UNCHANGED <<Held, registered, pusher, writing, posted>>
      /\ \A b \in Backends : InWrite(b)' = InWrite(b) /\ Arrived(b)' = Arrived(b)
  <2>1. UNCHANGED <<registered, pusher, writing, posted>>
    BY DEF PopBack, backendVars
  <2> QED
    BY <2>1, SamePlaces
<1>4. /\ \A i \in DOMAIN list'[q] : i + n \in DOMAIN list[q] /\ i + n > n /\ list'[q][i] = list[q][i + n]
      /\ \A i \in DOMAIN consumer'[q].batch :
           i \in DOMAIN list[q] /\ i <= n /\ consumer'[q].batch[i] = list[q][i]
  <2>1. ASSUME NEW i \in 1..L - n  PROVE i + n \in 1..L /\ i + n > n
    BY <1>2
  <2>2. ASSUME NEW i \in 1..n  PROVE i \in 1..L /\ i <= n
    BY <1>2
  <2>3. \A i \in DOMAIN list'[q] : i + n \in DOMAIN list[q] /\ i + n > n /\ list'[q][i] = list[q][i + n]
    BY <1>1, <1>2, <2>1
  <2>4. CASE consumer'[q] = Looping("check")
    <3>1. DOMAIN consumer'[q].batch = {}
      BY <2>4 DEF Looping
    <3> QED
      BY <2>3, <3>1
  <2>5. CASE DOMAIN consumer'[q].batch = 1..n /\ \A i \in 1..n : consumer'[q].batch[i] = list[q][i]
    BY <1>2, <2>2, <2>3, <2>5
  <2> QED
    BY <1>1, <2>4, <2>5
<1> HIDE DEF L
<1>5. \A i, j \in DOMAIN list[q] : i < j => Before(list[q][i], list[q][j])
  BY DEF InOrder, AllSorted, Sorted
<1>6. Homes'
  <2>1. \A r \in Made : \A i \in DOMAIN list'[r] : registered[list'[r][i].ident] = r
    BY <1>1, <1>4 DEF InOrder, Homes
  <2>2. \A r \in Made : \A i \in DOMAIN consumer'[r].batch : registered[consumer'[r].batch[i].ident] = r
    BY <1>1, <1>4 DEF InOrder, Homes
  <2> QED
    BY <1>1, <1>3, <2>1, <2>2 DEF InOrder, Homes
<1>7. AllSorted'
  <2>1. Sorted(list'[q])
    <3> SUFFICES ASSUME NEW i \in DOMAIN list'[q], NEW j \in DOMAIN list'[q], i < j
                 PROVE  Before(list'[q][i], list'[q][j])
      BY DEF Sorted
    <3>1. i + n < j + n
      BY <1>1, <1>2
    <3> QED
      BY <1>4, <1>5, <3>1
  <2>2. Sorted(consumer'[q].batch)
    BY <1>4, <1>5 DEF Sorted
  <2> QED
    BY <1>1, <1>3, <2>1, <2>2 DEF InOrder, AllSorted
<1> DEFINE B == { list[q][i] : i \in { k \in DOMAIN list[q] : k <= n } }
<1>8. B \subseteq Queued
  BY PlaceSamples
<1>9. ASSUME NEW b \in Backends  PROVE Batched(b)' \subseteq Batched(b) \cup B
  <2> SUFFICES ASSUME NEW s \in Batched(b)'  PROVE s \in Batched(b) \cup B
    OBVIOUS
  <2>1. PICK r \in Made : b \in consumer'[r].todo /\ s \in ToSet(consumer'[r].batch)
    BY <1>1 DEF Batched, Taken
  <2>2. CASE r = q
    BY <1>4, <2>1, <2>2 DEF ToSet
  <2>3. CASE r # q
    <3>1. s \in Sample
      BY DEF Batched
    <3> QED
      BY <1>1, <2>1, <2>3, <3>1 DEF Batched, Taken
  <2> QED
    BY <2>2, <2>3
<1>10. ASSUME NEW t \in Queued'
       PROVE  t \in Queued /\ \A s \in B : Before(s, t)
  <2>1. PICK r \in Made : \E j \in DOMAIN list'[r] : t = list'[r][j]
    BY <1>1 DEF Queued, Waiting, ToSet
  <2>2. PICK j \in DOMAIN list'[r] : t = list'[r][j]
    BY <2>1
  <2>3. CASE r = q
    <3>1. j + n \in DOMAIN list[q] /\ j + n > n /\ t = list[q][j + n]
      BY <1>4, <2>2, <2>3
    <3>2. t \in Queued
      BY <3>1, PlaceSamples
    <3>3. ASSUME NEW i \in DOMAIN list[q], i <= n  PROVE Before(list[q][i], t)
      <4>1. i < j + n
        BY <1>2, <3>1, <3>3
      <4> QED
        BY <1>5, <3>1, <4>1
    <3> QED
      BY <3>2, <3>3
  <2>4. CASE r # q
    <3>1. list'[r] = list[r]
      BY <1>1, <2>4
    <3>2. t \in Queued /\ registered[t.ident] = r
      BY <2>2, <3>1, PlaceSamples DEF InOrder, Homes
    <3>3. \A s \in B : registered[s.ident] = q
      BY DEF InOrder, Homes
    <3> QED
      BY <2>4, <3>2, <3>3 DEF Before
  <2> QED
    BY <2>3, <2>4
<1>11. NoOvertaking'
  <2> HIDE DEF B
  <2>1. Ahead(Queued, Held)'
    BY <1>3, <1>10 DEF InOrder, NoOvertaking, Ahead
  <2>2. ASSUME NEW b \in Backends
        PROVE  /\ Ahead(Arrived(b), InWrite(b))'
               /\ Ahead(Arrived(b) \cup InWrite(b), Batched(b))'
               /\ Ahead(Past(b), Queued)'
               /\ Ahead(Past(b), Held)'
    <3>1. Past(b)' \subseteq Past(b) \cup B
      BY <1>3, <1>9 DEF Past
    <3>2. Ahead(Arrived(b), InWrite(b))'
      BY <1>3 DEF InOrder, NoOvertaking
    <3>3. Ahead(Arrived(b) \cup InWrite(b), Batched(b))'
      BY <1>3, <1>8, <1>9 DEF InOrder, NoOvertaking, Ahead, Past
    <3>4. Ahead(Past(b), Queued)'
      BY <1>10, <3>1 DEF InOrder, NoOvertaking, Ahead
    <3>5. Ahead(Past(b), Held)'
      BY <1>3, <1>8, <3>1 DEF InOrder, NoOvertaking, Ahead
    <3> QED
      BY <3>2, <3>3, <3>4, <3>5
  <2> QED
    BY <2>1, <2>2 DEF NoOvertaking
<1> QED
  BY <1>6, <1>7, <1>11 DEF InOrder

\* Dispatch: there is no other Write, and no other queue has samples of the idents
\* of this batch.
LEMMA DispatchOrder ==
  ASSUME WriteConcurrency = 1, TypeOK, IsFiniteSet(writing), InOrder,
         NEW q \in Made, NEW b \in Backends, Dispatch(q, b)
  PROVE  InOrder'
<1> DEFINE B == ToSet(consumer[q].batch)
           w == [backend |-> b, batch |-> consumer[q].batch]
<1>1. /\ b \in consumer[q].todo
      /\ \A r \in Made \ {q} : consumer'[r] = consumer[r]
      /\ consumer'[q].todo = consumer[q].todo \ {b}
      /\ \/ consumer'[q] = Looping("check")
         \/ consumer'[q].batch = consumer[q].batch
      /\ writing' = writing \cup {w}
      /\ UNCHANGED <<list, pusher, posted>>
  BY DispatchEffect
<1>2. writing' = {w} /\ UNCHANGED registered
  <2>1. MayAcquire /\ UNCHANGED registered
    BY DEF Dispatch, queueVars
  <2> QED
    BY <1>1, <2>1, OneWrite
<1>3. UNCHANGED <<Held, Queued>> /\ \A c \in Backends : Arrived(c)' = Arrived(c)
  BY <1>1, SamePlaces
<1>4. B \subseteq Batched(b)
  <2>1. B \subseteq Sample
    BY BatchSamples
  <2> QED
    BY <1>1, <2>1 DEF Batched, Taken
<1>5. ASSUME NEW c \in Backends  PROVE Batched(c)' \subseteq Batched(c)
  <2> SUFFICES ASSUME NEW s \in Batched(c)'  PROVE s \in Batched(c)
    OBVIOUS
  <2>1. PICK r \in Made : c \in consumer'[r].todo /\ s \in ToSet(consumer'[r].batch)
    BY <1>1 DEF Batched, Taken
  <2>2. c \in consumer[r].todo /\ s \in ToSet(consumer[r].batch)
    <3>1. CASE r = q /\ consumer'[q] = Looping("check")
      <4>1. consumer'[r].todo = {}
        BY <3>1 DEF Looping
      <4> QED
        BY <2>1, <4>1
    <3>2. CASE r = q /\ consumer'[q].batch = consumer[q].batch
      BY <1>1, <2>1, <3>2
    <3>3. CASE r # q
      BY <1>1, <2>1, <3>3
    <3> QED
      BY <1>1, <3>1, <3>2, <3>3
  <2> QED
    BY <2>2 DEF Batched, Taken
<1>6. \A c \in Backends : InWrite(c)' \subseteq IF c = b THEN B ELSE {}
  BY <1>2 DEF InWrite, Writing
<1>7. \A s \in B : \A t \in Batched(b)' : s.ident # t.ident
  <2> SUFFICES ASSUME NEW s \in B, NEW t \in Batched(b)'  PROVE s.ident # t.ident
    OBVIOUS
  <2>1. registered[s.ident] = q
    BY DEF InOrder, Homes, ToSet
  <2>2. PICK r \in Made : b \in consumer'[r].todo /\ t \in ToSet(consumer'[r].batch)
    BY <1>1 DEF Batched, Taken
  <2>3. r # q /\ consumer'[r] = consumer[r]
    BY <1>1, <2>2
  <2>4. registered[t.ident] = r
    BY <2>2, <2>3 DEF InOrder, Homes, ToSet
  <2> QED
    BY <2>1, <2>3, <2>4
<1>8. DOMAIN consumer'[q].batch = {} \/ consumer'[q].batch = consumer[q].batch
  BY <1>1 DEF Looping
<1>9. Homes'
  <2>1. \A r \in Made : \A i \in DOMAIN consumer'[r].batch : registered[consumer'[r].batch[i].ident] = r
    BY <1>1, <1>8 DEF InOrder, Homes
  <2> QED
    BY <1>1, <1>2, <2>1 DEF InOrder, Homes
<1>10. AllSorted'
  <2>1. Sorted(consumer[q].batch)
    BY DEF InOrder, AllSorted
  <2>2. \A r \in Made : Sorted(consumer'[r].batch)
    BY <1>1, <1>8 DEF InOrder, AllSorted, Sorted
  <2>3. \A v \in writing' : Sorted(v.batch)
    BY <1>2, <2>1
  <2> QED
    BY <1>1, <2>2, <2>3 DEF InOrder, AllSorted
<1>11. NoOvertaking'
  <2> HIDE DEF B
  <2>1. Ahead(Queued, Held)'
    BY <1>3 DEF InOrder, NoOvertaking
  <2>2. ASSUME NEW c \in Backends
        PROVE  /\ Ahead(Arrived(c), InWrite(c))'
               /\ Ahead(Arrived(c) \cup InWrite(c), Batched(c))'
               /\ Ahead(Past(c), Queued)'
               /\ Ahead(Past(c), Held)'
    <3>1. InWrite(c)' \subseteq Batched(c)
      BY <1>4, <1>6
    <3>2. Past(c)' \subseteq Past(c)
      BY <1>3, <1>5, <3>1 DEF Past
    <3>3. Ahead(Arrived(c), InWrite(c))'
      BY <1>3, <3>1 DEF InOrder, NoOvertaking, Ahead
    <3>4. ASSUME NEW s \in InWrite(c)', NEW t \in Batched(c)'  PROVE Before(s, t)
      BY <1>6, <1>7 DEF Before
    <3>5. Ahead(Arrived(c) \cup InWrite(c), Batched(c))'
      <4>1. \A s \in Arrived(c)', t \in Batched(c)' : Before(s, t)
        BY <1>3, <1>5 DEF InOrder, NoOvertaking, Ahead
      <4> QED
        BY <3>4, <4>1 DEF Ahead
    <3>6. Ahead(Past(c), Queued)' /\ Ahead(Past(c), Held)'
      BY <1>3, <3>2 DEF InOrder, NoOvertaking, Ahead
    <3> QED
      BY <3>3, <3>5, <3>6
  <2> QED
    BY <2>1, <2>2 DEF NoOvertaking
<1> QED
  BY <1>9, <1>10, <1>11 DEF InOrder

\* The end of the only Write: its samples follow all that the backend has.
LEMMA WriteOrder ==
  ASSUME WriteConcurrency = 1, TypeOK, IsFiniteSet(writing), InOrder,
         NEW w \in writing, Post(w) \/ GiveUp(w)
  PROVE  InOrder'
<1> DEFINE b == w.backend
           B == ToSet(w.batch)
<1>1. /\ b \in Backends /\ B \subseteq InWrite(b)
      /\ \A c \in Backends : Arrived(c)' \subseteq Arrived(c) \cup InWrite(c)
      /\ \A c \in Backends : Batched(c)' = Batched(c)
      /\ UNCHANGED <<Held, Queued, consumer, pusher, list>>
  BY WriteMoves
<1>2. writing' = {} /\ UNCHANGED registered
  <2>1. writing' = writing \ {w} /\ UNCHANGED registered
    BY DEF Post, GiveUp, Release, queueVars
  <2> QED
    BY <2>1, OneWrite
<1>3. \A c \in Backends : InWrite(c)' = {}
  BY <1>2 DEF InWrite, Writing
<1>4. Homes'
  BY <1>1, <1>2 DEF InOrder, Homes
<1>5. \A c \in Backends : Sorted(posted'[c])
  <2>1. ASSUME GiveUp(w)  PROVE \A c \in Backends : Sorted(posted'[c])
    BY <2>1 DEF GiveUp, InOrder, AllSorted
  <2>2. ASSUME Post(w)  PROVE \A c \in Backends : Sorted(posted'[c])
    <3> DEFINE m == Len(posted[b])
               n == Len(w.batch)
    <3>1. /\ w.batch \in Seq(Sample) /\ n \in Nat /\ posted[b] \in Seq(Sample) /\ m \in Nat
          /\ \A c \in Backends \ {b} : posted'[c] = posted[c]
          /\ DOMAIN posted'[b] = 1..m + n
          /\ \A i \in 1..m : posted'[b][i] = posted[b][i]
          /\ \A i \in 1..n : posted'[b][m + i] = w.batch[i]
      BY <2>2, PostEffect
    <3>2. DOMAIN posted[b] = 1..m /\ DOMAIN w.batch = 1..n
      BY <3>1
    <3>3. Sorted(posted[b]) /\ Sorted(w.batch)
      BY <1>1 DEF InOrder, AllSorted
    <3>4. \A i \in 1..m, j \in 1..n : Before(posted[b][i], w.batch[j])
      <4> SUFFICES ASSUME NEW i \in 1..m, NEW j \in 1..n  PROVE Before(posted[b][i], w.batch[j])
        OBVIOUS
      <4>1. posted[b][i] \in Arrived(b)
        BY <3>1, <3>2 DEF Arrived, Posted, ToSet
      <4>2. w.batch[j] \in InWrite(b)
        BY <1>1, <3>2 DEF ToSet
      <4> QED
        BY <1>1, <4>1, <4>2 DEF InOrder, NoOvertaking, Ahead
    <3> HIDE DEF m, n
    <3>5. \A k \in 1..m + n : \/ k \in 1..m /\ posted'[b][k] = posted[b][k]
                              \/ /\ k - m \in 1..n /\ ~(k \in 1..m)
                                 /\ posted'[b][k] = w.batch[k - m]
      <4> TAKE k \in 1..m + n
      <4>1. CASE k \in 1..m
        BY <3>1, <4>1
      <4>2. CASE ~(k \in 1..m)
        <5>1. k - m \in 1..n /\ m + (k - m) = k
          BY <3>1, <4>2
        <5>2. posted'[b][m + (k - m)] = w.batch[k - m]
          BY <3>1, <5>1
        <5> QED
          BY <4>2, <5>1, <5>2
      <4> QED
        BY <4>1, <4>2
    <3>6. Sorted(posted'[b])
      <4> SUFFICES ASSUME NEW i \in 1..m + n, NEW j \in 1..m + n, i < j
                   PROVE  Before(posted'[b][i], posted'[b][j])
        BY <3>1 DEF Sorted
      <4>1. CASE j \in 1..m
        <5>1. i \in 1..m
          BY <3>1, <4>1
        <5>2. Before(posted[b][i], posted[b][j])
          BY <3>2, <3>3, <4>1, <5>1 DEF Sorted
        <5> QED
          BY <3>1, <4>1, <5>1, <5>2
      <4>2. CASE i \in 1..m /\ ~(j \in 1..m)
        <5>1. j - m \in 1..n /\ posted'[b][j] = w.batch[j - m]
          BY <3>5, <4>2
        <5>2. posted'[b][i] = posted[b][i]
          BY <3>1, <4>2
        <5> QED
          BY <3>4, <4>2, <5>1, <5>2
      <4>3. CASE ~(i \in 1..m) /\ ~(j \in 1..m)
        <5>1. /\ i - m \in 1..n /\ posted'[b][i] = w.batch[i - m]
              /\ j - m \in 1..n /\ posted'[b][j] = w.batch[j - m]
          BY <3>5, <4>3
        <5>2. i - m < j - m
          BY <3>1
        <5>3. Before(w.batch[i - m], w.batch[j - m])
          BY <3>2, <3>3, <5>1, <5>2 DEF Sorted
        <5> QED
          BY <5>1, <5>3
      <4> QED
        BY <4>1, <4>2, <4>3
    <3> QED
      BY <3>1, <3>3, <3>6 DEF InOrder, AllSorted
  <2> QED
    BY <2>1, <2>2
<1>6. AllSorted'
  BY <1>1, <1>2, <1>5 DEF InOrder, AllSorted
<1>7. NoOvertaking'
  <2>1. Ahead(Queued, Held)'
    BY <1>1 DEF InOrder, NoOvertaking
  <2>2. ASSUME NEW c \in Backends
        PROVE  /\ Ahead(Arrived(c), InWrite(c))'
               /\ Ahead(Arrived(c) \cup InWrite(c), Batched(c))'
               /\ Ahead(Past(c), Queued)'
               /\ Ahead(Past(c), Held)'
    <3>1. Past(c)' \subseteq Past(c)
      BY <1>1, <1>3 DEF Past
    <3>2. Ahead(Arrived(c), InWrite(c))'
      BY <1>3 DEF Ahead
    <3>3. Ahead(Arrived(c) \cup InWrite(c), Batched(c))'
      BY <1>1, <1>3 DEF InOrder, NoOvertaking, Ahead
    <3>4. Ahead(Past(c), Queued)' /\ Ahead(Past(c), Held)'
      BY <1>1, <3>1 DEF InOrder, NoOvertaking, Ahead
    <3> QED
      BY <3>2, <3>3, <3>4
  <2> QED
    BY <2>1, <2>2 DEF NoOvertaking
<1> QED
  BY <1>4, <1>6, <1>7 DEF InOrder

\* As long as no queue was closed, every step keeps the order.
LEMMA OrderStep ==
  ASSUME OneRequestPerIdent, WriteConcurrency = 1
  PROVE  /\ TypeOK /\ IsFiniteSet(writing) /\ NothingTodo /\ Once /\ Closable
         /\ (closed = {} => InOrder) /\ [Next]_vars
         => (closed = {} => InOrder)'
<1> SUFFICES ASSUME TypeOK, IsFiniteSet(writing), NothingTodo, Once, Closable,
                    closed = {} => InOrder, [Next]_vars, closed' = {}
             PROVE  InOrder'
  OBVIOUS
<1>1. ~CleanExpQueue
  BY DEF CleanExpQueue
<1>2. InOrder
  <2>1. closed \subseteq closed'
    BY <1>1 DEF Next, Lookup, PusherStep, Create, SetTs, CheckRoom, PushFront, ConsumerStep,
                CheckClosed, PopBack, Dispatch, WriteStep, Post, GiveUp, Tick, vars, queueVars
  <2> QED
    BY <2>1
<1>3. ASSUME NEW p \in Pushers, (\E i \in SendsFor[p] : Lookup(p, i)) \/ PusherStep(p)
      PROVE  InOrder'
  BY <1>2, <1>3, LookupOrder, CreateOrder, RequestOrder, PushOrder DEF PusherStep, Once
<1>4. ASSUME NEW q \in Made, CheckClosed(q)
      PROVE  InOrder'
  <2>1. /\ UNCHANGED <<registered, list, pusher, writing, posted>>
        /\ \A r \in Made : consumer'[r].todo = consumer[r].todo /\ consumer'[r].batch = consumer[r].batch
    BY <1>4, CheckEffect
  <2> QED
    BY <1>2, <2>1, QuietOrder
<1>5. ASSUME Tick \/ UNCHANGED vars
      PROVE  InOrder'
  <2>1. UNCHANGED <<registered, list, pusher, writing, posted, consumer>>
    BY <1>5 DEF Tick, vars, queueVars, backendVars
  <2> QED
    BY <1>2, <2>1, QuietOrder
<1> QED
  BY <1>1, <1>2, <1>3, <1>4, <1>5, PopOrder, DispatchOrder, WriteOrder DEF Next, ConsumerStep, WriteStep

\* A backend gets the samples of an ident in the order of their numbers, when the
\* semaphore has one place, an ident has one request at a time, and no queue was
\* closed yet: the conditions under which the code keeps the order at all.
THEOREM SamplesArriveInOrder ==
  ASSUME OneRequestPerIdent, WriteConcurrency = 1
  PROVE  Spec => []PostedInOrder
<1>1. (closed = {} => InOrder) => PostedInOrder
  BY DEF PostedInOrder, InOrder, AllSorted, Sorted, Before
<1>2. Init => (closed = {} => InOrder)
  BY OrderInit
<1>3. TypeOK /\ Closable /\ [Next]_vars => Closable'
  BY ClosableStep
<1>4. /\ TypeOK /\ IsFiniteSet(writing) /\ NothingTodo /\ Once /\ Closable
      /\ (closed = {} => InOrder) /\ [Next]_vars
      => (closed = {} => InOrder)'
  BY OrderStep
<1> QED
  BY <1>1, <1>2, <1>3, <1>4, TypeCorrect, EvenInit, TodoStep, OnceInit, OnceStep, InitClosable, PTL DEF Spec
===============================================================================
