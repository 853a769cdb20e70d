--------------------------- MODULE SessionsProofs ---------------------------
(***************************************************************************)
(* Proofs about sessions: the endpoint table and the routing of frames     *)
(* (Sessions), for every number of sessions and channels; and the messages *)
(* that pass between a session and its peer, with their links (Transfers), *)
(* for all windows, credit and payloads.  The two specifications share no  *)
(* variable; what is general, on sequences and on numbers that wrap, is in *)
(* the second part.                                                        *)
(***************************************************************************)
EXTENDS Sessions, Transfers, FiniteSetTheorems, SequenceTheorems, WellFoundedInduction, TLAPS

USE SessionsAssumption DEF SessionsAssumption

\* The channel numbers of the table leave room for those between them: what
\* makes "sorted" inductive without an induction over the array.
Spaced ==
    /\ Len(endpoints) <= channel_max
    /\ \A j, k \in 1 .. Len(endpoints) :
          j < k => outgoing_channel[endpoints[k]] - outgoing_channel[endpoints[j]] >= k - j
    /\ \A k \in 1 .. Len(endpoints) : outgoing_channel[endpoints[k]] >= k - 1

\* The sessions that the peer has announced and no endpoint stands for yet.
Announces(f) == f.kind = "begin" /\ f.remote_channel = None

Announced ==
    /\ \A i \in 1 .. Len(inbox) :
          Announces(inbox[i]) => inbox[i].for \in used /\ inbox[i].for \notin Live
    /\ \A i, j \in 1 .. Len(inbox) :
          Announces(inbox[i]) /\ Announces(inbox[j]) /\ i # j
              => inbox[i].for # inbox[j].for

\* A handle that has not been given out is as calloc leaves it.
Fresh ==
    \A h \in Handle \ used :
        session_state[h] = "UNMAPPED" /\ incoming_channel[h] = 0

\* While the peer uses our channel numbers, every frame under way and the
\* peer's own table agree with the endpoint table.
MirrorOut(f) == f.by \in used /\ f.channel = outgoing_channel[f.by]

MirrorIn(f) ==
    /\ f.for \in used /\ f.channel = outgoing_channel[f.for]
    /\ f.kind = "begin" => f.remote_channel = f.channel

Mirror ==
    mirrored =>
        /\ \A i \in 1 .. Len(outbox) : MirrorOut(outbox[i])
        /\ \A i \in 1 .. Len(inbox) : MirrorIn(inbox[i])
        /\ \A ch \in PeerChannel :
              peer[ch] # None => peer[ch] \in used /\ outgoing_channel[peer[ch]] = ch
        /\ \A h \in Handle :
              /\ incoming_channel[h] \in {0, outgoing_channel[h]}
              /\ session_state[h] = "MAPPED" => incoming_channel[h] = outgoing_channel[h]

\* The inductive invariant.
IInv == TypeOK /\ Spaced /\ Announced /\ Fresh /\ Mirror

-----------------------------------------------------------------------------
(* The table *)

\* A sequence of channel numbers that are apart by at least their distance.
Apart(a, n) ==
    /\ \A j, k \in 1 .. n : j < k => a[k] - a[j] >= k - j
    /\ \A k \in 1 .. n : a[k] >= k - 1

\* Below the first gap the numbers are those of the index, above it they are
\* beyond: the argument behind the search of connection_create_endpoint.
LEMMA GapSplits ==
  ASSUME NEW n \in Nat, NEW i \in 0 .. n, NEW a \in [1 .. n -> Nat], Apart(a, n),
         i < n => a[i + 1] > i,
         \A k \in 1 .. i : a[k] <= k - 1
  PROVE  /\ \A k \in 1 .. i : a[k] = k - 1
         /\ \A k \in i + 1 .. n : a[k] >= k
  <1>1. \A k \in 1 .. i : a[k] = k - 1
    <2> SUFFICES ASSUME NEW k \in 1 .. i PROVE a[k] = k - 1
      OBVIOUS
    <2>1. k \in 1 .. n /\ a[k] \in Nat /\ a[k] <= k - 1 /\ a[k] >= k - 1
      BY DEF Apart
    <2> QED
      BY <2>1
  <1>2. \A k \in i + 1 .. n : a[k] >= k
    <2> SUFFICES ASSUME NEW k \in i + 1 .. n PROVE a[k] >= k
      OBVIOUS
    <2>1. i + 1 \in 1 .. n /\ k \in 1 .. n /\ a[i + 1] \in Nat /\ a[k] \in Nat
      OBVIOUS
    <2>2. a[i + 1] >= i + 1
      BY <2>1
    <2>3. k = i + 1 \/ a[k] - a[i + 1] >= k - (i + 1)
      BY <2>1 DEF Apart
    <2> QED
      BY <2>1, <2>2, <2>3
  <1> QED
    BY <1>1, <1>2

\* The number i stored in the first gap i keeps them apart.
LEMMA InsertApart ==
  ASSUME NEW n \in Nat, NEW i \in 0 .. n, NEW a \in [1 .. n -> Nat], Apart(a, n),
         \A k \in 1 .. i : a[k] = k - 1,
         \A k \in i + 1 .. n : a[k] >= k,
         NEW b, \A k \in 1 .. n + 1 :
                    b[k] = IF k <= i THEN a[k] ELSE IF k = i + 1 THEN i ELSE a[k - 1]
  PROVE  Apart(b, n + 1)
  <1>1. \A k \in 1 .. i : b[k] = k - 1
    OBVIOUS
  <1>2. b[i + 1] = i
    OBVIOUS
  <1>3. \A k \in i + 2 .. n + 1 : k - 1 \in 1 .. n /\ b[k] = a[k - 1] /\ b[k] \in Nat /\ b[k] >= k - 1
    OBVIOUS
  <1>4. ASSUME NEW j \in 1 .. n + 1, NEW k \in 1 .. n + 1, j < k
        PROVE  b[k] - b[j] >= k - j
    <2>1. CASE k <= i + 1
      <3>1. b[k] = k - 1 /\ b[j] = j - 1
        BY <1>1, <1>2, <1>4, <2>1
      <3> QED
        BY <3>1
    <2>2. CASE k > i + 1 /\ j <= i + 1
      <3>1. b[j] = j - 1
        BY <1>1, <1>2, <2>2
      <3>2. b[k] \in Nat /\ b[k] >= k - 1
        BY <1>3, <2>2
      <3> QED
        BY <3>1, <3>2
    <2>3. CASE j > i + 1
      <3>1. j - 1 \in 1 .. n /\ k - 1 \in 1 .. n /\ b[j] = a[j - 1] /\ b[k] = a[k - 1]
        BY <1>3, <1>4, <2>3
      <3>2. a[k - 1] - a[j - 1] >= (k - 1) - (j - 1)
        BY <1>4, <3>1 DEF Apart
      <3>3. a[k - 1] \in Nat /\ a[j - 1] \in Nat
        BY <3>1
      <3> QED
        BY <3>1, <3>2, <3>3
    <2> QED
      BY <1>4, <2>1, <2>2, <2>3
  <1>5. \A k \in 1 .. n + 1 : b[k] >= k - 1
    BY <1>1, <1>2, <1>3
  <1> QED
    BY <1>4, <1>5 DEF Apart

\* So does taking one out.
LEMMA RemoveApart ==
  ASSUME NEW n \in Nat, NEW i \in 1 .. n, NEW a \in [1 .. n -> Nat], Apart(a, n),
         NEW b, \A k \in 1 .. n - 1 : b[k] = IF k < i THEN a[k] ELSE a[k + 1]
  PROVE  Apart(b, n - 1)
  <1>1. ASSUME NEW j \in 1 .. n - 1, NEW k \in 1 .. n - 1, j < k
        PROVE  b[k] - b[j] >= k - j
    <2> DEFINE p == IF j < i THEN j ELSE j + 1
               q == IF k < i THEN k ELSE k + 1
    <2>1. p \in 1 .. n /\ q \in 1 .. n /\ p < q /\ q - p >= k - j
      BY <1>1
    <2>2. b[j] = a[p] /\ b[k] = a[q]
      OBVIOUS
    <2>3. a[q] - a[p] >= q - p /\ a[p] \in Nat /\ a[q] \in Nat
      BY <2>1 DEF Apart
    <2> HIDE DEF p, q
    <2> QED
      BY <1>1, <2>1, <2>2, <2>3
  <1>2. ASSUME NEW k \in 1 .. n - 1 PROVE b[k] >= k - 1
    <2>1. k \in 1 .. n /\ k + 1 \in 1 .. n
      OBVIOUS
    <2>2. a[k] >= k - 1 /\ a[k + 1] >= k /\ a[k] \in Nat /\ a[k + 1] \in Nat
      BY <2>1 DEF Apart
    <2> QED
      BY <2>2
  <1> QED
    BY <1>1, <1>2 DEF Apart

\* connection_create_endpoint keeps the numbers apart, and the new one is the
\* lowest that is free.
LEMMA CreateSpaced ==
  ASSUME TypeOK, Spaced, NEW h \in Handle, h \notin Live, connection_create_endpoint(h)
  PROVE  /\ endpoints' \in Seq(Live \cup {h})
         /\ outgoing_channel' \in [Handle -> Channels]
         /\ Live' = Live \cup {h}
         /\ \A e \in Handle \ {h} : outgoing_channel'[e] = outgoing_channel[e]
         /\ Spaced'
         /\ \A e \in Live : outgoing_channel[e] # outgoing_channel'[h]
         /\ \A c \in 0 .. outgoing_channel'[h] - 1 : \E e \in Live : outgoing_channel[e] = c
  <1> DEFINE n == Len(endpoints)
             a == [k \in 1 .. n |-> outgoing_channel[endpoints[k]]]
             b == [k \in 1 .. n + 1 |-> outgoing_channel'[endpoints'[k]]]
  <1>1. n \in Nat /\ n < channel_max /\ \A k \in 1 .. n : endpoints[k] \in Live /\ endpoints[k] \in Handle
    BY DEF TypeOK, Live, connection_create_endpoint
  <1>2. a \in [1 .. n -> Nat]
    BY <1>1 DEF TypeOK, Channels
  <1>3. PICK i \in 0 .. n : /\ first_gap(i)
                            /\ endpoints' = inserted(i, h)
                            /\ outgoing_channel' = [outgoing_channel EXCEPT ![h] = i]
    BY DEF connection_create_endpoint
  <1>4. \A k \in 1 .. n + 1 :
            endpoints'[k] = IF k <= i THEN endpoints[k]
                            ELSE IF k = i + 1 THEN h ELSE endpoints[k - 1]
    BY <1>3 DEF inserted
  <1>5. endpoints' \in Seq(Live \cup {h}) /\ Len(endpoints') = n + 1
    BY <1>1, <1>3 DEF inserted
  <1>6. outgoing_channel' \in [Handle -> Channels]
    BY <1>1, <1>3 DEF TypeOK, Channels
  <1>7. Live' = Live \cup {h}
    <2>1. Live' = {endpoints'[k] : k \in 1 .. n + 1}
      BY <1>5 DEF Live
    <2>2. Live' \subseteq Live \cup {h}
      BY <1>1, <1>4, <2>1, SMTT(40)
    <2>3. h \in Live'
      <3>1. i + 1 \in 1 .. n + 1 /\ endpoints'[i + 1] = h
        BY <1>1, <1>4
      <3> QED
        BY <2>1, <3>1
    <2>4. ASSUME NEW e \in Live PROVE e \in Live'
      <3>1. PICK k \in 1 .. n : e = endpoints[k]
        BY DEF Live
      <3>2. CASE k <= i
        BY <1>1, <1>4, <2>1, <3>1, <3>2
      <3>3. CASE k > i
        <4>1. k + 1 \in 1 .. n + 1 /\ endpoints'[k + 1] = endpoints[k]
          BY <1>1, <1>4, <3>3
        <4> QED
          BY <2>1, <3>1, <4>1
      <3> QED
        BY <3>2, <3>3
    <2> QED
      BY <2>2, <2>3, <2>4
  <1>8. \A k \in 1 .. n : endpoints[k] # h
    BY DEF Live
  <1>9. \A k \in 1 .. n + 1 : b[k] = IF k <= i THEN a[k] ELSE IF k = i + 1 THEN i ELSE a[k - 1]
    <2> SUFFICES ASSUME NEW k \in 1 .. n + 1
                 PROVE  b[k] = IF k <= i THEN a[k] ELSE IF k = i + 1 THEN i ELSE a[k - 1]
      OBVIOUS
    <2>1. outgoing_channel'[h] = i /\ \A e \in Handle \ {h} : outgoing_channel'[e] = outgoing_channel[e]
      BY <1>3 DEF TypeOK
    <2>2. CASE k <= i
      BY <1>1, <1>4, <1>8, <2>1, <2>2
    <2>3. CASE k = i + 1
      BY <1>1, <1>4, <2>1, <2>3
    <2>4. CASE k > i + 1
      <3>1. k - 1 \in 1 .. n /\ endpoints'[k] = endpoints[k - 1]
        BY <1>1, <1>4, <2>4
      <3> QED
        BY <1>1, <1>8, <2>1, <2>4, <3>1
    <2> QED
      BY <2>2, <2>3, <2>4
  <1>10. Apart(a, n)
    BY DEF Spaced, Apart
  <1>11. (i < n => a[i + 1] > i) /\ \A k \in 1 .. i : a[k] <= k - 1
    BY <1>1, <1>3 DEF first_gap
  <1>12. /\ \A k \in 1 .. i : a[k] = k - 1
         /\ \A k \in i + 1 .. n : a[k] >= k
    <2> HIDE DEF a, n
    <2> QED
      BY <1>1, <1>2, <1>10, <1>11, GapSplits
  <1>13. Apart(b, n + 1)
    <2> HIDE DEF a, b, n
    <2> QED
      BY <1>1, <1>2, <1>9, <1>10, <1>12, InsertApart
  <1>14. Spaced'
    <2>1. \A k \in 1 .. n + 1 : b[k] = outgoing_channel'[endpoints'[k]]
      OBVIOUS
    <2>2. n + 1 <= channel_max
      BY <1>1
    <2> HIDE DEF b
    <2>3. /\ \A j, k \in 1 .. n + 1 : j < k => b[k] - b[j] >= k - j
          /\ \A k \in 1 .. n + 1 : b[k] >= k - 1
      BY <1>13 DEF Apart
    <2>4. /\ \A j, k \in 1 .. n + 1 :
                j < k => outgoing_channel'[endpoints'[k]] - outgoing_channel'[endpoints'[j]] >= k - j
          /\ \A k \in 1 .. n + 1 : outgoing_channel'[endpoints'[k]] >= k - 1
      BY <2>1, <2>3
    <2> HIDE DEF n
    <2> QED
      BY <1>5, <2>2, <2>4 DEF Spaced
  <1>15. outgoing_channel'[h] = i
    BY <1>3 DEF TypeOK
  <1>16. \A e \in Live : outgoing_channel[e] # i
    <2> SUFFICES ASSUME NEW k \in 1 .. n PROVE a[k] # i
      BY DEF Live
    <2>1. k <= i \/ k \in i + 1 .. n
      BY <1>1
    <2> HIDE DEF a
    <2> QED
      BY <1>1, <1>2, <1>12, <2>1
  <1>17. \A c \in 0 .. i - 1 : \E e \in Live : outgoing_channel[e] = c
    <2> SUFFICES ASSUME NEW c \in 0 .. i - 1 PROVE \E e \in Live : outgoing_channel[e] = c
      OBVIOUS
    <2>1. c + 1 \in 1 .. i /\ c + 1 \in 1 .. n
      BY <1>1, <1>3
    <2>2. a[c + 1] = c
      <3> HIDE DEF a
      <3> QED
        BY <1>12, <2>1
    <2> QED
      BY <1>1, <2>1, <2>2
  <1>18. \A e \in Handle \ {h} : outgoing_channel'[e] = outgoing_channel[e]
    BY <1>3 DEF TypeOK
  <1> QED
    BY <1>5, <1>6, <1>7, <1>14, <1>15, <1>16, <1>17, <1>18

\* connection_destroy_endpoint keeps them apart too.
LEMMA DestroySpaced ==
  ASSUME TypeOK, Spaced, NEW h \in Handle, connection_destroy_endpoint(h),
         UNCHANGED outgoing_channel
  PROVE  endpoints' \in Seq(used) /\ Live' \subseteq Live /\ Spaced'
  <1> DEFINE n == Len(endpoints)
             a == [k \in 1 .. n |-> outgoing_channel[endpoints[k]]]
             b == [k \in 1 .. n - 1 |-> outgoing_channel'[endpoints'[k]]]
  <1>1. n \in Nat /\ \A k \in 1 .. n : endpoints[k] \in used /\ endpoints[k] \in Handle
    BY DEF TypeOK
  <1>2. a \in [1 .. n -> Nat]
    BY <1>1 DEF TypeOK, Channels
  <1>3. PICK i \in 1 .. n : endpoints' = removed(i)
    BY DEF connection_destroy_endpoint
  <1>4. \A k \in 1 .. n - 1 : endpoints'[k] = IF k < i THEN endpoints[k] ELSE endpoints[k + 1]
    BY <1>3 DEF removed
  <1>5. endpoints' \in Seq(used) /\ Len(endpoints') = n - 1
    BY <1>1, <1>3 DEF removed
  <1>6. Live' \subseteq Live
    BY <1>1, <1>4, <1>5 DEF Live
  <1>7. \A k \in 1 .. n - 1 : b[k] = IF k < i THEN a[k] ELSE a[k + 1]
    BY <1>1, <1>4
  <1>8. Apart(a, n)
    BY DEF Spaced, Apart
  <1>9. Apart(b, n - 1)
    <2> HIDE DEF a, b, n
    <2> QED
      BY <1>1, <1>2, <1>3, <1>7, <1>8, RemoveApart
  <1>10. \A k \in 1 .. n - 1 : b[k] = outgoing_channel'[endpoints'[k]]
    OBVIOUS
  <1>11. n - 1 <= channel_max
    BY <1>1 DEF Spaced
  <1>12. Spaced'
    <2> HIDE DEF b
    <2>1. /\ \A j, k \in 1 .. n - 1 : j < k => b[k] - b[j] >= k - j
          /\ \A k \in 1 .. n - 1 : b[k] >= k - 1
      BY <1>9 DEF Apart
    <2>2. /\ \A j, k \in 1 .. n - 1 :
                j < k => outgoing_channel'[endpoints'[k]] - outgoing_channel'[endpoints'[j]] >= k - j
          /\ \A k \in 1 .. n - 1 : outgoing_channel'[endpoints'[k]] >= k - 1
      BY <1>10, <2>1
    <2> HIDE DEF n
    <2> QED
      BY <1>5, <1>11, <2>2 DEF Spaced
  <1> QED
    BY <1>5, <1>6, <1>12

-----------------------------------------------------------------------------
(* Steps *)

\* What a step does to the table: nothing, a new endpoint or one fewer.
TableUnchanged == UNCHANGED <<endpoints, outgoing_channel>>
Creates(h) == h \notin Live /\ connection_create_endpoint(h) /\ h \in used'
Destroys(h) == connection_destroy_endpoint(h) /\ UNCHANGED <<outgoing_channel, used>>

\* Every step does one of the three to the table.
LEMMA TableStep ==
  ASSUME IInv, [Next]_vars
  PROVE  TableUnchanged \/ \E h \in Handle : Creates(h) \/ Destroys(h)
  <1>1. CASE Application
    <2> SUFFICES ASSUME NEW h \in Handle,
                        session_create(h) \/ session_begin(h) \/ attach(h)
                            \/ session_end(h) \/ session_destroy(h)
                 PROVE  TableUnchanged \/ Creates(h) \/ Destroys(h)
      BY <1>1 DEF Application
    <2>1. CASE session_create(h)
      <3>1. h \notin Live
        BY <2>1 DEF session_create, IInv, TypeOK, Live
      <3> QED
        BY <2>1, <3>1 DEF session_create, Creates
    <2>2. CASE session_destroy(h)
      BY <2>2 DEF session_destroy, Destroys
    <2>3. CASE session_begin(h) \/ attach(h) \/ session_end(h)
      BY <2>3 DEF session_begin, attach, session_end, table, TableUnchanged
    <2> QED
      BY <2>1, <2>2, <2>3
  <1>2. CASE Connection
    BY <1>2 DEF Connection, connection_opened, connection_ended, connection_failed,
                connection_down, connection_discards, table, TableUnchanged
  <1>3. CASE begin_received \/ transfer_received \/ end_received
    BY <1>3 DEF begin_received, transfer_received, end_received, table, TableUnchanged
  <1>4. CASE new_endpoint
    <2>1. UNCHANGED <<table, session_state, outbox>> \/ connection_create_endpoint(Head(inbox).for)
      BY <1>4 DEF new_endpoint
    <2>2. CASE UNCHANGED table
      BY <2>2 DEF table, TableUnchanged
    <2>3. CASE connection_create_endpoint(Head(inbox).for)
      <3>1. /\ inbox # <<>> /\ Head(inbox).kind = "begin"
            /\ Head(inbox).remote_channel = None /\ used' = used
        BY <1>4 DEF new_endpoint, received
      <3>2. 1 \in 1 .. Len(inbox) /\ inbox[1] = Head(inbox) /\ inbox[1] \in InFrames
        BY <3>1 DEF IInv, TypeOK
      <3>3. Head(inbox).for \in Handle /\ Head(inbox).for \in used /\ Head(inbox).for \notin Live
        BY <3>1, <3>2 DEF IInv, Announced, Announces, InFrames
      <3> QED
        BY <2>3, <3>1, <3>3 DEF Creates
    <2> QED
      BY <2>1, <2>2, <2>3
  <1>5. CASE PeerAnswers
    BY <1>5 DEF PeerAnswers, peer_begin, peer_end, peer_takes, table, TableUnchanged
  <1>6. CASE PeerActs
    BY <1>6 DEF PeerActs, peer_begins, peer_transfers, peer_ends, peer_may_send, table,
                TableUnchanged
  <1>7. CASE UNCHANGED vars
    BY <1>7 DEF vars, table, TableUnchanged
  <1> QED
    BY <1>1, <1>2, <1>3, <1>4, <1>5, <1>6, <1>7 DEF Next, Receive

\* No step takes a handle back.
LEMMA UsedGrows ==
  ASSUME IInv, [Next]_vars
  PROVE  used \subseteq used' /\ used' \subseteq Handle
  BY DEF IInv, TypeOK, Next, Application, session_create, session_begin, attach, session_end,
         session_destroy, Connection, connection_opened, connection_ended, connection_failed,
         connection_down, connection_discards, Receive, begin_received, new_endpoint,
         transfer_received, end_received, PeerAnswers, peer_begin, peer_end, peer_takes,
         PeerActs, peer_begins, peer_transfers, peer_ends, peer_may_send, vars

\* Every step keeps the table sorted and gap-filling, whatever it does to it.
LEMMA SpacedStep ==
  ASSUME IInv, [Next]_vars
  PROVE  /\ Spaced'
         /\ endpoints' \in Seq(used')
         /\ outgoing_channel' \in [Handle -> Channels]
         /\ Live' \subseteq Live \/ \E h \in Handle : Creates(h) /\ Live' = Live \cup {h}
  <1>1. CASE TableUnchanged
    <2>1. Live' = Live /\ Spaced'
      BY <1>1 DEF TableUnchanged, IInv, Spaced, Live
    <2>2. endpoints' \in Seq(used')
      BY <1>1, UsedGrows DEF TableUnchanged, IInv, TypeOK
    <2> QED
      BY <1>1, <2>1, <2>2 DEF TableUnchanged, IInv, TypeOK
  <1>2. CASE \E h \in Handle : Creates(h)
    <2>1. PICK h \in Handle : Creates(h)
      BY <1>2
    <2>2. /\ endpoints' \in Seq(Live \cup {h}) /\ Live' = Live \cup {h} /\ Spaced'
          /\ outgoing_channel' \in [Handle -> Channels]
      BY <2>1, CreateSpaced DEF IInv, Creates
    <2>3. Live \cup {h} \subseteq used'
      BY <2>1, UsedGrows DEF Creates, IInv, TypeOK, Live
    <2>4. endpoints' \in Seq(used')
      BY <2>2, <2>3
    <2> QED
      BY <2>1, <2>2, <2>4
  <1>3. CASE \E h \in Handle : Destroys(h)
    <2>1. PICK h \in Handle : Destroys(h)
      BY <1>3
    <2>2. endpoints' \in Seq(used) /\ Live' \subseteq Live /\ Spaced'
      BY <2>1, DestroySpaced DEF IInv, Destroys
    <2> QED
      BY <2>1, <2>2 DEF Destroys, IInv, TypeOK
  <1> QED
    BY <1>1, <1>2, <1>3, TableStep

\* What a step does to the frames from the peer.
InboxUnchanged == inbox' = inbox
InboxLost == inbox' = <<>>
InboxRead == inbox # <<>> /\ inbox' = Tail(inbox)
InboxGets(g) ==
    /\ inbox' = Append(inbox, g)
    /\ TableUnchanged
    /\ Announces(g) => g.for \in used' \ used
    /\ mirrored' => mirrored /\ MirrorIn(g)

\* What a step does to the frames under way from the peer.
LEMMA InboxStep ==
  ASSUME IInv, [Next]_vars
  PROVE  InboxUnchanged \/ InboxLost \/ InboxRead \/ \E g \in InFrames : InboxGets(g)
  <1>1. CASE Application
    BY <1>1 DEF Application, session_create, session_begin, attach, session_end,
                session_destroy, network, InboxUnchanged
  <1>2. CASE Connection
    BY <1>2 DEF Connection, connection_opened, connection_ended, connection_failed,
                connection_down, connection_discards, lost, InboxUnchanged, InboxLost
  <1>3. CASE Receive
    BY <1>3 DEF Receive, begin_received, new_endpoint, transfer_received, end_received,
                received, InboxRead
  <1>4. ASSUME NEW i \in 1 .. Len(outbox), peer_begin(i)
        PROVE  InboxUnchanged \/ \E g \in InFrames : InboxGets(g)
    <2>1. outbox[i] \in OutFrames /\ TableUnchanged /\ used' = used
      BY <1>4 DEF peer_begin, peer_takes, IInv, TypeOK, table, TableUnchanged
    <2>2. CASE outbox[i].remote_channel # None
      BY <1>4, <2>2 DEF peer_begin, InboxUnchanged
    <2>3. CASE outbox[i].remote_channel = None
      <3>1. PICK ch \in PeerChannel :
                /\ peer_sends("begin", ch, outbox[i].channel, outbox[i].by)
                /\ mirrored' = (mirrored /\ ch = outbox[i].channel)
        BY <1>4, <2>3 DEF peer_begin
      <3> DEFINE g == [kind |-> "begin", channel |-> ch,
                       remote_channel |-> outbox[i].channel, for |-> outbox[i].by]
      <3>2. g \in InFrames /\ inbox' = Append(inbox, g)
        BY <2>1, <3>1 DEF InFrames, OutFrames, peer_sends
      <3>3. ~Announces(g)
        BY <2>1 DEF Announces, OutFrames, Channels
      <3>4. mirrored' => mirrored /\ ch = outbox[i].channel
        BY <3>1
      <3>5. mirrored' => MirrorIn(g)
        BY <3>4 DEF MirrorIn, IInv, Mirror, MirrorOut
      <3> QED
        BY <2>1, <3>2, <3>3, <3>4, <3>5 DEF InboxGets
    <2> QED
      BY <2>2, <2>3
  <1>5. ASSUME NEW i \in 1 .. Len(outbox), peer_end(i)
        PROVE  InboxUnchanged \/ \E g \in InFrames : InboxGets(g)
    <2>1. outbox[i] \in OutFrames /\ TableUnchanged /\ mirrored' = mirrored
      BY <1>5 DEF peer_end, peer_takes, IInv, TypeOK, table, TableUnchanged
    <2>2. CASE inbox' = inbox
      BY <2>2 DEF InboxUnchanged
    <2>3. CASE inbox' # inbox
      <3>1. PICK ch \in PeerChannel : peer[ch] = outbox[i].by /\ peer_sends("end", ch, None, outbox[i].by)
        BY <1>5, <2>3 DEF peer_end
      <3> DEFINE g == [kind |-> "end", channel |-> ch, remote_channel |-> None, for |-> outbox[i].by]
      <3>2. g \in InFrames /\ inbox' = Append(inbox, g) /\ ~Announces(g)
        BY <2>1, <3>1 DEF InFrames, OutFrames, peer_sends, Announces
      <3>3. mirrored => MirrorIn(g)
        BY <2>1, <3>1 DEF MirrorIn, IInv, Mirror, OutFrames
      <3> QED
        BY <2>1, <3>2, <3>3 DEF InboxGets
    <2> QED
      BY <2>2, <2>3
  <1>6. ASSUME NEW ch \in PeerChannel, NEW h \in Handle, peer_begins(ch, h)
        PROVE  \E g \in InFrames : InboxGets(g)
    <2> DEFINE g == [kind |-> "begin", channel |-> ch, remote_channel |-> None, for |-> h]
    <2>1. g \in InFrames /\ inbox' = Append(inbox, g) /\ TableUnchanged
      BY <1>6 DEF InFrames, peer_begins, peer_sends, peer_may_send, table, TableUnchanged
    <2>2. g.for \in used' \ used /\ mirrored' = FALSE
      BY <1>6 DEF peer_begins
    <2> QED
      BY <2>1, <2>2 DEF InboxGets
  <1>7. ASSUME NEW ch \in PeerChannel, peer_transfers(ch) \/ peer_ends(ch)
        PROVE  \E g \in InFrames : InboxGets(g)
    <2>1. /\ peer[ch] \in Handle /\ TableUnchanged /\ mirrored' = mirrored
          /\ peer_sends("transfer", ch, None, peer[ch]) \/ peer_sends("end", ch, None, peer[ch])
      BY <1>7 DEF peer_transfers, peer_ends, peer_may_send, table, TableUnchanged, remote
    <2>2. PICK kind \in {"transfer", "end"} : peer_sends(kind, ch, None, peer[ch])
      BY <2>1
    <2> DEFINE g == [kind |-> kind, channel |-> ch, remote_channel |-> None, for |-> peer[ch]]
    <2>3. g \in InFrames /\ inbox' = Append(inbox, g) /\ ~Announces(g)
      BY <2>1, <2>2 DEF InFrames, peer_sends, Announces
    <2>4. mirrored => MirrorIn(g)
      BY <2>1, <2>2 DEF MirrorIn, IInv, Mirror
    <2> QED
      BY <2>1, <2>3, <2>4 DEF InboxGets
  <1>8. CASE UNCHANGED vars
    BY <1>8 DEF vars, network, InboxUnchanged
  <1> QED
    BY <1>1, <1>2, <1>3, <1>4, <1>5, <1>6, <1>7, <1>8 DEF Next, PeerAnswers, PeerActs

\* What a step puts into the outbox comes from an endpoint of the table.
OutboxFrame(g) == g \in OutFrames /\ g.by \in used' /\ g.channel = outgoing_channel'[g.by]
OutboxShrinks ==
    /\ outbox' \in Seq(OutFrames)
    /\ \A i \in 1 .. Len(outbox') : \E j \in 1 .. Len(outbox) : outbox'[i] = outbox[j]
OutboxGets(g) == outbox' = Append(outbox, g) /\ OutboxFrame(g)
OutboxBegins == outbox' \in Seq(OutFrames) /\ \A i \in 1 .. Len(outbox') : OutboxFrame(outbox'[i])

\* What a step does to the frames under way to the peer.
LEMMA OutboxStep ==
  ASSUME IInv, [Next]_vars
  PROVE  OutboxShrinks \/ OutboxBegins \/ \E g \in OutFrames : OutboxGets(g)
  <1>1. outbox' = outbox => OutboxShrinks
    BY DEF OutboxShrinks, IInv, TypeOK
  <1>2. outbox' = <<>> => OutboxShrinks
    BY DEF OutboxShrinks
  <1>3. ASSUME NEW h \in Live, UNCHANGED <<outgoing_channel, used>>
        PROVE  /\ h \in Handle
               /\ OutboxFrame(end_frame(h))
               /\ \A ch \in PeerChannel \cup {None} : OutboxFrame(begin_frame(h, ch))
    BY <1>3 DEF OutboxFrame, end_frame, begin_frame, OutFrames, IInv, TypeOK, Live
  <1>4. CASE Application
    <2>1. PICK h \in Handle : session_create(h) \/ session_begin(h) \/ attach(h)
                                  \/ session_end(h) \/ session_destroy(h)
      BY <1>4 DEF Application
    <2>2. CASE session_create(h) \/ session_begin(h) \/ attach(h)
      BY <1>1, <2>2 DEF session_create, session_begin, attach, network
    <2>3. CASE session_end(h) \/ session_destroy(h)
      <3>1. h \in Live /\ end_session(h) /\ UNCHANGED <<outgoing_channel, used>>
        BY <2>3 DEF session_end, session_destroy, table
      <3>2. outbox' = outbox \/ outbox' = Append(outbox, end_frame(h))
        BY <3>1 DEF end_session, send_end_frame
      <3> QED
        BY <1>1, <1>3, <3>1, <3>2 DEF OutboxGets, OutboxFrame
    <2> QED
      BY <2>1, <2>2, <2>3
  <1>5. CASE connection_opened
    <2>1. PICK n \in 0 .. Len(endpoints) :
              \E begins \in [1 .. n -> {h \in Live : started[h]}] :
                  outbox' = [i \in 1 .. n |-> begin_frame(begins[i], None)]
      BY <1>5 DEF connection_opened
    <2>2. PICK begins \in [1 .. n -> {h \in Live : started[h]}] :
              outbox' = [i \in 1 .. n |-> begin_frame(begins[i], None)]
      BY <2>1
    <2>3. UNCHANGED <<outgoing_channel, used>>
      BY <1>5 DEF connection_opened, table
    <2>4. n \in Nat
      BY DEF IInv, TypeOK
    <2>5. \A i \in 1 .. n : begins[i] \in Live /\ OutboxFrame(begin_frame(begins[i], None))
      BY <1>3, <2>2, <2>3
    <2>6. outbox' \in Seq(OutFrames) /\ Len(outbox') = n
      BY <2>2, <2>4, <2>5 DEF OutboxFrame
    <2> QED
      BY <2>2, <2>5, <2>6 DEF OutboxBegins
  <1>6. CASE connection_ended \/ connection_failed \/ connection_discards
    BY <1>2, <1>6 DEF connection_ended, connection_failed, connection_down,
                      connection_discards, lost
  <1>7. CASE begin_received
    <2>1. UNCHANGED <<outgoing_channel, used>>
      BY <1>7 DEF begin_received
    <2>2. Head(inbox).channel \in PeerChannel
      <3>1. inbox # <<>>
        BY <1>7 DEF begin_received, received
      <3>2. Head(inbox) \in InFrames
        BY <3>1 DEF IInv, TypeOK
      <3> QED
        BY <3>2 DEF InFrames
    <2>3. outbox' = outbox \/ \E e \in Live : outbox' = Append(outbox, begin_frame(e, Head(inbox).channel))
      BY <1>7 DEF begin_received, session_begin_received, crash
    <2> QED
      BY <1>1, <1>3, <2>1, <2>2, <2>3 DEF OutboxGets, OutboxFrame
  <1>8. CASE new_endpoint
    <2>1. CASE outbox' = outbox
      BY <1>1, <2>1
    <2>2. CASE outbox' # outbox
      <3> DEFINE h == Head(inbox).for
                 g == [kind |-> "begin", channel |-> outgoing_channel'[h],
                       remote_channel |-> Head(inbox).channel, by |-> h]
      <3>1. outbox' = Append(outbox, g)
        BY <1>8, <2>2 DEF new_endpoint
      <3>2. /\ inbox # <<>> /\ Head(inbox).kind = "begin"
            /\ Head(inbox).remote_channel = None /\ used' = used
        BY <1>8 DEF new_endpoint, received
      <3>3. 1 \in 1 .. Len(inbox) /\ inbox[1] = Head(inbox) /\ inbox[1] \in InFrames
        BY <3>2 DEF IInv, TypeOK
      <3>4. h \in Handle /\ h \in used'
        BY <3>2, <3>3 DEF IInv, Announced, Announces, InFrames
      <3>5. OutboxFrame(g)
        BY <3>3, <3>4, SpacedStep DEF OutboxFrame, OutFrames, InFrames
      <3> QED
        BY <3>1, <3>5 DEF OutboxGets, OutboxFrame
    <2> QED
      BY <2>1, <2>2
  <1>9. CASE transfer_received \/ end_received
    <2>1. UNCHANGED <<outgoing_channel, used>>
      BY <1>9 DEF transfer_received, end_received, table
    <2>2. outbox' = outbox \/ \E e \in Live : outbox' = Append(outbox, end_frame(e))
      BY <1>9 DEF transfer_received, end_received, send_end_frame, crash
    <2> QED
      BY <1>1, <1>3, <2>1, <2>2 DEF OutboxGets, OutboxFrame
  <1>10. CASE PeerAnswers
    <2>1. PICK i \in 1 .. Len(outbox) : peer_takes(i)
      BY <1>10 DEF PeerAnswers, peer_begin, peer_end
    <2>2. outbox' = [k \in 1 .. Len(outbox) - 1 |-> IF k < i THEN outbox[k] ELSE outbox[k + 1]]
      BY <2>1 DEF peer_takes
    <2>3. Len(outbox) \in Nat /\ \A k \in 1 .. Len(outbox) : outbox[k] \in OutFrames
      BY DEF IInv, TypeOK
    <2>4. outbox' \in Seq(OutFrames) /\ Len(outbox') = Len(outbox) - 1
      BY <2>2, <2>3
    <2>5. \A k \in 1 .. Len(outbox') : \E j \in 1 .. Len(outbox) : outbox'[k] = outbox[j]
      BY <2>2, <2>3, <2>4
    <2> QED
      BY <2>4, <2>5 DEF OutboxShrinks
  <1>11. CASE PeerActs
    BY <1>1, <1>11 DEF PeerActs, peer_begins, peer_transfers, peer_ends, peer_may_send
  <1>12. CASE UNCHANGED vars
    BY <1>1, <1>12 DEF vars, network
  <1> QED
    BY <1>4, <1>5, <1>6, <1>7, <1>8, <1>9, <1>10, <1>11, <1>12 DEF Next, Connection, Receive

-----------------------------------------------------------------------------
(* The inductive step *)

\* A connection without sessions satisfies the invariant.
LEMMA InitIInv == Init => IInv
  BY DEF Init, IInv, TypeOK, Spaced, Announced, Fresh, Mirror, Live, Channels,
         ConnectionStates, SessionStates

\* The head of the inbox.
LEMMA HeadOfInbox ==
  ASSUME IInv, inbox # <<>>
  PROVE  /\ 1 \in 1 .. Len(inbox) /\ inbox[1] = Head(inbox)
         /\ Head(inbox) \in InFrames
         /\ Head(inbox).channel \in PeerChannel
         /\ Head(inbox).for \in Handle
  <1>1. 1 \in 1 .. Len(inbox) /\ inbox[1] = Head(inbox) /\ Head(inbox) \in InFrames
    BY DEF IInv, TypeOK
  <1> QED
    BY <1>1 DEF InFrames

\* The fields of a session and of its endpoint.
Fields ==
    /\ connection_state \in ConnectionStates
    /\ incoming_channel \in [Handle -> PeerChannel \cup {0}]
    /\ session_state \in [Handle -> SessionStates]
    /\ Fresh

MirrorFields ==
    \A h \in Handle :
        /\ incoming_channel[h] \in {0, outgoing_channel[h]}
        /\ session_state[h] = "MAPPED" => incoming_channel[h] = outgoing_channel[h]

\* Every step keeps the flags of the sessions Boolean.
LEMMA BooleanStep ==
  ASSUME IInv, [Next]_vars
  PROVE  started' \in [Handle -> BOOLEAN] /\ linked' \in [Handle -> BOOLEAN]
  <1>1. \/ started' = started
        \/ \E h \in Handle : started' = [started EXCEPT ![h] = TRUE]
    <2>1. CASE new_endpoint
      <3>1. inbox # <<>>
        BY <2>1 DEF new_endpoint, received
      <3> QED
        BY <2>1, <3>1, HeadOfInbox DEF new_endpoint, table
    <2>2. CASE ~new_endpoint
      BY <2>2 DEF Next, Application, session_create, session_begin, attach, session_end,
         session_destroy, Connection, connection_opened, connection_ended, connection_failed,
         connection_down, connection_discards, Receive, begin_received,
         transfer_received, end_received, PeerAnswers, peer_begin, peer_end, peer_takes,
         PeerActs, peer_begins, peer_transfers, peer_ends, peer_may_send, vars, table
    <2> QED
      BY <2>1, <2>2
  <1>2. \/ linked' = linked
        \/ \E h \in Handle : \/ linked' = [linked EXCEPT ![h] = TRUE]
                              \/ linked' = [linked EXCEPT ![h] = FALSE]
    BY DEF Next, Application, session_create, session_begin, attach, session_end,
         session_destroy, Connection, connection_opened, connection_ended, connection_failed,
         connection_down, connection_discards, Receive, begin_received, new_endpoint,
         transfer_received, end_received, PeerAnswers, peer_begin, peer_end, peer_takes,
         PeerActs, peer_begins, peer_transfers, peer_ends, peer_may_send, vars
  <1>3. started \in [Handle -> BOOLEAN] /\ linked \in [Handle -> BOOLEAN]
    BY DEF IInv, TypeOK
  <1> QED
    BY <1>1, <1>2, <1>3

\* Once a channel has not been mirrored, none is again.
LEMMA MirroredFalls ==
  ASSUME IInv, [Next]_vars
  PROVE  mirrored' \in BOOLEAN /\ (mirrored' => mirrored)
  <1>1. \/ mirrored' = mirrored \/ mirrored' = FALSE
        \/ \E i \in 1 .. Len(outbox) : \E ch \in PeerChannel :
              mirrored' = (mirrored /\ ch = outbox[i].channel)
    <2>1. CASE PeerAnswers
      <3>1. PICK i \in 1 .. Len(outbox) : peer_begin(i) \/ peer_end(i)
        BY <2>1 DEF PeerAnswers
      <3>2. CASE peer_begin(i)
        BY <3>2 DEF peer_begin, remote
      <3>3. CASE peer_end(i)
        BY <3>3 DEF peer_end
      <3> QED
        BY <3>1, <3>2, <3>3
    <2>2. CASE PeerActs
      <3>1. PICK ch \in PeerChannel : \/ \E h \in Handle : peer_begins(ch, h)
                                      \/ peer_transfers(ch) \/ peer_ends(ch)
        BY <2>2 DEF PeerActs
      <3> QED
        BY <3>1 DEF peer_begins, peer_transfers, peer_ends, remote
    <2>3. CASE Application
      BY <2>3 DEF Application, session_create, session_begin, attach, session_end,
                  session_destroy, remote
    <2>4. CASE Connection
      BY <2>4 DEF Connection, connection_opened, connection_ended, connection_failed,
                  connection_down, connection_discards, remote
    <2>5. CASE Receive
      BY <2>5 DEF Receive, begin_received, new_endpoint, transfer_received, end_received, remote
    <2>6. CASE UNCHANGED vars
      BY <2>6 DEF vars, remote
    <2> QED
      BY <2>1, <2>2, <2>3, <2>4, <2>5, <2>6 DEF Next
  <1>2. mirrored \in BOOLEAN
    BY DEF IInv, TypeOK
  <1>3. ASSUME NEW i \in 1 .. Len(outbox), NEW ch \in PeerChannel,
               mirrored' = (mirrored /\ ch = outbox[i].channel)
        PROVE  mirrored' \in BOOLEAN /\ (mirrored' => mirrored)
    BY <1>3
  <1>4. CASE mirrored' = mirrored
    BY <1>2, <1>4
  <1>5. CASE mirrored' = FALSE
    BY <1>5
  <1> QED
    BY <1>1, <1>3, <1>4, <1>5

\* Every step keeps the fields of connection, sessions and endpoints in their
\* types and, while the peer mirrors our channels, the incoming channels too.
LEMMA FieldsStep ==
  ASSUME IInv, [Next]_vars
  PROVE  Fields' /\ (mirrored => MirrorFields')
  <1> USE DEF ConnectionStates, SessionStates
  <1>1. Fields /\ (mirrored => MirrorFields) /\ Live \subseteq used /\ used \subseteq Handle
    BY DEF IInv, TypeOK, Mirror, Live, Fields, MirrorFields
  <1>2. ASSUME NEW h \in Handle, session_create(h) PROVE Fields' /\ (mirrored => MirrorFields')
    <2>1. /\ UNCHANGED <<connection_state, incoming_channel, session_state>>
          /\ h \notin used /\ used' = used \cup {h} /\ connection_create_endpoint(h)
      BY <1>2 DEF session_create
    <2>2. \A e \in Handle \ {h} : outgoing_channel'[e] = outgoing_channel[e]
      BY <1>1, <2>1, CreateSpaced DEF IInv
    <2>3. session_state[h] = "UNMAPPED" /\ incoming_channel[h] = 0
      BY <1>1, <2>1 DEF Fields, Fresh
    <2>4. Fields'
      BY <1>1, <2>1 DEF Fields, Fresh
    <2>5. mirrored => MirrorFields'
      BY <1>1, <2>1, <2>2, <2>3 DEF MirrorFields
    <2> QED
      BY <2>4, <2>5
  <1>3. ASSUME TableUnchanged, UNCHANGED incoming_channel,
               used \subseteq used', connection_state' \in ConnectionStates,
               session_state' \in [Handle -> SessionStates],
               \A h \in Handle : session_state'[h] = "MAPPED" => session_state[h] = "MAPPED",
               \A h \in Handle \ used : session_state'[h] = session_state[h]
        PROVE  Fields' /\ (mirrored => MirrorFields')
    BY <1>1, <1>3 DEF Fields, MirrorFields, Fresh, TableUnchanged
  <1>4. ASSUME NEW h \in Handle, session_begin(h) \/ attach(h) \/ session_end(h)
        PROVE  Fields' /\ (mirrored => MirrorFields')
    <2>1. TableUnchanged /\ UNCHANGED <<incoming_channel, connection_state>> /\ used' = used /\ h \in Live
      BY <1>4 DEF session_begin, attach, session_end, TableUnchanged, table
    <2>2. session_state' = session_state \/ session_state' = [session_state EXCEPT ![h] = "DISCARDING"]
      BY <1>4 DEF session_begin, attach, session_end, end_session
    <2> QED
      BY <1>1, <1>3, <2>1, <2>2 DEF Fields
  <1>5. ASSUME NEW h \in Handle, session_destroy(h) PROVE Fields' /\ (mirrored => MirrorFields')
    <2>1. UNCHANGED <<outgoing_channel, incoming_channel, connection_state>> /\ used' = used /\ h \in Live
      BY <1>5 DEF session_destroy
    <2>2. session_state' = session_state \/ session_state' = [session_state EXCEPT ![h] = "DISCARDING"]
      BY <1>5 DEF session_destroy, end_session
    <2> QED
      BY <1>1, <2>1, <2>2 DEF Fields, MirrorFields, Fresh
  <1>6. CASE Connection
    <2>1. TableUnchanged /\ UNCHANGED incoming_channel /\ used' = used
      BY <1>6 DEF Connection, connection_opened, connection_ended, connection_failed,
                  connection_down, connection_discards, TableUnchanged, table
    <2>2. connection_state' \in ConnectionStates
      BY <1>6 DEF Connection, connection_opened, connection_ended, connection_failed,
                  connection_down, connection_discards
    <2>3. \/ session_state' = session_state
          \/ \E down \in {"BEGIN_SENT", "DISCARDING", "ERROR"} :
                session_state' = [h \in Handle |->
                    IF h \in Live /\ started[h] THEN down ELSE session_state[h]]
      BY <1>6 DEF Connection, connection_opened, connection_ended, connection_failed,
                  connection_down, connection_discards
    <2> QED
      BY <1>1, <1>3, <2>1, <2>2, <2>3 DEF Fields
  <1>7. CASE begin_received
    <2> DEFINE f == Head(inbox)
    <2>1. inbox # <<>> /\ f.kind = "begin" /\ UNCHANGED <<outgoing_channel, used>>
      BY <1>7 DEF begin_received, received
    <2>2. f \in InFrames /\ f.channel \in PeerChannel /\ 1 \in 1 .. Len(inbox) /\ inbox[1] = f
      BY <2>1, HeadOfInbox
    <2>3. mirrored => f.remote_channel = f.channel
      BY <2>1, <2>2 DEF IInv, Mirror, MirrorIn
    <2>4. CASE UNCHANGED <<connection_state, incoming_channel, session_state>>
      BY <1>1, <2>1, <2>4 DEF Fields, MirrorFields, Fresh
    <2>5. ASSUME NEW e \in Live, outgoing_channel[e] = f.remote_channel,
                 incoming_channel' = [incoming_channel EXCEPT ![e] = f.channel],
                 connection_state' \in ConnectionStates,
                 \/ session_state' = session_state
                 \/ session_state' = [session_state EXCEPT ![e] = "MAPPED"]
          PROVE  Fields' /\ (mirrored => MirrorFields')
      BY <1>1, <2>1, <2>2, <2>3, <2>5 DEF Fields, MirrorFields, Fresh
    <2>6. CASE \E e \in Live :
                 /\ finds(outgoing_channel, f.remote_channel, e)
                 /\ incoming_channel' = [incoming_channel EXCEPT ![e] = f.channel]
                 /\ IF started[e] THEN session_begin_received(e, f.channel) ELSE crash
      <3>1. PICK e \in Live :
                 /\ finds(outgoing_channel, f.remote_channel, e)
                 /\ incoming_channel' = [incoming_channel EXCEPT ![e] = f.channel]
                 /\ session_begin_received(e, f.channel) \/ crash
        BY <2>6
      <3>2. connection_state' \in ConnectionStates
        BY <1>1, <3>1 DEF session_begin_received, crash, Fields
      <3>3. \/ session_state' = session_state
            \/ session_state' = [session_state EXCEPT ![e] = "MAPPED"]
        <4>1. CASE crash
          BY <4>1 DEF crash
        <4>2. CASE session_begin_received(e, f.channel)
          BY <1>1, <4>2 DEF session_begin_received, Fields
        <4> QED
          BY <3>1, <4>1, <4>2
      <3>4. outgoing_channel[e] = f.remote_channel
        BY <3>1 DEF finds
      <3> QED
        BY <2>5, <3>1, <3>2, <3>3, <3>4
    <2> QED
      BY <1>7, <2>4, <2>6 DEF begin_received
  <1>8. CASE new_endpoint
    <2> DEFINE f == Head(inbox)
    <2>1. inbox # <<>> /\ f.kind = "begin" /\ f.remote_channel = None /\ UNCHANGED <<connection_state, used>>
      BY <1>8 DEF new_endpoint, received
    <2>2. /\ f \in InFrames /\ f.channel \in PeerChannel /\ f.for \in Handle
          /\ 1 \in 1 .. Len(inbox) /\ inbox[1] = f
      BY <2>1, HeadOfInbox
    <2>3. ~mirrored
      BY <2>1, <2>2, ZenonT(60) DEF IInv, Mirror, MirrorIn
    <2>4. f.for \in used
      BY <2>1, <2>2 DEF IInv, Announced, Announces
    <2>5. \/ UNCHANGED <<incoming_channel, session_state>>
          \/ /\ incoming_channel' = [incoming_channel EXCEPT ![f.for] = f.channel]
             /\ session_state' = [session_state EXCEPT ![f.for] = "MAPPED"]
      BY <1>8 DEF new_endpoint, table
    <2> QED
      BY <1>1, <2>1, <2>2, <2>3, <2>4, <2>5 DEF Fields, Fresh
  <1>9. CASE transfer_received \/ end_received
    <2>1. TableUnchanged /\ UNCHANGED incoming_channel /\ used' = used
      BY <1>9 DEF transfer_received, end_received, TableUnchanged, table
    <2>2. connection_state' = connection_state \/ connection_state' = "CRASHED"
      BY <1>9 DEF transfer_received, end_received, crash
    <2>3. \/ session_state' = session_state
          \/ \E e \in Live : session_state' = [session_state EXCEPT ![e] = "DISCARDING"]
      BY <1>9 DEF transfer_received, end_received, crash
    <2> QED
      BY <1>1, <1>3, <2>1, <2>2, <2>3 DEF Fields
  <1>10. CASE PeerAnswers \/ PeerActs \/ UNCHANGED vars
    <2>1. TableUnchanged /\ UNCHANGED <<incoming_channel, connection_state, session_state>>
      BY <1>10 DEF PeerAnswers, peer_begin, peer_end, peer_takes, PeerActs, peer_begins,
            peer_transfers, peer_ends, peer_may_send, vars, TableUnchanged, table
    <2> QED
      BY <1>1, <1>3, <2>1, UsedGrows DEF Fields
  <1> QED
    BY <1>2, <1>4, <1>5, <1>6, <1>7, <1>8, <1>9, <1>10 DEF Next, Application, Receive

\* The handlers that change the table.
LEMMA WhoChangesTable ==
  ASSUME [Next]_vars
  PROVE  \/ \E h \in Handle : session_create(h)
         \/ new_endpoint
         \/ TableUnchanged
         \/ \E h \in Handle : Destroys(h)
  BY DEF Next, Application, session_begin, attach, session_end, session_destroy, Destroys,
         Connection, connection_opened, connection_ended, connection_failed,
         connection_down, connection_discards, Receive, begin_received,
         transfer_received, end_received, PeerAnswers, peer_begin, peer_end, peer_takes,
         PeerActs, peer_begins, peer_transfers, peer_ends, peer_may_send, vars, table,
         TableUnchanged

\* An endpoint keeps its outgoing channel while the peer mirrors it.
LEMMA OutgoingKept ==
  ASSUME IInv, [Next]_vars, mirrored'
  PROVE  \A h \in used : outgoing_channel'[h] = outgoing_channel[h]
  <1>1. CASE TableUnchanged
    BY <1>1 DEF TableUnchanged
  <1>2. ASSUME NEW h \in Handle, Destroys(h)
        PROVE  \A e \in used : outgoing_channel'[e] = outgoing_channel[e]
    BY <1>2 DEF Destroys
  <1>3. ASSUME NEW h \in Handle, session_create(h)
        PROVE  \A e \in used : outgoing_channel'[e] = outgoing_channel[e]
    <2>1. h \notin used /\ connection_create_endpoint(h) /\ used \subseteq Handle
      BY <1>3 DEF session_create, IInv, TypeOK
    <2>2. h \notin Live
      BY <2>1 DEF IInv, TypeOK, Live
    <2>3. \A e \in Handle \ {h} : outgoing_channel'[e] = outgoing_channel[e]
      BY <2>1, <2>2, CreateSpaced DEF IInv
    <2> QED
      BY <2>1, <2>3
  <1>4. CASE new_endpoint
    <2>1. inbox # <<>> /\ Head(inbox).kind = "begin" /\ Head(inbox).remote_channel = None
      BY <1>4 DEF new_endpoint, received
    <2>2. mirrored => Head(inbox).remote_channel \in PeerChannel
      BY <2>1, HeadOfInbox DEF IInv, Mirror, MirrorIn
    <2> QED
      BY <2>1, <2>2, MirroredFalls
  <1> QED
    BY <1>1, <1>2, <1>3, <1>4, WhoChangesTable

\* What the peer knows.
LEMMA PeerStep ==
  ASSUME IInv, [Next]_vars
  PROVE  /\ peer' \in [PeerChannel -> Handle \cup {None}]
         /\ peer_ended' \subseteq Handle
         /\ attached' \subseteq Handle
         /\ mirrored' => \A ch \in PeerChannel :
               peer'[ch] # None => peer'[ch] \in used' /\ outgoing_channel'[peer'[ch]] = ch
  <1> DEFINE Knows == \A ch \in PeerChannel :
                        peer[ch] # None => peer[ch] \in used /\ outgoing_channel[peer[ch]] = ch
  <1>1. /\ peer \in [PeerChannel -> Handle \cup {None}] /\ peer_ended \subseteq Handle
        /\ attached \subseteq Handle /\ used \subseteq Handle /\ (mirrored => Knows)
    BY DEF IInv, TypeOK, Mirror
  <1>2. CASE PeerAnswers
    <2>1. PICK i \in 1 .. Len(outbox) : peer_begin(i) \/ peer_end(i)
      BY <1>2 DEF PeerAnswers
    <2>2. outbox[i].by \in Handle
      <3>1. outbox[i] \in OutFrames
        BY DEF IInv, TypeOK
      <3> QED
        BY <3>1 DEF OutFrames
    <2>3. UNCHANGED <<outgoing_channel, used, peer_ended, attached>>
      BY <2>1 DEF peer_begin, peer_end, peer_takes, table, remote
    <2>4. CASE peer_end(i)
      <3>1. peer' = peer \/ \E ch \in PeerChannel : peer' = [peer EXCEPT ![ch] = None]
        BY <2>4 DEF peer_end
      <3> QED
        BY <1>1, <2>3, <3>1, MirroredFalls
    <2>5. CASE peer_begin(i)
      <3>1. CASE UNCHANGED remote
        BY <1>1, <2>3, <3>1, MirroredFalls DEF remote
      <3>2. CASE ~UNCHANGED remote
        <4>1. PICK ch \in PeerChannel :
                  /\ peer' = [peer EXCEPT ![ch] = outbox[i].by]
                  /\ mirrored' = (mirrored /\ ch = outbox[i].channel)
          BY <2>5, <3>2 DEF peer_begin
        <4>2. mirrored' => mirrored /\ ch = outbox[i].channel
          BY <4>1
        <4>3. mirrored => outbox[i].by \in used /\ outgoing_channel[outbox[i].by] = outbox[i].channel
          BY DEF IInv, Mirror, MirrorOut
        <4>4. peer' = [peer EXCEPT ![ch] = outbox[i].by]
          BY <4>1
        <4> QED
          BY <1>1, <2>2, <2>3, <4>2, <4>3, <4>4
      <3> QED
        BY <3>1, <3>2
    <2> QED
      BY <2>1, <2>4, <2>5
  <1>3. CASE PeerActs
    <2>1. PICK ch \in PeerChannel : \/ \E h \in Handle : peer_begins(ch, h)
                                    \/ peer_transfers(ch) \/ peer_ends(ch)
      BY <1>3 DEF PeerActs
    <2>2. UNCHANGED <<outgoing_channel, attached>>
      BY <2>1 DEF peer_begins, peer_transfers, peer_ends, peer_may_send, table, remote
    <2>3. CASE \E h \in Handle : peer_begins(ch, h)
      <3>1. PICK h \in Handle : peer_begins(ch, h)
        BY <2>3
      <3>2. peer' = [peer EXCEPT ![ch] = h] /\ peer_ended' = peer_ended
        BY <3>1 DEF peer_begins
      <3>3. ~mirrored'
        BY <3>1 DEF peer_begins
      <3> QED
        BY <1>1, <2>2, <3>2, <3>3
    <2>4. CASE peer_transfers(ch) \/ peer_ends(ch)
      <3>1. UNCHANGED <<peer, used>> /\ (peer_ended' = peer_ended \/ peer_ended' = peer_ended \cup {peer[ch]})
        BY <2>4 DEF peer_transfers, peer_ends, remote
      <3>2. peer[ch] \in Handle
        BY <2>4 DEF peer_transfers, peer_ends
      <3> QED
        BY <1>1, <2>2, <3>1, <3>2, MirroredFalls
    <2> QED
      BY <2>1, <2>3, <2>4
  <1>4. CASE Application \/ Connection \/ Receive \/ UNCHANGED vars
    <2>1. UNCHANGED <<peer, peer_ended>>
      BY <1>4 DEF Application, session_create, session_begin, attach, session_end,
         session_destroy, Connection, connection_opened, connection_ended, connection_failed,
         connection_down, connection_discards, Receive, begin_received, new_endpoint,
         transfer_received, end_received, vars, remote
    <2>2. attached' = attached \/ \E h \in Handle : attached' = attached \cup {h}
      BY <1>4 DEF Application, session_create, session_begin, attach, session_end,
         session_destroy, Connection, connection_opened, connection_ended, connection_failed,
         connection_down, connection_discards, Receive, begin_received, new_endpoint,
         transfer_received, end_received, vars, remote
    <2>3. ASSUME mirrored' PROVE \A h \in used : outgoing_channel'[h] = outgoing_channel[h]
      BY <2>3, OutgoingKept
    <2> QED
      BY <1>1, <2>1, <2>2, <2>3, MirroredFalls, UsedGrows
  <1> QED
    BY <1>2, <1>3, <1>4 DEF Next

\* Only a session that has not been given out, or one whose BEGIN is read,
\* comes into the table.
LEMMA LiveGrows ==
  ASSUME IInv, [Next]_vars, ~new_endpoint
  PROVE  Live' \cap used \subseteq Live
  <1>1. CASE TableUnchanged
    BY <1>1 DEF TableUnchanged, Live
  <1>2. ASSUME NEW h \in Handle, Destroys(h) PROVE Live' \subseteq Live
    BY <1>2, DestroySpaced DEF Destroys, IInv
  <1>3. ASSUME NEW h \in Handle, session_create(h) PROVE Live' \cap used \subseteq Live
    <2>1. h \notin used /\ connection_create_endpoint(h) /\ used \subseteq Handle
      BY <1>3 DEF session_create, IInv, TypeOK
    <2>2. h \notin Live
      BY <2>1 DEF IInv, TypeOK, Live
    <2>3. Live' = Live \cup {h}
      BY <2>1, <2>2, CreateSpaced DEF IInv
    <2> QED
      BY <2>1, <2>3
  <1> QED
    BY <1>1, <1>2, <1>3, WhoChangesTable

\* A BEGIN of the peer adds at most the session it announces.
LEMMA NewLive ==
  ASSUME IInv, new_endpoint
  PROVE  Live' \subseteq Live \cup {Head(inbox).for}
  <1>1. /\ inbox # <<>> /\ Head(inbox).kind = "begin" /\ Head(inbox).remote_channel = None
    BY DEF new_endpoint, received
  <1>2. Head(inbox).for \in Handle /\ Head(inbox).for \notin Live
    BY <1>1, HeadOfInbox DEF IInv, Announced, Announces
  <1>3. CASE UNCHANGED table
    BY <1>3 DEF table, Live
  <1>4. CASE connection_create_endpoint(Head(inbox).for)
    BY <1>2, <1>4, CreateSpaced DEF IInv
  <1> QED
    BY <1>3, <1>4 DEF new_endpoint

\* A session the peer has announced is not in the table until its BEGIN is read.
LEMMA AnnouncedStep ==
  ASSUME IInv, [Next]_vars
  PROVE  Announced'
  <1>1. /\ inbox \in Seq(InFrames)
        /\ \A i \in 1 .. Len(inbox) : Announces(inbox[i]) => inbox[i].for \in used /\ inbox[i].for \notin Live
        /\ \A i, j \in 1 .. Len(inbox) : Announces(inbox[i]) /\ Announces(inbox[j]) /\ i # j
                                             => inbox[i].for # inbox[j].for
        /\ used \subseteq used' /\ Live \subseteq used
    BY UsedGrows DEF IInv, TypeOK, Announced, Live
  <1>2. CASE InboxUnchanged /\ ~new_endpoint
    <2>1. ASSUME NEW i \in 1 .. Len(inbox), Announces(inbox[i]) PROVE inbox[i].for \notin Live'
      BY <1>1, <1>2, <2>1, LiveGrows
    <2> QED
      BY <1>1, <1>2, <2>1 DEF InboxUnchanged, Announced, Announces
  <1>3. CASE InboxLost
    BY <1>3 DEF InboxLost, Announced
  <1>4. CASE InboxRead
    <2>1. Len(inbox') = Len(inbox) - 1 /\ \A i \in 1 .. Len(inbox') : i + 1 \in 1 .. Len(inbox) /\ inbox'[i] = inbox[i + 1]
      BY <1>1, <1>4 DEF InboxRead
    <2>2. ASSUME NEW i \in 1 .. Len(inbox'), Announces(inbox'[i])
          PROVE  inbox'[i].for \in used' /\ inbox'[i].for \notin Live'
      <3>1. Announces(inbox[i + 1]) /\ inbox'[i] = inbox[i + 1] /\ i + 1 \in 1 .. Len(inbox)
        BY <2>1, <2>2
      <3>2. inbox[i + 1].for \in used /\ inbox[i + 1].for \notin Live
        BY <1>1, <3>1
      <3>3. CASE ~new_endpoint
        BY <1>1, <3>1, <3>2, <3>3, LiveGrows
      <3>4. CASE new_endpoint
        <4>1. inbox # <<>> /\ Announces(Head(inbox))
          BY <3>4 DEF new_endpoint, received, Announces
        <4>2. 1 \in 1 .. Len(inbox) /\ inbox[1] = Head(inbox) /\ 1 # i + 1
          BY <4>1, HeadOfInbox
        <4>3. inbox[i + 1].for # Head(inbox).for
          BY <1>1, <3>1, <4>1, <4>2
        <4>4. Live' \subseteq Live \cup {Head(inbox).for}
          BY <3>4, NewLive
        <4> QED
          BY <1>1, <3>1, <3>2, <4>3, <4>4
      <3> QED
        BY <3>3, <3>4
    <2>3. ASSUME NEW i \in 1 .. Len(inbox'), NEW j \in 1 .. Len(inbox'),
                 Announces(inbox'[i]), Announces(inbox'[j]), i # j
          PROVE  inbox'[i].for # inbox'[j].for
      <3>1. Announces(inbox[i + 1]) /\ Announces(inbox[j + 1]) /\ i + 1 # j + 1
        BY <2>1, <2>3
      <3>2. /\ inbox'[i] = inbox[i + 1] /\ inbox'[j] = inbox[j + 1]
            /\ i + 1 \in 1 .. Len(inbox) /\ j + 1 \in 1 .. Len(inbox)
        BY <2>1
      <3>3. inbox[i + 1].for # inbox[j + 1].for
        BY <1>1, <3>1, <3>2
      <3> QED
        BY <3>2, <3>3
    <2> QED
      BY <2>2, <2>3 DEF Announced, Announces
  <1>5. ASSUME NEW g \in InFrames, InboxGets(g) PROVE Announced'
    <2>1. inbox' = Append(inbox, g) /\ Live' = Live /\ (Announces(g) => g.for \in used' \ used)
      BY <1>5 DEF InboxGets, TableUnchanged, Live
    <2>2. \A i \in 1 .. Len(inbox') : \/ i \in 1 .. Len(inbox) /\ inbox'[i] = inbox[i]
                                      \/ i = Len(inbox) + 1 /\ inbox'[i] = g
      BY <1>1, <2>1
    <2>3. \A i \in 1 .. Len(inbox') :
              Announces(inbox'[i]) => inbox'[i].for \in used' /\ inbox'[i].for \notin Live
      BY <1>1, <2>1, <2>2
    <2>4. ASSUME NEW i \in 1 .. Len(inbox'), NEW j \in 1 .. Len(inbox'),
                 Announces(inbox'[i]), Announces(inbox'[j]), i # j
          PROVE  inbox'[i].for # inbox'[j].for
      BY <1>1, <2>1, <2>2, <2>4
    <2> QED
      BY <2>1, <2>3, <2>4 DEF Announced, Announces
  <1>6. new_endpoint => InboxRead
    BY DEF new_endpoint, received, InboxRead
  <1> QED
    BY <1>2, <1>3, <1>4, <1>5, <1>6, InboxStep

\* While the peer mirrors our channels, the frames under way keep to the table.
LEMMA MirrorStep ==
  ASSUME IInv, [Next]_vars
  PROVE  Mirror'
  <1> SUFFICES ASSUME mirrored' PROVE Mirror'
    BY DEF Mirror
  <1>1. /\ mirrored /\ used \subseteq used'
        /\ \A h \in used : outgoing_channel'[h] = outgoing_channel[h]
    BY MirroredFalls, UsedGrows, OutgoingKept
  <1>2. \A i \in 1 .. Len(outbox') :
            outbox'[i].by \in used' /\ outbox'[i].channel = outgoing_channel'[outbox'[i].by]
    <2> DEFINE Q(f) == f.by \in used' /\ f.channel = outgoing_channel'[f.by]
    <2>1. \A j \in 1 .. Len(outbox) : Q(outbox[j])
      BY <1>1 DEF IInv, Mirror, MirrorOut
    <2>2. CASE OutboxShrinks
      BY <2>1, <2>2 DEF OutboxShrinks
    <2>3. CASE OutboxBegins
      BY <2>3 DEF OutboxBegins, OutboxFrame
    <2>4. ASSUME NEW g \in OutFrames, OutboxGets(g) PROVE \A i \in 1 .. Len(outbox') : Q(outbox'[i])
      <3>1. outbox \in Seq(OutFrames) /\ outbox' = Append(outbox, g) /\ Q(g)
        BY <2>4 DEF OutboxGets, OutboxFrame, IInv, TypeOK
      <3>2. \A i \in 1 .. Len(outbox') :
                (i \in 1 .. Len(outbox) /\ outbox'[i] = outbox[i]) \/ outbox'[i] = g
        BY <3>1
      <3> QED
        BY <2>1, <3>1, <3>2
    <2> QED
      BY <2>2, <2>3, <2>4, OutboxStep
  <1>3. \A i \in 1 .. Len(inbox') :
            /\ inbox'[i].for \in used' /\ inbox'[i].channel = outgoing_channel'[inbox'[i].for]
            /\ inbox'[i].kind = "begin" => inbox'[i].remote_channel = inbox'[i].channel
    <2>1. inbox \in Seq(InFrames) /\ \A j \in 1 .. Len(inbox) : MirrorIn(inbox[j])
      BY <1>1 DEF IInv, Mirror, TypeOK
    <2>2. \A i \in 1 .. Len(inbox') : MirrorIn(inbox'[i])
      <3>1. CASE InboxUnchanged \/ InboxLost
        BY <2>1, <3>1 DEF InboxUnchanged, InboxLost
      <3>2. CASE InboxRead
        <4>1. \A i \in 1 .. Len(inbox') : i + 1 \in 1 .. Len(inbox) /\ inbox'[i] = inbox[i + 1]
          BY <2>1, <3>2 DEF InboxRead
        <4> QED
          BY <2>1, <4>1
      <3>3. ASSUME NEW g \in InFrames, InboxGets(g)
            PROVE  \A i \in 1 .. Len(inbox') : MirrorIn(inbox'[i])
        <4>1. inbox' = Append(inbox, g) /\ MirrorIn(g)
          BY <3>3 DEF InboxGets
        <4>2. \A i \in 1 .. Len(inbox') :
                (i \in 1 .. Len(inbox) /\ inbox'[i] = inbox[i]) \/ inbox'[i] = g
          BY <2>1, <4>1
        <4> QED
          BY <2>1, <4>1, <4>2
      <3> QED
        BY <3>1, <3>2, <3>3, InboxStep
    <2> QED
      BY <1>1, <2>2 DEF MirrorIn
  <1>4. MirrorFields'
    BY <1>1, FieldsStep
  <1>5. \A ch \in PeerChannel :
            peer'[ch] # None => peer'[ch] \in used' /\ outgoing_channel'[peer'[ch]] = ch
    BY PeerStep
  <1> QED
    BY <1>2, <1>3, <1>4, <1>5 DEF Mirror, MirrorFields, MirrorIn, MirrorOut

\* Every step keeps the invariant.
LEMMA NextIInv ==
  ASSUME IInv, [Next]_vars
  PROVE  IInv'
  <1>1. inbox' \in Seq(InFrames)
    <2>1. inbox \in Seq(InFrames)
      BY DEF IInv, TypeOK
    <2>2. \/ inbox' = inbox
          \/ inbox' = <<>>
          \/ (inbox # <<>> /\ inbox' = Tail(inbox))
          \/ \E g \in InFrames : inbox' = Append(inbox, g)
      <3>1. ASSUME NEW g \in InFrames, InboxGets(g) PROVE inbox' = Append(inbox, g)
        BY <3>1 DEF InboxGets
      <3>2. CASE InboxUnchanged \/ InboxLost \/ InboxRead
        BY <3>2 DEF InboxUnchanged, InboxLost, InboxRead
      <3> QED
        BY <3>1, <3>2, InboxStep
    <2>3. CASE inbox # <<>> /\ inbox' = Tail(inbox)
      <3>1. \A s \in Seq(InFrames) : s # <<>> => Tail(s) \in Seq(InFrames)
        OBVIOUS
      <3> QED
        BY <2>1, <2>3, <3>1
    <2>4. CASE \E g \in InFrames : inbox' = Append(inbox, g)
      BY <2>1, <2>4
    <2>5. CASE inbox' = inbox
      BY <2>1, <2>5
    <2>6. CASE inbox' = <<>>
      <3>1. <<>> \in Seq(InFrames)
        OBVIOUS
      <3> QED
        BY <2>6, <3>1
    <2> QED
      BY <2>2, <2>3, <2>4, <2>5, <2>6
  <1>2. outbox' \in Seq(OutFrames)
    <2>1. outbox \in Seq(OutFrames)
      BY DEF IInv, TypeOK
    <2>2. outbox' \in Seq(OutFrames) \/ \E g \in OutFrames : outbox' = Append(outbox, g)
      BY OutboxStep DEF OutboxShrinks, OutboxBegins, OutboxGets
    <2> QED
      BY <2>1, <2>2
  <1>3. TypeOK'
    BY <1>1, <1>2, FieldsStep, BooleanStep, MirroredFalls, PeerStep, SpacedStep, UsedGrows DEF TypeOK, Fields
  <1> QED
    BY <1>3, SpacedStep, AnnouncedStep, FieldsStep, MirrorStep DEF IInv, Fields

-----------------------------------------------------------------------------

\* The inductive invariant holds throughout.
THEOREM IInvHolds == Spec => []IInv
  <1>1. IInv /\ [Next]_vars => IInv'
    BY NextIInv
  <1> QED
    BY InitIInv, <1>1, PTL DEF Spec

\* Type correctness: no handler leaves a session in a state of the connection,
\* and no frame carries a channel number beyond channel_max.
THEOREM TypeCorrect == Spec => []TypeOK
  <1>1. IInv => TypeOK
    BY DEF IInv
  <1> QED
    BY IInvHolds, <1>1, PTL

\* The array that connection_create_endpoint and connection_destroy_endpoint
\* maintain is sorted by outgoing channel, for any channel_max and any order of
\* calls.
THEOREM TableSorted == Spec => []ChannelsSorted
  <1>1. IInv => ChannelsSorted
    <2> SUFFICES ASSUME IInv PROVE ChannelsSorted
      OBVIOUS
    <2>1. Len(endpoints) \in Nat /\ \A k \in 1 .. Len(endpoints) : outgoing_channel[endpoints[k]] \in Nat
      BY DEF IInv, TypeOK, Channels
    <2>2. ASSUME NEW i \in 1 .. Len(endpoints), NEW j \in 1 .. Len(endpoints), i < j
          PROVE  outgoing_channel[endpoints[i]] < outgoing_channel[endpoints[j]]
      <3>1. outgoing_channel[endpoints[j]] - outgoing_channel[endpoints[i]] >= j - i
        BY <2>2 DEF IInv, Spaced
      <3> QED
        BY <2>1, <2>2, <3>1
    <2>3. Len(endpoints) <= channel_max
      BY DEF IInv, Spaced
    <2> QED
      BY <2>2, <2>3 DEF ChannelsSorted
  <1> QED
    BY IInvHolds, <1>1, PTL

\* connection_create_endpoint gives a new endpoint the lowest free number.
THEOREM LowestFree == Spec => LowestChannel
  <1> DEFINE Lowest ==
        \A h \in Handle :
          h \in Live' \ Live =>
              /\ \A e \in Live : outgoing_channel[e] # outgoing_channel'[h]
              /\ \A c \in 0 .. outgoing_channel'[h] - 1 :
                    \E e \in Live : outgoing_channel[e] = c
  <1>1. ASSUME IInv, [Next]_vars PROVE Lowest
    <2>1. CASE Live' \subseteq Live
      BY <2>1
    <2>2. ASSUME NEW h \in Handle, Creates(h), Live' = Live \cup {h} PROVE Lowest
      BY <1>1, <2>2, CreateSpaced DEF Creates, IInv
    <2> QED
      BY <1>1, <2>1, <2>2, SpacedStep
  <1>2. IInv /\ [Next]_vars => [Lowest]_vars
    BY <1>1
  <1> HIDE DEF Lowest
  <1>3. Spec => [][Lowest]_vars
    BY IInvHolds, <1>2, PTL DEF Spec
  <1> QED
    BY <1>3 DEF Lowest, LowestChannel

\* A frame for a mapped session is routed to it by
\* find_session_endpoint_by_incoming_channel when the peer uses our channel
\* numbers, whatever endpoints have been created and destroyed meanwhile.
THEOREM MappedRouted == Spec => []RoutedToMapped
  <1>1. IInv => RoutedToMapped
    <2> SUFFICES ASSUME IInv, mirrored, inbox # <<>>,
                        Head(inbox).kind # "begin", Head(inbox).for \in Live,
                        session_state[Head(inbox).for] = "MAPPED"
                 PROVE  finds(incoming_channel, Head(inbox).channel, Head(inbox).for)
      BY DEF RoutedToMapped
    <2> DEFINE f == Head(inbox)
    <2>1. 1 \in 1 .. Len(inbox) /\ inbox[1] = f /\ f \in InFrames
      BY DEF IInv, TypeOK
    <2>2. f.channel = outgoing_channel[f.for] /\ f.for \in Handle
      BY <2>1 DEF IInv, Mirror, MirrorIn, InFrames
    <2>3. incoming_channel[f.for] = f.channel
      BY <2>2 DEF IInv, Mirror
    <2>4. PICK i \in 1 .. Len(endpoints) : endpoints[i] = f.for
      BY DEF Live
    <2>5. ASSUME NEW j \in 1 .. i - 1 PROVE incoming_channel[endpoints[j]] # f.channel
      <3>1. j \in 1 .. Len(endpoints) /\ i \in 1 .. Len(endpoints) /\ j < i
        BY <2>4 DEF IInv, TypeOK
      <3>2. endpoints[j] \in Handle /\ outgoing_channel[endpoints[j]] \in Nat /\ outgoing_channel[endpoints[i]] \in Nat
        BY <3>1 DEF IInv, TypeOK, Channels
      <3>3. outgoing_channel[endpoints[i]] - outgoing_channel[endpoints[j]] >= i - j
        BY <3>1 DEF IInv, Spaced
      <3>4. outgoing_channel[endpoints[i]] > outgoing_channel[endpoints[j]]
        BY <3>1, <3>2, <3>3
      <3>5. incoming_channel[endpoints[j]] \in {0, outgoing_channel[endpoints[j]]}
        BY <3>2 DEF IInv, Mirror
      <3> QED
        BY <2>2, <2>4, <3>2, <3>4, <3>5
    <2> QED
      BY <2>3, <2>4, <2>5 DEF finds
  <1> QED
    BY IInvHolds, <1>1, PTL

-----------------------------------------------------------------------------
(* Transfers: sequences put together *)

HIDE SessionsAssumption DEF SessionsAssumption

\* A set of natural numbers has a least element.
LEMMA LeastNat ==
    ASSUME NEW S \in SUBSET Nat, S # {}
    PROVE  \E x \in S : \A y \in S : x <= y
<1> DEFINE R == OpToRel(<, Nat)
<1>1. \A x, y \in Nat : <<y, x>> \in R <=> y < x
    BY DEF OpToRel
<1>2. IsWellFoundedOn(R, Nat)
    BY NatLessThanWellFounded
<1> HIDE DEF R
<1>3. PICK x \in S : \A y \in S : ~(<<y, x>> \in R)
    BY <1>2, WFMin
<1>4. ASSUME NEW y \in S PROVE x <= y
    <2>1. x \in Nat /\ y \in Nat
        OBVIOUS
    <2>2. ~(y < x)
        BY <1>1, <1>3, <2>1
    <2> QED BY <2>1, <2>2
<1> QED BY <1>4

\* Induction over the numbers, for a set instead of a predicate.
LEMMA Inductive ==
    ASSUME NEW S, 0 \in S, \A n \in Nat : n \in S => n + 1 \in S
    PROVE  Nat \subseteq S
<1>1. SUFFICES ASSUME Nat \ S # {} PROVE FALSE
    OBVIOUS
<1>2. PICK n \in Nat \ S : \A y \in Nat \ S : n <= y
    <2>1. Nat \ S \in SUBSET Nat
        OBVIOUS
    <2> QED BY <1>1, <2>1, LeastNat
<1>3. n \in Nat /\ n # 0 /\ n \notin S
    BY <1>2
<1>4. n - 1 \in Nat /\ ~(n <= n - 1) /\ (n - 1) + 1 = n
    BY <1>3
<1>5. n - 1 \in S
    BY <1>2, <1>4
<1> QED BY <1>3, <1>4, <1>5

\* The sequences put together so far.
Joins(s, f, n) ==
    \A i \in 1 .. n : f[i] = IF i = 1 THEN s[1] ELSE f[i - 1] \o s[i]

\* Sequences can be put together one after the other,
LEMMA JoinsExist ==
    ASSUME NEW X, NEW s \in Seq(Seq(X))
    PROVE  \A n \in Nat : n <= Len(s) => \E f \in Seq(Seq(X)) : Len(f) = n /\ Joins(s, f, n)
<1> DEFINE S == {n \in Nat : n <= Len(s) => \E f \in Seq(Seq(X)) : Len(f) = n /\ Joins(s, f, n)}
<1>1. 0 \in S
    <2>1. <<>> \in Seq(Seq(X)) /\ Len(<<>>) = 0 /\ Joins(s, <<>>, 0)
        BY DEF Joins
    <2> QED BY <2>1
<1>2. ASSUME NEW n \in Nat, n \in S, n + 1 <= Len(s)
      PROVE  \E f \in Seq(Seq(X)) : Len(f) = n + 1 /\ Joins(s, f, n + 1)
    <2>1. Len(s) \in Nat
        OBVIOUS
    <2>2. n <= Len(s) /\ n + 1 \in 1 .. Len(s)
        BY <1>2, <2>1
    <2>3. PICK f \in Seq(Seq(X)) : Len(f) = n /\ Joins(s, f, n)
        BY <1>2, <2>2
    <2> DEFINE e == IF n + 1 = 1 THEN s[1] ELSE f[n] \o s[n + 1]
               g == Append(f, e)
    <2>4. e \in Seq(X)
        <3>1. CASE n = 0
            BY <2>2, <3>1
        <3>2. CASE n # 0
            <4>1. n \in 1 .. Len(f) /\ n + 1 # 1
                BY <2>3, <3>2
            <4>2. f[n] \in Seq(X) /\ s[n + 1] \in Seq(X)
                BY <2>2, <4>1
            <4> QED BY <4>1, <4>2
        <3> QED BY <3>1, <3>2
    <2> HIDE DEF e
    <2>5. g \in Seq(Seq(X)) /\ Len(g) = n + 1 /\ g[n + 1] = e /\ \A i \in 1 .. n : g[i] = f[i]
        BY <2>3, <2>4
    <2> HIDE DEF g
    <2>6. ASSUME NEW i \in 1 .. n + 1 PROVE g[i] = IF i = 1 THEN s[1] ELSE g[i - 1] \o s[i]
        <3>1. CASE i = n + 1
            <4>1. i - 1 = n
                BY <3>1
            <4>2. n # 0 => g[i - 1] = f[n]
                <5>1. n # 0 => n \in 1 .. n
                    OBVIOUS
                <5> QED BY <2>5, <4>1, <5>1
            <4>3. n = 0 <=> i = 1
                BY <3>1
            <4> QED BY <2>5, <3>1, <4>1, <4>2, <4>3 DEF e
        <3>2. CASE i # n + 1
            <4>1. i \in 1 .. n /\ (i # 1 => i - 1 \in 1 .. n)
                BY <3>2
            <4>2. f[i] = IF i = 1 THEN s[1] ELSE f[i - 1] \o s[i]
                BY <2>3, <4>1 DEF Joins
            <4> QED BY <2>5, <4>1, <4>2
        <3> QED BY <3>1, <3>2
    <2>7. Joins(s, g, n + 1)
        BY <2>6 DEF Joins
    <2> QED BY <2>5, <2>7
<1>3. ASSUME NEW n \in Nat, n \in S PROVE n + 1 \in S
    <2>1. n + 1 \in Nat
        OBVIOUS
    <2>2. n + 1 <= Len(s) => \E f \in Seq(Seq(X)) : Len(f) = n + 1 /\ Joins(s, f, n + 1)
        BY <1>2, <1>3
    <2> QED BY <2>1, <2>2
<1> HIDE DEF S
<1>4. Nat \subseteq S
    BY <1>1, <1>3, Inductive
<1> QED BY <1>4 DEF S

\* What FlattenSeq puts together.
Flat(s) == CHOOSE f : f = [i \in 1 .. Len(s) |-> IF i = 1 THEN s[i] ELSE f[i - 1] \o s[i]]

\* so that what FlattenSeq chooses is that.
LEMMA FlatIs ==
    ASSUME NEW X, NEW s \in Seq(Seq(X))
    PROVE  /\ Joins(s, Flat(s), Len(s)) /\ DOMAIN Flat(s) = 1 .. Len(s)
<1> DEFINE N == Len(s)
           Is(f) == f = [i \in 1 .. N |-> IF i = 1 THEN s[i] ELSE f[i - 1] \o s[i]]
<1>1. PICK f \in Seq(Seq(X)) : Len(f) = N /\ Joins(s, f, N)
    BY JoinsExist
<1>2. \A i \in 1 .. N : f[i] = IF i = 1 THEN s[i] ELSE f[i - 1] \o s[i]
    BY <1>1 DEF Joins
<1>3. f \in [1 .. N -> Seq(X)]
    BY <1>1
<1>4. Is(f)
    BY <1>2, <1>3
<1>5. Is(CHOOSE g : Is(g))
    <2> HIDE DEF Is
    <2> QED BY <1>4
<1>6. Is(Flat(s))
    BY <1>5, Zenon DEF Flat
<1> QED BY <1>6 DEF Joins

\* The first n sequences of s put together.
Joined(s, n) == IF n = 0 THEN <<>> ELSE Flat(s)[n]

\* FlattenSeq puts one sequence behind the other.
LEMMA JoinedStep ==
    ASSUME NEW X, NEW s \in Seq(Seq(X))
    PROVE  /\ FlattenSeq(s) = Joined(s, Len(s))
           /\ Joined(s, 0) = <<>>
           /\ \A n \in 0 .. Len(s) - 1 : Joined(s, n + 1) = Joined(s, n) \o s[n + 1]
           /\ \A n \in 0 .. Len(s) : Joined(s, n) \in Seq(X)
<1> DEFINE N == Len(s)
           F == Flat(s)
           S == {n \in Nat : n <= N => Joined(s, n) \in Seq(X)}
<1>1. N \in Nat /\ Joined(s, 0) = <<>> /\ <<>> \in Seq(X)
    BY DEF Joined
<1>2. Joins(s, F, N)
    BY FlatIs
<1>3. \A n \in Nat \ {0} : Joined(s, n) = F[n]
    BY DEF Joined
<1> HIDE DEF F
<1>4. ASSUME NEW n \in 0 .. N - 1 PROVE Joined(s, n + 1) = Joined(s, n) \o s[n + 1]
    <2>1. n \in Nat /\ n + 1 \in 1 .. N /\ n + 1 \in Nat \ {0} /\ (n + 1) - 1 = n
        BY <1>1, <1>4
    <2>2. F[n + 1] = IF n + 1 = 1 THEN s[1] ELSE F[n] \o s[n + 1]
        BY <1>2, <2>1 DEF Joins
    <2>3. s[n + 1] \in Seq(X)
        BY <2>1
    <2>4. CASE n = 0
        <3>1. Joined(s, n + 1) = s[n + 1] /\ Joined(s, n) = <<>>
            BY <1>1, <1>3, <2>1, <2>2, <2>4
        <3> QED BY <2>3, <3>1
    <2>5. CASE n # 0
        <3>1. n \in Nat \ {0} /\ n + 1 # 1
            BY <2>1, <2>5
        <3> QED BY <1>3, <2>1, <2>2, <3>1
    <2> QED BY <2>4, <2>5
<1>5. ASSUME NEW n \in Nat, n \in S PROVE n + 1 \in S
    <2>1. CASE n + 1 <= N
        <3>1. n \in 0 .. N - 1 /\ n <= N /\ n + 1 \in 1 .. N
            BY <1>1, <2>1
        <3>2. Joined(s, n) \in Seq(X) /\ s[n + 1] \in Seq(X)
            BY <1>5, <3>1
        <3>3. Joined(s, n + 1) = Joined(s, n) \o s[n + 1]
            BY <1>4, <3>1
        <3>4. \A a, b \in Seq(X) : a \o b \in Seq(X)
            OBVIOUS
        <3>5. Joined(s, n + 1) \in Seq(X)
            BY <3>2, <3>3, <3>4
        <3> QED BY <3>5
    <2> QED BY <2>1
<1>6. 0 \in S
    BY <1>1
<1> HIDE DEF S
<1>7. Nat \subseteq S
    BY <1>5, <1>6, Inductive
<1>8. \A n \in 0 .. N : Joined(s, n) \in Seq(X)
    BY <1>1, <1>7 DEF S
<1>9. FlattenSeq(s) = Joined(s, N)
    <2>1. CASE N = 0
        BY <1>1, <2>1 DEF FlattenSeq
    <2>2. CASE N # 0
        BY <1>1, <1>3, <2>2 DEF FlattenSeq, Flat, F
    <2> QED BY <2>1, <2>2
<1> QED BY <1>1, <1>4, <1>8, <1>9

\* What is put together has the elements of its parts.
LEMMA FlattenType ==
    ASSUME NEW X, NEW s \in Seq(Seq(X))
    PROVE  FlattenSeq(s) \in Seq(X)
<1>1. Len(s) \in 0 .. Len(s)
    OBVIOUS
<1> QED BY <1>1, JoinedStep

-----------------------------------------------------------------------------
(* Messages in their order *)

\* How many messages are before one is a number, at most that of all.
LEMMA BeforeFinite ==
    ASSUME NEW S \in SUBSET Nat, IsFiniteSet(S)
    PROVE  \A m \in Nat : /\ IsFiniteSet({n \in S : n < m})
                          /\ before(m, S) \in Nat
                          /\ before(m, S) <= Cardinality(S)
<1> SUFFICES ASSUME NEW m \in Nat
             PROVE  /\ IsFiniteSet({n \in S : n < m})
                    /\ before(m, S) \in Nat /\ before(m, S) <= Cardinality(S)
    OBVIOUS
<1>1. {n \in S : n < m} \in SUBSET S
    OBVIOUS
<1> QED BY <1>1, FS_Subset, FS_CardinalityType DEF before

\* Of two messages the later one has more before it.
LEMMA BeforeRises ==
    ASSUME NEW S \in SUBSET Nat, IsFiniteSet(S), NEW m \in S, NEW n \in Nat, m < n
    PROVE  before(m, S) < before(n, S)
<1> DEFINE A == {x \in S : x < m}
           B == {x \in S : x < n}
<1>1. IsFiniteSet(B) /\ A \in SUBSET B
    <2>1. IsFiniteSet({x \in S : x < n})
        BY BeforeFinite
    <2>2. \A x \in S : x < m => x < n
        OBVIOUS
    <2> QED BY <2>1, <2>2
<1>2. m \in B /\ m \notin A
    OBVIOUS
<1>3. Cardinality(A) <= Cardinality(B) /\ (Cardinality(B) = Cardinality(A) => B = A)
    BY <1>1, FS_Subset
<1>4. before(m, S) = Cardinality(A) /\ before(n, S) = Cardinality(B)
    BY DEF before
<1>5. before(m, S) \in Nat /\ before(n, S) \in Nat
    BY BeforeFinite
<1> HIDE DEF A, B
<1> QED BY <1>2, <1>3, <1>4, <1>5

\* A message of the set is not before itself.
LEMMA BeforeLess ==
    ASSUME NEW S \in SUBSET Nat, IsFiniteSet(S), NEW m \in S
    PROVE  before(m, S) < Cardinality(S)
<1> DEFINE A == {x \in S : x < m}
<1>1. A \in SUBSET S /\ m \notin A
    OBVIOUS
<1>2. Cardinality(A) <= Cardinality(S) /\ (Cardinality(S) = Cardinality(A) => S = A)
    BY <1>1, FS_Subset
<1>3. before(m, S) = Cardinality(A)
    BY DEF before
<1>4. before(m, S) \in Nat /\ Cardinality(S) \in Nat
    BY BeforeFinite, FS_CardinalityType
<1> HIDE DEF A
<1> QED BY <1>1, <1>2, <1>3, <1>4

\* The first r messages of a set are no more than r.
LEMMA FirstOnes ==
    ASSUME NEW S \in SUBSET Nat, IsFiniteSet(S), NEW r \in Nat,
           NEW T \in SUBSET {m \in S : before(m, S) < r}
    PROVE  IsFiniteSet(T) /\ Cardinality(T) \in Nat /\ Cardinality(T) <= r
<1> DEFINE f == [m \in T |-> before(m, S)]
<1>1. \A m \in T : m \in S /\ m \in Nat /\ before(m, S) \in 0 .. r - 1
    <2>1. \A m \in T : m \in S /\ m \in Nat /\ before(m, S) < r
        OBVIOUS
    <2>2. \A m \in Nat : before(m, S) \in Nat
        BY BeforeFinite
    <2> QED BY <2>1, <2>2
<1>2. ASSUME NEW m \in T, NEW n \in T, f[m] = f[n] PROVE m = n
    <2>1. m < n => before(m, S) < before(n, S)
        BY <1>1, BeforeRises
    <2>2. n < m => before(n, S) < before(m, S)
        BY <1>1, BeforeRises
    <2> QED BY <1>1, <1>2, <2>1, <2>2
<1>3. f \in Injection(T, 0 .. r - 1)
    BY <1>1, <1>2 DEF Injection, IsInjective
<1>4. IsFiniteSet(0 .. r - 1) /\ Cardinality(0 .. r - 1) = r
    BY FS_Interval
<1>5. IsFiniteSet(T) /\ Cardinality(T) <= Cardinality(0 .. r - 1)
    BY <1>3, <1>4, FS_Injection
<1> QED BY <1>4, <1>5, FS_CardinalityType

\* in_order lists the messages of a set, each behind the smaller ones.
LEMMA InOrder ==
    ASSUME NEW S \in SUBSET Nat, IsFiniteSet(S)
    PROVE  /\ in_order(S) \in Seq(S) /\ Len(in_order(S)) = Cardinality(S)
           /\ \A k \in 1 .. Cardinality(S) : before(in_order(S)[k], S) = k - 1
           /\ \A m \in S : \E k \in 1 .. Cardinality(S) : in_order(S)[k] = m
<1> DEFINE N == Cardinality(S)
           f == [m \in S |-> before(m, S)]
           q == in_order(S)
<1>1. N \in Nat
    BY FS_CardinalityType
<1>2. \A m \in S : m \in Nat /\ before(m, S) \in 0 .. N - 1
    <2>1. \A m \in Nat : before(m, S) \in Nat
        BY BeforeFinite
    <2>2. \A m \in S : before(m, S) < N
        BY BeforeLess
    <2> HIDE DEF N
    <2> QED BY <1>1, <2>1, <2>2
<1>3. ASSUME NEW m \in S, NEW n \in S, f[m] = f[n] PROVE m = n
    <2>1. m < n => before(m, S) < before(n, S)
        BY <1>2, BeforeRises
    <2>2. n < m => before(n, S) < before(m, S)
        BY <1>2, BeforeRises
    <2> QED BY <1>2, <1>3, <2>1, <2>2
<1>4. f \in Injection(S, 0 .. N - 1)
    BY <1>2, <1>3 DEF Injection, IsInjective
<1>5. IsFiniteSet(0 .. N - 1) /\ Cardinality(0 .. N - 1) = N
    <2> HIDE DEF N
    <2> QED BY <1>1, FS_Interval
<1>6. f \in Surjection(S, 0 .. N - 1)
    BY <1>4, <1>5, FS_Injection
<1>7. \A i \in 0 .. N - 1 : \E m \in S : before(m, S) = i
    BY <1>6 DEF Surjection
<1>8. ASSUME NEW k \in 1 .. N PROVE q[k] \in S /\ before(q[k], S) = k - 1
    <2>1. k - 1 \in 0 .. N - 1
        BY <1>1
    <2>2. \E m \in S : before(m, S) = k - 1
        BY <1>7, <2>1
    <2>3. q[k] = CHOOSE m \in S : before(m, S) = k - 1
        BY DEF in_order
    <2> QED BY <2>2, <2>3
<1>9. q \in Seq(S) /\ Len(q) = N
    <2>1. q = [k \in 1 .. N |-> q[k]]
        BY DEF in_order
    <2> HIDE DEF q
    <2>2. q \in [1 .. N -> S]
        BY <1>8, <2>1
    <2> QED BY <1>1, <2>2
<1>10. ASSUME NEW m \in S PROVE \E k \in 1 .. N : q[k] = m
    <2> DEFINE k == before(m, S) + 1
    <2>1. k \in 1 .. N /\ k - 1 = before(m, S)
        BY <1>1, <1>2
    <2>2. q[k] \in S /\ before(q[k], S) = before(m, S)
        BY <1>8, <2>1
    <2>3. q[k] = m
        BY <1>3, <2>2
    <2> QED BY <2>1, <2>3
<1> QED BY <1>8, <1>9, <1>10

-----------------------------------------------------------------------------
(* One pass of the sender *)

Break == [message : Message, cut : Nat]

\* The sending side in the middle of an action.
TxRecord ==
    [next_outgoing_id : Number, remote_incoming_window : Number,
     current_link_credit : Number, delivery_count : Number,
     deliveries : SUBSET Delivery, sends : Seq(Send),
     out : Seq(Frame), broken : SUBSET Break]

Sending(L) ==
    /\ L \in TxRecord
    /\ Len(L.sends) <= MaxMessages
    /\ \A b \in L.broken : /\ b.message \in DOMAIN L.sends
                           /\ b.cut < Len(split_of[L.sends[b.message].payload])

Piece == [bytes : Seq(Unit), more : BOOLEAN]

\* The frames into which session_send_transfer splits a message: one at least,
\* and all but the last say that there is more.
LEMMA PiecesOf ==
    ASSUME NEW payload \in Payloads
    PROVE  /\ split_of[payload] \in Seq(Piece)
           /\ Len(split_of[payload]) \in Nat \ {0}
           /\ \A k \in 1 .. Len(split_of[payload]) :
                 split_of[payload][k].more <=> k < Len(split_of[payload])
<1> DEFINE pieces == split_of[payload]
           R == Range(FlattenSeq(payload))
<1>1. Splits(pieces, payload)
    BY SplitAssumption
<1> HIDE DEF pieces
<1>2. pieces \in Seq([bytes : Seq(R), more : BOOLEAN]) /\ pieces # <<>>
    BY <1>1 DEF Splits
<1>3. R \subseteq Unit
    BY DEF Unit
<1> HIDE DEF R
<1>4. Seq(R) \subseteq Seq(Unit)
    BY <1>3
<1>5. [bytes : Seq(R), more : BOOLEAN] \subseteq Piece
    BY <1>4 DEF Piece
<1>6. pieces \in Seq(Piece)
    <2> DEFINE P == [bytes : Seq(R), more : BOOLEAN]
    <2>1. pieces \in Seq(P) /\ P \subseteq Piece
        BY <1>2, <1>5
    <2> HIDE DEF P
    <2> QED BY <2>1
<1>7. Len(pieces) \in Nat \ {0} /\ DOMAIN pieces = 1 .. Len(pieces)
    BY <1>2
<1>8. \A k \in 1 .. Len(pieces) : pieces[k].more <=> k < Len(pieces)
    BY <1>1, <1>7 DEF Splits
<1> QED BY <1>6, <1>7, <1>8 DEF pieces

\* The frames of a message are its pieces, all with the id of the delivery.
LEMMA FramesOf ==
    ASSUME NEW L, Sending(L), NEW m \in DOMAIN L.sends, NEW id \in Number
    PROVE  LET pieces == split_of[L.sends[m].payload]
           IN  /\ m \in Message /\ L.sends[m].payload \in Payloads
               /\ frames(L, m, id) \in Seq(Frame)
               /\ Len(frames(L, m, id)) = Len(pieces)
               /\ \A k \in 1 .. Len(pieces) :
                     frames(L, m, id)[k] =
                        [type |-> "TRANSFER", id |-> id, more |-> pieces[k].more,
                         bytes |-> named(m, pieces[k].bytes), message |-> m]
<1> DEFINE pieces == split_of[L.sends[m].payload]
           f == frames(L, m, id)
<1>1. L.sends \in Seq(Send) /\ Len(L.sends) <= MaxMessages
    BY DEF Sending, TxRecord
<1>2. m \in 1 .. Len(L.sends) /\ L.sends[m].payload \in Payloads
    <2>1. m \in 1 .. Len(L.sends)
        BY <1>1
    <2>2. L.sends[m] \in Send
        BY <1>1, <2>1
    <2> QED BY <2>1, <2>2 DEF Send
<1>3. m \in Message
    BY <1>1, <1>2, TransfersAssumption DEF Message, TransfersAssumption
<1>4. pieces \in Seq(Piece) /\ Len(pieces) \in Nat
    BY <1>2, PiecesOf
<1>5. f = [k \in DOMAIN pieces |->
             [type |-> "TRANSFER", id |-> id, more |-> pieces[k].more,
              bytes |-> named(m, pieces[k].bytes), message |-> m]]
    BY DEF frames
<1> HIDE DEF pieces, f
<1>6. DOMAIN pieces = 1 .. Len(pieces)
    BY <1>4
<1>7. ASSUME NEW k \in 1 .. Len(pieces)
      PROVE  [type |-> "TRANSFER", id |-> id, more |-> pieces[k].more,
              bytes |-> named(m, pieces[k].bytes), message |-> m] \in Frame
    <2>1. pieces[k].bytes \in Seq(Unit) /\ pieces[k].more \in BOOLEAN
        <3>1. pieces[k] \in Piece
            BY <1>4
        <3> QED BY <3>1 DEF Piece
    <2>2. named(m, pieces[k].bytes) \in Seq(Byte)
        <3> DEFINE b == pieces[k].bytes
        <3>1. b \in Seq(Unit) /\ Len(b) \in Nat /\ DOMAIN b = 1 .. Len(b)
            BY <2>1
        <3>2. named(m, b) = [j \in 1 .. Len(b) |-> <<m, b[j]>>]
            BY <3>1 DEF named
        <3>3. \A j \in 1 .. Len(b) : <<m, b[j]>> \in Byte
            BY <1>3, <3>1 DEF Byte
        <3> HIDE DEF b
        <3>4. named(m, b) \in Seq(Byte)
            BY <3>1, <3>2, <3>3
        <3> QED BY <3>4 DEF b
    <2> QED BY <1>3, <2>1, <2>2 DEF Frame
<1>8. f \in [1 .. Len(pieces) -> Frame]
    BY <1>5, <1>6, <1>7
<1>9. f \in Seq(Frame) /\ Len(f) = Len(pieces)
    BY <1>4, <1>8
<1> QED BY <1>2, <1>3, <1>5, <1>6, <1>9, Zenon DEF pieces, f

\* The parts of what transfers yields.
IdOf(L, k) == (L.next_outgoing_id + k - 1) % MOD
Whole(L, q) == [k \in 1 .. Len(q) |-> frames(L, q[k], IdOf(L, k))]
Part(L, S, n) ==
    IF failing(L, S) = {} THEN <<>>
    ELSE LET b == CHOOSE b \in failing(L, S) : TRUE
         IN  SubSeq(frames(L, b.message, IdOf(L, n + 1)), 1, b.cut)
NewDeliveries(L, q) == {[id |-> IdOf(L, k), message |-> q[k]] : k \in 1 .. Len(q)}
Marked(L, S, q) ==
    [m \in DOMAIN L.sends |->
        IF m \in Range(q) THEN [L.sends[m] EXCEPT !.state = "PENDING"]
        ELSE IF \E b \in failing(L, S) : b.message = m THEN [L.sends[m] EXCEPT !.state = "ERROR"]
        ELSE L.sends[m]]

\* What a pass leaves behind: the messages q have been sent.
Passed(L, S, q, T) ==
    /\ T.out = L.out \o FlattenSeq(Whole(L, q)) \o Part(L, S, Len(q))
    /\ T.broken = L.broken \ failing(L, S)
    /\ T.deliveries = L.deliveries \cup NewDeliveries(L, q)
    /\ T.next_outgoing_id = (L.next_outgoing_id + Len(q)) % MOD
    /\ T.remote_incoming_window = L.remote_incoming_window - Len(q)
    /\ T.delivery_count = (L.delivery_count + Len(q)) % MOD
    /\ T.current_link_credit = L.current_link_credit - Len(q)
    /\ T.sends = Marked(L, S, q)
    /\ T = [next_outgoing_id |-> T.next_outgoing_id,
            remote_incoming_window |-> T.remote_incoming_window,
            current_link_credit |-> T.current_link_credit,
            delivery_count |-> T.delivery_count, deliveries |-> T.deliveries,
            sends |-> T.sends, out |-> T.out, broken |-> T.broken]

\* `transfers' does what Passed says, for any set of messages.
LEMMA Passes ==
    ASSUME NEW L \in TxRecord, NEW S
    PROVE  Passed(L, S, in_order(going(L, S)), transfers(L, S))
<1> DEFINE q == in_order(going(L, S))
           T == transfers(L, S)
           a == L.out \o FlattenSeq(Whole(L, q)) \o Part(L, S, Len(q))
           b == L.broken \ failing(L, S)
           c == L.deliveries \cup NewDeliveries(L, q)
           d == Marked(L, S, q)
           n == Len(q)
<1>1. T = [L EXCEPT !.out = a, !.broken = b, !.deliveries = c,
                    !.next_outgoing_id = (L.next_outgoing_id + n) % MOD,
                    !.remote_incoming_window = L.remote_incoming_window - n,
                    !.delivery_count = (L.delivery_count + n) % MOD,
                    !.current_link_credit = L.current_link_credit - n,
                    !.sends = d]
    BY DEF transfers, Whole, Part, NewDeliveries, Marked, IdOf
<1> HIDE DEF a, b, c, d, n, T
<1>2. DOMAIN L = {"next_outgoing_id", "remote_incoming_window", "current_link_credit",
                  "delivery_count", "deliveries", "sends", "out", "broken"}
    BY DEF TxRecord
<1>3. /\ T.out = a /\ T.broken = b /\ T.deliveries = c
      /\ T.next_outgoing_id = (L.next_outgoing_id + n) % MOD
      /\ T.remote_incoming_window = L.remote_incoming_window - n
      /\ T.delivery_count = (L.delivery_count + n) % MOD
      /\ T.current_link_credit = L.current_link_credit - n
      /\ T.sends = d
    BY <1>1, <1>2
<1>4. T = [next_outgoing_id |-> T.next_outgoing_id,
           remote_incoming_window |-> T.remote_incoming_window,
           current_link_credit |-> T.current_link_credit,
           delivery_count |-> T.delivery_count, deliveries |-> T.deliveries,
           sends |-> T.sends, out |-> T.out, broken |-> T.broken]
    BY <1>1, <1>2
<1> QED BY <1>3, <1>4 DEF Passed, a, b, c, d, n, T

\* No more messages go than the window and the credit have room for.
LEMMA RoomOf ==
    ASSUME NEW L \in TxRecord
    PROVE  /\ room(L) \in Nat /\ room(L) <= L.remote_incoming_window
           /\ room(L) <= L.current_link_credit
<1>1. L.remote_incoming_window \in Nat /\ L.current_link_credit \in Nat
    BY TransfersAssumption DEF TxRecord, Number, TransfersAssumption
<1> QED BY <1>1 DEF room

\* The messages of a pass, one after the other, fit into the room.
LEMMA GoingOnes ==
    ASSUME NEW L, Sending(L), NEW S \in SUBSET DOMAIN L.sends
    PROVE  LET G == going(L, S)
               q == in_order(G)
           IN  /\ S \in SUBSET Nat /\ IsFiniteSet(S) /\ G \in SUBSET S
               /\ IsFiniteSet(G) /\ q \in Seq(G) /\ Len(q) = Cardinality(G)
               /\ Len(q) \in Nat /\ Len(q) <= room(L)
               /\ \A m \in G : \E k \in 1 .. Len(q) : q[k] = m
               /\ \A k \in 1 .. Len(q) : q[k] \in G /\ before(q[k], G) = k - 1
               /\ q \in Seq(Message)
<1> DEFINE G == going(L, S)
           q == in_order(G)
<1>1. L \in TxRecord /\ L.sends \in Seq(Send) /\ Len(L.sends) <= MaxMessages
    BY DEF Sending, TxRecord
<1>2. Len(L.sends) \in Nat /\ DOMAIN L.sends = 1 .. Len(L.sends) /\ MaxMessages \in Nat
    BY <1>1, TransfersAssumption DEF TransfersAssumption
<1>3. S \in SUBSET Nat /\ IsFiniteSet(S) /\ S \subseteq Message
    <2>1. S \in SUBSET (1 .. Len(L.sends))
        BY <1>2
    <2>2. IsFiniteSet(1 .. Len(L.sends))
        BY <1>2, FS_Interval
    <2>3. IsFiniteSet(S)
        BY <2>1, <2>2, FS_Subset
    <2>4. 1 .. Len(L.sends) \subseteq Message
        BY <1>1, <1>2 DEF Message
    <2>5. 1 .. Len(L.sends) \subseteq Nat
        BY <1>2
    <2> QED BY <2>1, <2>3, <2>4, <2>5
<1>4. room(L) \in Nat
    BY <1>1, RoomOf
<1>5. G \in SUBSET {m \in S : before(m, S) < room(L)}
    BY DEF going, tried
<1>6. IsFiniteSet(G) /\ Cardinality(G) \in Nat /\ Cardinality(G) <= room(L)
    BY <1>3, <1>4, <1>5, FirstOnes
<1>7. G \in SUBSET S /\ G \in SUBSET Nat
    BY <1>3, <1>5
<1> HIDE DEF G
<1>8. /\ q \in Seq(G) /\ Len(q) = Cardinality(G)
      /\ \A k \in 1 .. Cardinality(G) : before(q[k], G) = k - 1
      /\ \A m \in G : \E k \in 1 .. Cardinality(G) : q[k] = m
    BY <1>6, <1>7, InOrder
<1> HIDE DEF q
<1>9. q \in Seq(Message) /\ \A k \in 1 .. Len(q) : q[k] \in G
    <2>1. G \subseteq Message
        BY <1>3, <1>7
    <2> QED BY <1>8, <2>1
<1> QED BY <1>3, <1>6, <1>7, <1>8, <1>9 DEF G, q

\* Ids stay in 32 bits.
LEMMA IdOfType ==
    ASSUME NEW L \in TxRecord, NEW k \in Nat \ {0}
    PROVE  IdOf(L, k) \in Number
<1>1. L.next_outgoing_id \in Nat /\ MOD \in Nat /\ MOD > 0
    BY TransfersAssumption DEF TxRecord, Number, TransfersAssumption
<1>2. L.next_outgoing_id + k - 1 \in Int
    BY <1>1
<1> QED BY <1>1, <1>2 DEF IdOf, Number

\* The frames of the messages that go are those of each, with its id.
LEMMA WholeOf ==
    ASSUME NEW L, Sending(L), NEW q \in Seq(DOMAIN L.sends)
    PROVE  /\ Whole(L, q) \in Seq(Seq(Frame)) /\ Len(Whole(L, q)) = Len(q)
           /\ \A k \in 1 .. Len(q) : Whole(L, q)[k] = frames(L, q[k], IdOf(L, k))
           /\ FlattenSeq(Whole(L, q)) \in Seq(Frame)
<1>1. L \in TxRecord
    BY DEF Sending
<1>2. ASSUME NEW k \in 1 .. Len(q) PROVE frames(L, q[k], IdOf(L, k)) \in Seq(Frame)
    <2>1. k \in Nat \ {0} /\ q[k] \in DOMAIN L.sends
        OBVIOUS
    <2>2. IdOf(L, k) \in Number
        BY <1>1, <2>1, IdOfType
    <2> QED BY <2>1, <2>2, FramesOf
<1>3. Whole(L, q) \in [1 .. Len(q) -> Seq(Frame)]
    BY <1>2 DEF Whole
<1>4. Len(q) \in Nat
    OBVIOUS
<1>5. Whole(L, q) \in Seq(Seq(Frame)) /\ Len(Whole(L, q)) = Len(q)
    BY <1>3, <1>4
<1> QED BY <1>5, FlattenType DEF Whole

\* The frames written of a message that fails all say that there is more.
LEMMA PartOf ==
    ASSUME NEW L, Sending(L), NEW S \in SUBSET DOMAIN L.sends, NEW n \in Nat
    PROVE  /\ Part(L, S, n) \in Seq(Frame)
           /\ \A k \in 1 .. Len(Part(L, S, n)) :
                 /\ Part(L, S, n)[k].type = "TRANSFER" /\ Part(L, S, n)[k].more
                 /\ Part(L, S, n)[k].message \in Message
           /\ failing(L, S) = {} => Part(L, S, n) = <<>>
<1>1. CASE failing(L, S) = {}
    <2>1. Part(L, S, n) = <<>>
        BY <1>1 DEF Part
    <2> QED BY <2>1
<1>2. CASE failing(L, S) # {}
    <2> DEFINE b == CHOOSE b \in failing(L, S) : TRUE
               m == b.message
               f == frames(L, m, IdOf(L, n + 1))
               pieces == split_of[L.sends[m].payload]
    <2>1. b \in failing(L, S)
        BY <1>2
    <2>2. L \in TxRecord /\ b \in L.broken
        BY <2>1 DEF failing, Sending
    <2>3. m \in DOMAIN L.sends /\ b.cut \in Nat /\ b.cut < Len(pieces)
        BY <2>2 DEF Sending, TxRecord, Break
    <2>4. Part(L, S, n) = SubSeq(f, 1, b.cut)
        BY <1>2 DEF Part
    <2> DEFINE i == IdOf(L, n + 1)
               c == b.cut
    <2>5. i \in Number
        BY <2>2, IdOfType
    <2> HIDE DEF b, m, i, c
    <2>6. /\ f \in Seq(Frame) /\ Len(f) = Len(pieces) /\ m \in Message /\ L.sends[m].payload \in Payloads
          /\ \A k \in 1 .. Len(pieces) :
                f[k] = [type |-> "TRANSFER", id |-> i, more |-> pieces[k].more,
                        bytes |-> named(m, pieces[k].bytes), message |-> m]
        BY <2>3, <2>5, FramesOf DEF i
    <2>7. Len(pieces) \in Nat /\ \A k \in 1 .. Len(pieces) : pieces[k].more <=> k < Len(pieces)
        BY <2>6, PiecesOf
    <2> HIDE DEF f, pieces
    <2>8. /\ SubSeq(f, 1, c) \in Seq(Frame) /\ Len(SubSeq(f, 1, c)) = c
          /\ \A k \in 1 .. c : SubSeq(f, 1, c)[k] = f[k]
        BY <2>3, <2>6, <2>7 DEF c
    <2>9. ASSUME NEW k \in 1 .. c
          PROVE  f[k].type = "TRANSFER" /\ f[k].more /\ f[k].message \in Message
        <3>1. k \in 1 .. Len(pieces) /\ k < Len(pieces)
            BY <2>3, <2>7 DEF c
        <3> DEFINE g == f[k]
        <3>2. g = [type |-> "TRANSFER", id |-> i, more |-> pieces[k].more,
                   bytes |-> named(m, pieces[k].bytes), message |-> m]
            BY <2>6, <3>1
        <3> HIDE DEF g
        <3>3. g.type = "TRANSFER" /\ g.message = m /\ g.more = pieces[k].more
            BY <3>2
        <3>4. pieces[k].more
            BY <2>7, <3>1
        <3>5. g.more
            BY <3>3, <3>4
        <3> QED BY <2>6, <3>3, <3>5 DEF g
    <2>10. Part(L, S, n) = SubSeq(f, 1, c)
        BY <2>4 DEF c
    <2> QED BY <1>2, <2>8, <2>9, <2>10
<1> QED BY <1>1, <1>2

\* Range of a sequence that lists the set G.
LEMMA RangeOf ==
    ASSUME NEW G, NEW q \in Seq(G), \A m \in G : \E k \in 1 .. Len(q) : q[k] = m
    PROVE  Range(q) = G
<1>1. DOMAIN q = 1 .. Len(q) /\ \A k \in 1 .. Len(q) : q[k] \in G
    OBVIOUS
<1> QED BY <1>1 DEF Range

\* A pass changes nothing of the messages but their states.
LEMMA MarkedSends ==
    ASSUME NEW L, Sending(L), NEW S \in SUBSET DOMAIN L.sends
    PROVE  LET G == going(L, S)
               s == transfers(L, S).sends
           IN  /\ s \in Seq(Send) /\ Len(s) = Len(L.sends)
               /\ \A m \in 1 .. Len(L.sends) :
                     /\ s[m].payload = L.sends[m].payload
                     /\ m \in G => s[m].state = "PENDING"
                     /\ m \notin G /\ (\E b \in failing(L, S) : b.message = m)
                            => s[m].state = "ERROR"
                     /\ m \notin G /\ ~(\E b \in failing(L, S) : b.message = m)
                            => s[m] = L.sends[m]
<1> DEFINE G == going(L, S)
           q == in_order(G)
           u == L.sends
           s == transfers(L, S).sends
<1>1. L \in TxRecord /\ u \in Seq(Send)
    BY DEF Sending, TxRecord
<1>2. Range(q) = G
    BY GoingOnes, RangeOf
<1>3. s = Marked(L, S, q)
    BY <1>1, Passes DEF Passed
<1> HIDE DEF G
<1>4. s = [m \in DOMAIN u |->
            IF m \in G THEN [u[m] EXCEPT !.state = "PENDING"]
            ELSE IF \E b \in failing(L, S) : b.message = m THEN [u[m] EXCEPT !.state = "ERROR"]
            ELSE u[m]]
    BY <1>2, <1>3 DEF Marked
<1> HIDE DEF s, u
<1>5. DOMAIN u = 1 .. Len(u) /\ Len(u) \in Nat /\ \A m \in 1 .. Len(u) : u[m] \in Send
    BY <1>1
<1>6. ASSUME NEW v \in Send, NEW t \in {"PENDING", "ERROR"}
      PROVE  LET w == [v EXCEPT !.state = t]
             IN  w \in Send /\ w.payload = v.payload /\ w.state = t
    BY DEF Send
<1>7. ASSUME NEW m \in 1 .. Len(u)
      PROVE  /\ s[m] \in Send /\ s[m].payload = u[m].payload
             /\ m \in G => s[m].state = "PENDING"
             /\ m \notin G /\ (\E b \in failing(L, S) : b.message = m) => s[m].state = "ERROR"
             /\ m \notin G /\ ~(\E b \in failing(L, S) : b.message = m) => s[m] = u[m]
    <2>1. u[m] \in Send /\ m \in DOMAIN u
        BY <1>5
    <2> DEFINE v == u[m]
    <2>2. v \in Send
        BY <2>1
    <2>3. CASE m \in G
        <3>1. s[m] = [v EXCEPT !.state = "PENDING"]
            BY <1>4, <2>1, <2>3
        <3> HIDE DEF v
        <3>2. s[m] \in Send /\ s[m].payload = v.payload /\ s[m].state = "PENDING"
            BY <1>6, <2>2, <3>1
        <3> QED BY <2>3, <3>2 DEF v
    <2>4. CASE m \notin G /\ (\E b \in failing(L, S) : b.message = m)
        <3>1. s[m] = [v EXCEPT !.state = "ERROR"]
            BY <1>4, <2>1, <2>4
        <3> HIDE DEF v
        <3>2. s[m] \in Send /\ s[m].payload = v.payload /\ s[m].state = "ERROR"
            BY <1>6, <2>2, <3>1
        <3> QED BY <2>4, <3>2 DEF v
    <2>5. CASE m \notin G /\ ~(\E b \in failing(L, S) : b.message = m)
        BY <1>4, <2>1, <2>5
    <2> QED BY <2>3, <2>4, <2>5
<1>8. s \in Seq(Send) /\ Len(s) = Len(u)
    <2>1. DOMAIN s = 1 .. Len(u) /\ s = [m \in 1 .. Len(u) |-> s[m]]
        BY <1>4, <1>5
    <2>2. s \in [1 .. Len(u) -> Send]
        BY <1>7, <2>1
    <2> QED BY <1>5, <2>2
<1> QED BY <1>7, <1>8 DEF G, s, u

\* A pass leaves a sender.
LEMMA PassSending ==
    ASSUME NEW L, Sending(L), NEW S \in SUBSET DOMAIN L.sends
    PROVE  Sending(transfers(L, S))
<1> DEFINE G == going(L, S)
           q == in_order(G)
           n == Len(q)
           T == transfers(L, S)
<1>1. L \in TxRecord /\ Len(L.sends) <= MaxMessages
    BY DEF Sending
<1>2. Passed(L, S, q, T)
    BY <1>1, Passes
<1>3. /\ n \in Nat /\ n <= room(L) /\ q \in Seq(Message) /\ G \in SUBSET S
      /\ \A k \in 1 .. n : q[k] \in G
    BY GoingOnes
<1>4. q \in Seq(DOMAIN L.sends)
    <2> HIDE DEF G, q
    <2>1. \A k \in 1 .. Len(q) : q[k] \in DOMAIN L.sends
        BY <1>3 DEF n
    <2> QED BY <1>3, <2>1
<1>5. /\ T.sends \in Seq(Send) /\ Len(T.sends) = Len(L.sends)
      /\ \A m \in 1 .. Len(L.sends) : T.sends[m].payload = L.sends[m].payload
    BY MarkedSends
<1>6. FlattenSeq(Whole(L, q)) \in Seq(Frame)
    BY <1>4, WholeOf
<1>7. Part(L, S, n) \in Seq(Frame)
    BY <1>3, PartOf
<1>8. NewDeliveries(L, q) \subseteq Delivery
    <2> SUFFICES ASSUME NEW k \in 1 .. n PROVE [id |-> IdOf(L, k), message |-> q[k]] \in Delivery
        BY DEF NewDeliveries
    <2>1. IdOf(L, k) \in Number
        <3>1. k \in Nat \ {0}
            BY <1>3
        <3> QED BY <1>1, <3>1, IdOfType
    <2>2. q[k] \in Message
        BY <1>3
    <2> QED BY <2>1, <2>2 DEF Delivery
<1> HIDE DEF T, G, q, n
<1>9. MOD \in Nat /\ MOD > 0
    BY TransfersAssumption DEF TransfersAssumption
<1>10. /\ L.next_outgoing_id \in 0 .. MOD - 1 /\ L.remote_incoming_window \in 0 .. MOD - 1
       /\ L.current_link_credit \in 0 .. MOD - 1 /\ L.delivery_count \in 0 .. MOD - 1
       /\ L.deliveries \in SUBSET Delivery /\ L.out \in Seq(Frame) /\ L.broken \in SUBSET Break
    BY <1>1 DEF TxRecord, Number
<1>11. n <= L.remote_incoming_window /\ n <= L.current_link_credit
    BY <1>1, <1>3, <1>10, RoomOf
<1>12. /\ T.next_outgoing_id \in Number /\ T.delivery_count \in Number
    <2>1. /\ T.next_outgoing_id = (L.next_outgoing_id + n) % MOD
          /\ T.delivery_count = (L.delivery_count + n) % MOD
        BY <1>2 DEF Passed, n
    <2>2. \A x \in Nat : x % MOD \in 0 .. MOD - 1
        BY <1>9
    <2>3. L.next_outgoing_id + n \in Nat /\ L.delivery_count + n \in Nat
        BY <1>3, <1>9, <1>10
    <2> QED BY <2>1, <2>2, <2>3 DEF Number
<1>13. T.remote_incoming_window \in Number /\ T.current_link_credit \in Number
    <2>1. /\ T.remote_incoming_window = L.remote_incoming_window - n
          /\ T.current_link_credit = L.current_link_credit - n
        BY <1>2 DEF Passed, n
    <2> QED BY <1>3, <1>9, <1>10, <1>11, <2>1 DEF Number
<1>14. T.deliveries \in SUBSET Delivery /\ T.broken \in SUBSET Break /\ T.broken \subseteq L.broken
    BY <1>2, <1>8, <1>10 DEF Passed
<1>15. T.out \in Seq(Frame)
    <2>1. T.out = L.out \o FlattenSeq(Whole(L, q)) \o Part(L, S, n)
        BY <1>2 DEF Passed, n
    <2>2. \A a, b, c \in Seq(Frame) : a \o b \o c \in Seq(Frame)
        OBVIOUS
    <2> QED BY <1>6, <1>7, <1>10, <2>1, <2>2
<1>16. T \in TxRecord
    <2>1. T = [next_outgoing_id |-> T.next_outgoing_id,
               remote_incoming_window |-> T.remote_incoming_window,
               current_link_credit |-> T.current_link_credit,
               delivery_count |-> T.delivery_count, deliveries |-> T.deliveries,
               sends |-> T.sends, out |-> T.out, broken |-> T.broken]
        BY <1>2 DEF Passed
    <2> QED BY <1>5, <1>12, <1>13, <1>14, <1>15, <2>1 DEF TxRecord
<1>17. ASSUME NEW b \in T.broken
       PROVE  b.message \in DOMAIN T.sends /\ b.cut < Len(split_of[T.sends[b.message].payload])
    <2>1. b \in L.broken
        BY <1>14
    <2>2. b.message \in DOMAIN L.sends /\ b.cut < Len(split_of[L.sends[b.message].payload])
        BY <2>1 DEF Sending
    <2>3. L.sends \in Seq(Send)
        BY <1>1 DEF TxRecord
    <2>4. DOMAIN L.sends = 1 .. Len(L.sends) /\ DOMAIN T.sends = 1 .. Len(T.sends)
        BY <1>5, <2>3
    <2> QED BY <1>5, <2>2, <2>4
<1> QED BY <1>1, <1>5, <1>16, <1>17 DEF Sending, T

-----------------------------------------------------------------------------
(* Types *)

\* What the assumption says of the numbers.
LEMMA Numbers ==
    /\ MOD \in Nat /\ MOD > 0
    /\ \A x \in Int : x % MOD \in Number
    /\ \A x \in Number : x \in Nat /\ x < MOD
    /\ 0 \in Number /\ INCOMING_WINDOW \in Number /\ MAX_LINK_CREDIT \in Number
    /\ INCOMING_WINDOW > 0
<1>1. MOD \in Nat /\ MOD > INCOMING_WINDOW /\ MOD > MAX_LINK_CREDIT /\ MOD > 0
    BY TransfersAssumption DEF TransfersAssumption
<1> QED BY <1>1, TransfersAssumption DEF TransfersAssumption, Number

\* The receiving side in the middle of an action.
RxRecord ==
    [next_incoming_id : Number, incoming_window : Number, current_link_credit : Number,
     delivery_count : Number, received_payload : Seq(Byte), held : SUBSET Number,
     out : Seq(Answer)]

\* What the proofs need besides: the window is renewed as soon as it is used up.
TransferTypeInv ==
    /\ TransferTypeOK
    /\ Len(tx.sends) <= MaxMessages
    /\ rx.incoming_window > 0

TxIdle == [next_outgoing_id : Number, remote_incoming_window : Number,
           current_link_credit : Number, delivery_count : Number,
           deliveries : SUBSET Delivery, sends : Seq(Send), out : {<<>>}, broken : {{}}]

RxIdle == [next_incoming_id : Number, incoming_window : Number,
           current_link_credit : Number, delivery_count : Number,
           received_payload : Seq(Byte), held : SUBSET Number, out : {<<>>}]

\* The type invariant in terms of the two sides.
LEMMA TypeParts ==
    TransferTypeOK <=>
        /\ tx \in TxIdle /\ rx \in RxIdle
        /\ forth \in Seq(Frame) /\ back \in Seq(Answer)
        /\ delivered \in Seq([message : Message, payload : Seq(Byte)])
        /\ written \in Nat /\ taken \in Nat /\ granted \in Nat /\ split \in BOOLEAN
        /\ faults \in 0 .. MaxFaults /\ flows \in 0 .. MaxFlows
BY DEF TransferTypeOK, TxIdle, RxIdle

\* The receiving side between actions has written nothing,
LEMMA IdleRx ==
    ASSUME NEW R \in RxIdle
    PROVE  R \in RxRecord /\ R.out = <<>>
<1>1. R.out = <<>> /\ <<>> \in Seq(Answer)
    BY DEF RxIdle
<1> QED BY <1>1 DEF RxIdle, RxRecord

\* and is so again when what it wrote is taken away;
LEMMA RestsRx ==
    ASSUME NEW R \in RxRecord
    PROVE  [R EXCEPT !.out = <<>>] \in RxIdle
BY DEF RxIdle, RxRecord

\* so is the sending side.
LEMMA RestsTx ==
    ASSUME NEW L \in TxRecord, L.broken = {}
    PROVE  [L EXCEPT !.out = <<>>] \in TxIdle /\ [L EXCEPT !.out = <<>>].sends = L.sends
BY DEF TxIdle, TxRecord

\* A sender between actions, with what fails in the next one.
LEMMA BeginsSending ==
    ASSUME NEW L \in TxIdle, NEW B \in SUBSET Break, Len(L.sends) <= MaxMessages,
           \A b \in B : /\ b.message \in DOMAIN L.sends
                        /\ b.cut < Len(split_of[L.sends[b.message].payload])
    PROVE  LET K == [L EXCEPT !.broken = B]
           IN  /\ Sending(K) /\ K.broken = B /\ K.sends = L.sends /\ K.out = <<>>
               /\ K.next_outgoing_id = L.next_outgoing_id
               /\ K.remote_incoming_window = L.remote_incoming_window
               /\ K.current_link_credit = L.current_link_credit
               /\ K.delivery_count = L.delivery_count
               /\ K.deliveries = L.deliveries
<1> DEFINE K == [L EXCEPT !.broken = B]
<1>1. <<>> \in Seq(Frame)
    OBVIOUS
<1>2. /\ K \in TxRecord /\ K.broken = B /\ K.sends = L.sends /\ K.out = <<>>
      /\ K.next_outgoing_id = L.next_outgoing_id
      /\ K.remote_incoming_window = L.remote_incoming_window
      /\ K.current_link_credit = L.current_link_credit
      /\ K.delivery_count = L.delivery_count
      /\ K.deliveries = L.deliveries
    BY <1>1 DEF TxIdle, TxRecord
<1> HIDE DEF K
<1> QED BY <1>2 DEF Sending, K

\* The windows and credits that a FLOW sets are numbers.
LEMMA FlowSending ==
    ASSUME NEW L, Sending(L), NEW w \in Number
    PROVE  /\ Sending([L EXCEPT !.remote_incoming_window = w])
           /\ Sending([L EXCEPT !.current_link_credit = w])
<1>1. L \in TxRecord
    BY DEF Sending
<1>2. ASSUME NEW K, K \in {[L EXCEPT !.remote_incoming_window = w], [L EXCEPT !.current_link_credit = w]}
      PROVE  Sending(K)
    <2>1. K \in TxRecord /\ K.sends = L.sends /\ K.broken = L.broken
        BY <1>1, <1>2 DEF TxRecord
    <2> QED BY <2>1 DEF Sending
<1> QED BY <1>2

\* The messages that wait are in the list of the sender.
LEMMA WaitingOnes ==
    ASSUME NEW L
    PROVE  waiting(L) \in SUBSET DOMAIN L.sends
BY DEF waiting

\* What may fail in an action: a frame of one message, which is not its last.
LEMMA BreakableOnes ==
    ASSUME NEW m \in Message, NEW payload \in Payloads, NEW B \in Breakable(m, payload)
    PROVE  /\ B \in SUBSET Break
           /\ \A b \in B : b.message = m /\ b.cut < Len(split_of[payload])
<1> DEFINE n == Len(split_of[payload])
<1>1. n \in Nat
    BY PiecesOf
<1>2. B = {} \/ \E c \in 0 .. n - 1 : B = {[message |-> m, cut |-> c]}
    BY DEF Breakable
<1> HIDE DEF n
<1>3. ASSUME NEW c \in 0 .. n - 1
      PROVE  LET b == [message |-> m, cut |-> c]
             IN  b \in Break /\ b.message = m /\ b.cut < n
    BY <1>1 DEF Break
<1> QED BY <1>2, <1>3 DEF n

\* An idle sender into whose hands a message has been put.
LEMMA TakesMessage ==
    ASSUME TransferTypeInv, Len(tx.sends) < MaxMessages, NEW payload \in Payloads,
           NEW B \in Breakable(Len(tx.sends) + 1, payload)
    PROVE  LET L == [tx EXCEPT !.sends = Append(@, [payload |-> payload, state |-> "NOT_SENT"]),
                               !.broken = B]
           IN  /\ Sending(L) /\ L.broken = B /\ L.out = <<>>
               /\ L.sends = Append(tx.sends, [payload |-> payload, state |-> "NOT_SENT"])
               /\ Len(L.sends) = Len(tx.sends) + 1 /\ Len(L.sends) \in DOMAIN L.sends
               /\ \A m \in 1 .. Len(tx.sends) : L.sends[m] = tx.sends[m]
               /\ L.sends[Len(L.sends)] = [payload |-> payload, state |-> "NOT_SENT"]
               /\ L.next_outgoing_id = tx.next_outgoing_id
               /\ L.remote_incoming_window = tx.remote_incoming_window
               /\ L.current_link_credit = tx.current_link_credit
               /\ L.delivery_count = tx.delivery_count
               /\ L.deliveries = tx.deliveries
<1> DEFINE e == [payload |-> payload, state |-> "NOT_SENT"]
           s == Append(tx.sends, e)
           K == [tx EXCEPT !.sends = s]
           L == [tx EXCEPT !.sends = s, !.broken = B]
           N == Len(tx.sends)
<1>1. tx \in TxIdle /\ tx.sends \in Seq(Send) /\ N \in Nat
    <2>1. tx \in TxIdle
        BY TypeParts DEF TransferTypeInv
    <2>2. tx.sends \in Seq(Send)
        BY <2>1 DEF TxIdle
    <2> QED BY <2>1, <2>2
<1>2. e \in Send
    BY DEF Send
<1> HIDE DEF e
<1>3. /\ s \in Seq(Send) /\ Len(s) = N + 1 /\ s[N + 1] = e
      /\ \A m \in 1 .. N : s[m] = tx.sends[m]
    BY <1>1, <1>2
<1>4. DOMAIN s = 1 .. N + 1 /\ N + 1 \in DOMAIN s
    BY <1>1, <1>3
<1> HIDE DEF s
<1>5. /\ K \in TxIdle /\ K.sends = s /\ L = [K EXCEPT !.broken = B]
      /\ K.next_outgoing_id = tx.next_outgoing_id
      /\ K.remote_incoming_window = tx.remote_incoming_window
      /\ K.current_link_credit = tx.current_link_credit
      /\ K.delivery_count = tx.delivery_count
      /\ K.deliveries = tx.deliveries
    BY <1>1, <1>3 DEF TxIdle
<1>6. N + 1 \in Message
    BY <1>1, TransfersAssumption DEF Message, TransfersAssumption
<1>7. B \in SUBSET Break /\ \A b \in B : b.message = N + 1 /\ b.cut < Len(split_of[payload])
    BY <1>6, BreakableOnes
<1>8. s[N + 1].payload = payload
    BY <1>3 DEF e
<1> HIDE DEF K, L, N
<1>9. /\ Len(K.sends) <= MaxMessages
      /\ \A b \in B : /\ b.message \in DOMAIN K.sends
                      /\ b.cut < Len(split_of[K.sends[b.message].payload])
    <2>1. N < MaxMessages /\ MaxMessages \in Nat
        BY TransfersAssumption DEF TransfersAssumption, N
    <2>2. Len(K.sends) <= MaxMessages
        BY <1>1, <1>3, <1>5, <2>1
    <2> QED BY <1>4, <1>5, <1>7, <1>8, <2>2
<1>10. /\ Sending(L) /\ L.broken = B /\ L.sends = s /\ L.out = <<>>
       /\ L.next_outgoing_id = K.next_outgoing_id
       /\ L.remote_incoming_window = K.remote_incoming_window
       /\ L.current_link_credit = K.current_link_credit
       /\ L.delivery_count = K.delivery_count
       /\ L.deliveries = K.deliveries
    BY <1>5, <1>7, <1>9, BeginsSending
<1>11. Len(L.sends) = N + 1 /\ Len(L.sends) \in DOMAIN L.sends /\ L.sends[Len(L.sends)] = e
    BY <1>3, <1>4, <1>10
<1> QED BY <1>3, <1>5, <1>10, <1>11 DEF e, s, L, N

\* A FLOW that is at hand has numbers in it.
LEMMA FlowAtHand ==
    ASSUME back \in Seq(Answer), back # <<>>, Head(back).type \in {"FLOW", "LINK_FLOW"}
    PROVE  /\ Head(back).next_incoming_id \in Number /\ Head(back).incoming_window \in Number
           /\ Head(back).type = "LINK_FLOW" =>
                 Head(back).delivery_count \in Number /\ Head(back).link_credit \in Number
<1> DEFINE f == Head(back)
<1>1. f \in Answer /\ f.type \in {"FLOW", "LINK_FLOW"}
    OBVIOUS
<1> HIDE DEF f
<1>2. f \in Answer /\ f.type \in {"FLOW", "LINK_FLOW"} =>
        /\ f.next_incoming_id \in Number /\ f.incoming_window \in Number
        /\ f.type = "LINK_FLOW" => f.delivery_count \in Number /\ f.link_credit \in Number
    BY DEF Answer
<1> QED BY <1>1, <1>2 DEF f

\* A FLOW sets the window, then perhaps the credit with a pass, and ends with a
\* pass unless the window is closed: whatever holds of the sender once the
\* window is set, and is kept by setting the credit and by a pass, holds when
\* the frames are written.
LEMMA FlowSteps ==
    ASSUME TransferTypeInv, NEW B, flow_received(B), NEW Q,
           session_flow([tx EXCEPT !.broken = B], Head(back)) \in Q,
           \A L \in Q : Sending(L),
           \A L \in Q : \A w \in Number : [L EXCEPT !.current_link_credit = w] \in Q,
           \A L \in Q : transfers(L, waiting(L)) \in Q
    PROVE  \E E \in Q : /\ tx_writes(E)
                        /\ \/ \E M \in Q : E = transfers(M, waiting(M))
                           \/ E.remote_incoming_window = 0
<1> DEFINE flow == Head(back)
           L == session_flow([tx EXCEPT !.broken = B], flow)
           M == IF flow.type = "LINK_FLOW" THEN link_flow(L, flow) ELSE L
           E == IF M.remote_incoming_window > 0 THEN send_all_pending_messages(M) ELSE M
<1>1. tx_writes(E)
    BY DEF flow_received
<1>2. L \in Q
    OBVIOUS
<1>3. back \in Seq(Answer) /\ back # <<>> /\ flow.type \in {"FLOW", "LINK_FLOW"}
    BY DEF flow_received, TransferTypeInv, TransferTypeOK
<1>4. flow.type = "LINK_FLOW" => flow.delivery_count \in Number /\ flow.link_credit \in Number
    BY <1>3, FlowAtHand
<1> HIDE DEF L, flow
<1>5. M \in Q
    <2>1. CASE flow.type = "LINK_FLOW"
        <3> DEFINE w == (flow.delivery_count + flow.link_credit - L.delivery_count) % MOD
                   K == [L EXCEPT !.current_link_credit = w]
        <3>1. L.delivery_count \in Number
            BY <1>2 DEF Sending, TxRecord
        <3>2. flow.delivery_count + flow.link_credit - L.delivery_count \in Int
            BY <1>4, <2>1, <3>1, Numbers
        <3>3. w \in Number
            BY <3>2, Numbers
        <3> HIDE DEF w
        <3>4. K \in Q
            BY <1>2, <3>3
        <3>5. link_flow(L, flow) = IF K.current_link_credit > 0 THEN transfers(K, waiting(K)) ELSE K
            BY DEF link_flow, send_all_pending_messages, K, w
        <3> HIDE DEF K
        <3> QED BY <2>1, <3>4, <3>5
    <2>2. CASE flow.type # "LINK_FLOW"
        BY <1>2, <2>2
    <2> QED BY <2>1, <2>2
<1> HIDE DEF M
<1>6. CASE M.remote_incoming_window > 0
    BY <1>1, <1>5, <1>6 DEF send_all_pending_messages
<1>7. CASE ~(M.remote_incoming_window > 0)
    <2>1. M.remote_incoming_window \in Nat
        BY <1>5, Numbers DEF Sending, TxRecord
    <2>2. M.remote_incoming_window = 0
        BY <1>7, <2>1
    <2> QED BY <1>1, <1>5, <1>7, <2>2
<1> QED BY <1>6, <1>7

\* What the sending side writes at the end of an action.
LEMMA WritesTypes ==
    ASSUME TransferTypeInv, NEW E, Sending(E), tx_writes(E)
    PROVE  /\ tx' \in TxIdle /\ Len(tx'.sends) <= MaxMessages
           /\ forth' \in Seq(Frame) /\ written' \in Nat /\ split' \in BOOLEAN
<1>1. /\ E \in TxRecord /\ Len(E.sends) <= MaxMessages /\ E.broken = {}
      /\ tx' = [E EXCEPT !.out = <<>>] /\ forth' = forth \o E.out
      /\ written' = written + Len(E.out)
      /\ split' = (split \/ \E k \in DOMAIN E.out : E.out[k].more)
    BY DEF Sending, tx_writes
<1>2. tx' \in TxIdle /\ tx'.sends = E.sends
    BY <1>1, RestsTx
<1>3. E.out \in Seq(Frame) /\ forth \in Seq(Frame) /\ written \in Nat
    BY <1>1 DEF TxRecord, TransferTypeInv, TransferTypeOK
<1>4. split' \in BOOLEAN
    BY <1>1
<1>5. forth' \in Seq(Frame) /\ written' \in Nat
    BY <1>1, <1>3
<1> QED BY <1>1, <1>2, <1>4, <1>5

\* A FLOW of the receiving side says how far it has counted and its window.
FlowOf(a, R) ==
    /\ a \in Answer /\ a.type \in {"FLOW", "LINK_FLOW"}
    /\ a.next_incoming_id = R.next_incoming_id /\ a.incoming_window = R.incoming_window

DispositionOf(a, id) ==
    a \in Answer /\ a.type = "DISPOSITION" /\ a.first = id /\ a.last = id

\* What the receiving side writes.
LEMMA Answers ==
    ASSUME NEW R \in RxRecord, NEW id \in Number
    PROVE  /\ FlowOf(session_flow_frame(R), R) /\ FlowOf(link_flow_frame(R), R)
           /\ DispositionOf([type |-> "DISPOSITION", first |-> id, last |-> id], id)
<1>1. /\ R.next_incoming_id \in Number /\ R.incoming_window \in Number
      /\ R.delivery_count \in Number /\ R.current_link_credit \in Number
    BY DEF RxRecord
<1>2. FlowOf(session_flow_frame(R), R)
    BY <1>1 DEF FlowOf, session_flow_frame, Answer
<1>3. FlowOf(link_flow_frame(R), R)
    BY <1>1 DEF FlowOf, link_flow_frame, Answer
<1>4. DispositionOf([type |-> "DISPOSITION", first |-> id, last |-> id], id)
    BY DEF DispositionOf, Answer
<1> QED BY <1>2, <1>3, <1>4

\* One more answer is written.
LEMMA AppendOut ==
    ASSUME NEW R \in RxRecord, NEW a \in Answer
    PROVE  LET S == [R EXCEPT !.out = Append(@, a)]
           IN  /\ S \in RxRecord /\ S.out = Append(R.out, a)
               /\ S.next_incoming_id = R.next_incoming_id
               /\ S.incoming_window = R.incoming_window
               /\ S.received_payload = R.received_payload /\ S.held = R.held
<1> DEFINE b == Append(R.out, a)
           S == [R EXCEPT !.out = b]
<1>1. R.out \in Seq(Answer)
    BY DEF RxRecord
<1>2. b \in Seq(Answer)
    BY <1>1
<1> HIDE DEF b
<1>3. /\ S \in RxRecord /\ S.out = b
      /\ S.next_incoming_id = R.next_incoming_id
      /\ S.incoming_window = R.incoming_window
      /\ S.received_payload = R.received_payload /\ S.held = R.held
    BY <1>2 DEF RxRecord
<1> QED BY <1>3 DEF b

\* What the steps of a handler make of the receiving side: the credit is renewed,
Credited(R, S) ==
    /\ S \in RxRecord /\ S.next_incoming_id = R.next_incoming_id
    /\ S.incoming_window = R.incoming_window
    /\ S.received_payload = R.received_payload /\ S.held = R.held
    /\ \/ S.out = R.out
       \/ \E a \in Answer : S.out = Append(R.out, a) /\ FlowOf(a, R)

\* link.c: the credit is renewed, and the FLOW that says so may get lost.
LEMMA CreditedIs ==
    ASSUME NEW R \in RxRecord, NEW fail
    PROVE  Credited(R, credited(R, fail))
<1> DEFINE C == [R EXCEPT !.current_link_credit = MAX_LINK_CREDIT]
           a == link_flow_frame(C)
           D == [C EXCEPT !.out = Append(@, a)]
<1>1. /\ C \in RxRecord /\ C.next_incoming_id = R.next_incoming_id
      /\ C.incoming_window = R.incoming_window /\ C.out = R.out
      /\ C.received_payload = R.received_payload /\ C.held = R.held
    BY Numbers DEF RxRecord
<1>2. credited(R, fail) \in {R, C, D}
    BY DEF credited
<1> HIDE DEF C
<1>3. FlowOf(a, C)
    BY <1>1, Answers, Numbers
<1>4. a \in Answer /\ FlowOf(a, R)
    BY <1>1, <1>3 DEF FlowOf
<1> HIDE DEF a
<1>5. /\ D \in RxRecord /\ D.out = Append(C.out, a)
      /\ D.next_incoming_id = C.next_incoming_id
      /\ D.incoming_window = C.incoming_window
      /\ D.received_payload = C.received_payload /\ D.held = C.held
    BY <1>1, <1>4, AppendOut
<1> HIDE DEF D
<1> QED BY <1>1, <1>2, <1>4, <1>5 DEF Credited

\* the bytes of a frame are put behind those before it,
Collected(R, frame, fail, S) ==
    /\ S \in RxRecord /\ S.next_incoming_id = R.next_incoming_id
    /\ S.incoming_window = R.incoming_window
    /\ S.held = R.held /\ S.out = R.out
    /\ S.received_payload =
          IF (R.received_payload # <<>> \/ frame.more) /\ "memory" \notin fail
          THEN R.received_payload \o frame.bytes ELSE R.received_payload

\* link.c: received_payload grows by the bytes of the frame.
LEMMA CollectedIs ==
    ASSUME NEW R \in RxRecord, NEW frame, frame.bytes \in Seq(Byte), NEW fail
    PROVE  Collected(R, frame, fail, collected(R, frame, fail))
<1> DEFINE b == R.received_payload \o frame.bytes
           C == [R EXCEPT !.received_payload = b]
<1>1. R.received_payload \in Seq(Byte)
    BY DEF RxRecord
<1>2. b \in Seq(Byte)
    BY <1>1
<1>3. collected(R, frame, fail) =
         IF (R.received_payload # <<>> \/ frame.more) /\ "memory" \notin fail THEN C ELSE R
    BY DEF collected
<1> HIDE DEF b
<1>4. /\ C \in RxRecord /\ C.next_incoming_id = R.next_incoming_id
      /\ C.incoming_window = R.incoming_window /\ C.out = R.out
      /\ C.received_payload = b /\ C.held = R.held
    BY <1>2 DEF RxRecord
<1> HIDE DEF C
<1>5. CASE (R.received_payload # <<>> \/ frame.more) /\ "memory" \notin fail
    BY <1>3, <1>4, <1>5 DEF b, Collected
<1>6. CASE ~((R.received_payload # <<>> \/ frame.more) /\ "memory" \notin fail)
    BY <1>3, <1>6 DEF Collected
<1> QED BY <1>5, <1>6

\* a message is complete,
Delivers(R, frame, S) ==
    /\ S \in RxRecord /\ S.next_incoming_id = R.next_incoming_id
    /\ S.incoming_window = R.incoming_window
    /\ S.received_payload = <<>>
    /\ \/ S.held = R.held \cup {frame.id} /\ S.out = R.out
       \/ S.held = R.held /\ \E a \in Answer : /\ S.out = Append(R.out, a)
                                              /\ DispositionOf(a, frame.id)

\* link.c: the message is indicated and settled at once or kept.
LEMMA DeliversIs ==
    ASSUME NEW R \in RxRecord, NEW frame, frame.id \in Number, NEW settle
    PROVE  Delivers(R, frame, delivers(R, frame, settle))
<1> DEFINE c == (R.current_link_credit - 1) % MOD
           d == (R.delivery_count + 1) % MOD
           C == [R EXCEPT !.current_link_credit = c, !.delivery_count = d,
                          !.received_payload = <<>>]
           a == [type |-> "DISPOSITION", first |-> frame.id, last |-> frame.id]
           D == [C EXCEPT !.out = Append(@, a)]
           H == [C EXCEPT !.held = @ \cup {frame.id}]
<1>1. c \in Number /\ d \in Number /\ <<>> \in Seq(Byte)
    <2>1. R.current_link_credit \in Number /\ R.delivery_count \in Number
        BY DEF RxRecord
    <2>2. R.current_link_credit - 1 \in Int /\ R.delivery_count + 1 \in Int
        BY <2>1, Numbers
    <2> QED BY <2>2, Numbers
<1>2. delivers(R, frame, settle) \in {D, H}
    BY DEF delivers
<1> HIDE DEF c, d
<1>3. /\ C \in RxRecord /\ C.next_incoming_id = R.next_incoming_id
      /\ C.incoming_window = R.incoming_window /\ C.out = R.out
      /\ C.received_payload = <<>> /\ C.held = R.held
    BY <1>1 DEF RxRecord
<1>4. DispositionOf(a, frame.id)
    BY <1>3, Answers
<1>5. a \in Answer
    BY <1>4 DEF DispositionOf
<1> HIDE DEF C, a
<1>6. /\ D \in RxRecord /\ D.out = Append(C.out, a)
      /\ D.next_incoming_id = C.next_incoming_id
      /\ D.incoming_window = C.incoming_window
      /\ D.received_payload = C.received_payload /\ D.held = C.held
    BY <1>3, <1>5, AppendOut
<1>7. /\ H \in RxRecord /\ H.out = C.out
      /\ H.next_incoming_id = C.next_incoming_id
      /\ H.incoming_window = C.incoming_window
      /\ H.received_payload = C.received_payload /\ H.held = C.held \cup {frame.id}
    BY <1>3 DEF RxRecord
<1> HIDE DEF D, H
<1>8. CASE delivers(R, frame, settle) = D
    BY <1>3, <1>4, <1>5, <1>6, <1>8 DEF Delivers
<1>9. CASE delivers(R, frame, settle) = H
    BY <1>3, <1>7, <1>9 DEF Delivers
<1> QED BY <1>2, <1>8, <1>9

\* and the window is renewed.
Renewed(R, S) ==
    /\ S \in RxRecord /\ S.next_incoming_id = R.next_incoming_id
    /\ S.incoming_window = IF R.incoming_window > 0 THEN R.incoming_window
                           ELSE INCOMING_WINDOW
    /\ S.received_payload = R.received_payload /\ S.held = R.held
    /\ \/ S.out = R.out
       \/ \E a \in Answer : S.out = Append(R.out, a) /\ FlowOf(a, S)

\* session.c: the window is renewed when it is used up.
LEMMA RenewedIs ==
    ASSUME NEW R \in RxRecord, NEW fail
    PROVE  Renewed(R, renewed(R, fail))
<1> DEFINE C == [R EXCEPT !.incoming_window = INCOMING_WINDOW]
           a == session_flow_frame(C)
           D == [C EXCEPT !.out = Append(@, a)]
<1>1. /\ C \in RxRecord /\ C.next_incoming_id = R.next_incoming_id
      /\ C.incoming_window = INCOMING_WINDOW /\ C.out = R.out
      /\ C.received_payload = R.received_payload /\ C.held = R.held
    BY Numbers DEF RxRecord
<1>2. /\ R.incoming_window > 0 => renewed(R, fail) = R
      /\ ~(R.incoming_window > 0) => renewed(R, fail) \in {C, D}
    BY DEF renewed
<1> HIDE DEF C
<1>3. FlowOf(a, C)
    BY <1>1, Answers, Numbers
<1>4. a \in Answer
    BY <1>3 DEF FlowOf
<1> HIDE DEF a
<1>5. /\ D \in RxRecord /\ D.out = Append(C.out, a)
      /\ D.next_incoming_id = C.next_incoming_id
      /\ D.incoming_window = C.incoming_window
      /\ D.received_payload = C.received_payload /\ D.held = C.held
    BY <1>1, <1>4, AppendOut
<1>6. FlowOf(a, D)
    BY <1>3, <1>5 DEF FlowOf
<1> HIDE DEF D
<1>7. CASE renewed(R, fail) = D /\ ~(R.incoming_window > 0)
    BY <1>1, <1>4, <1>5, <1>6, <1>7 DEF Renewed
<1>8. CASE renewed(R, fail) = C /\ ~(R.incoming_window > 0)
    BY <1>1, <1>8 DEF Renewed
<1>9. CASE renewed(R, fail) = R /\ R.incoming_window > 0
    BY <1>9 DEF Renewed
<1> QED BY <1>2, <1>7, <1>8, <1>9

\* The greatest of numbers that have a bound.
LEMMA MaxOf ==
    ASSUME NEW S \in SUBSET Nat, S # {}, NEW b \in Nat, \A x \in S : x <= b
    PROVE  Max(S) \in S /\ \A x \in S : x <= Max(S)
<1> DEFINE T == {y \in Nat : \E x \in S : y = b - x}
<1>1. T \in SUBSET Nat /\ T # {}
    <2>1. PICK x \in S : TRUE
        OBVIOUS
    <2>2. x \in Nat /\ x <= b
        OBVIOUS
    <2>3. b - x \in Nat
        BY <2>2
    <2>4. b - x \in T
        BY <2>1, <2>3
    <2> QED BY <2>4
<1>2. PICK y \in T : \A z \in T : y <= z
    BY <1>1, LeastNat
<1>3. PICK x \in S : y = b - x
    BY <1>2
<1>4. ASSUME NEW z \in S PROVE x >= z
    <2>1. z \in Nat /\ x \in Nat /\ z <= b /\ x <= b
        BY <1>3
    <2>2. b - z \in T
        BY <2>1
    <2>3. b - x <= b - z
        BY <1>2, <1>3, <2>2
    <2> QED BY <2>1, <2>3
<1>5. \E m \in S : \A z \in S : m >= z
    BY <1>3, <1>4
<1>6. Max(S) \in S /\ \A z \in S : Max(S) >= z
    BY <1>5 DEF Max
<1>7. \A z \in S : z \in Nat /\ Max(S) \in Nat
    BY <1>6
<1> QED BY <1>6, <1>7

\* The ghost `granted' rises to what the FLOWs written allow.
LEMMA GrantedRises ==
    ASSUME NEW R \in RxRecord, granted \in Nat, NEW t \in Nat, taken' = t, rx_writes(R)
    PROVE  /\ granted' \in Nat /\ granted <= granted'
           /\ \A k \in 1 .. Len(R.out) : R.out[k].type # "DISPOSITION" =>
                 t + R.out[k].incoming_window <= granted'
<1> DEFINE A == {t + R.out[k].incoming_window :
                    k \in {j \in 1 .. Len(R.out) : R.out[j].type # "DISPOSITION"}}
           S == {granted} \cup A
<1>1. R.out \in Seq(Answer)
    BY DEF RxRecord
<1>2. DOMAIN R.out = 1 .. Len(R.out) /\ \A k \in 1 .. Len(R.out) : R.out[k] \in Answer
    BY <1>1
<1>3. \A a \in Answer : a.type # "DISPOSITION" => a.incoming_window \in Number
    BY DEF Answer
<1>4. granted' = Max(S)
    BY <1>2 DEF rx_writes, allowed
<1>5. MOD \in Nat
    BY Numbers
<1>6. ASSUME NEW x \in A PROVE x \in Nat /\ x <= t + MOD
    <2>1. PICK k \in 1 .. Len(R.out) : /\ R.out[k].type # "DISPOSITION"
                                      /\ x = t + R.out[k].incoming_window
        OBVIOUS
    <2>2. R.out[k].incoming_window \in Number
        BY <1>2, <1>3, <2>1
    <2>3. PICK w \in Nat : w = R.out[k].incoming_window /\ w < MOD
        BY <2>2, Numbers
    <2>4. x = t + w
        BY <2>1, <2>3
    <2> HIDE DEF A
    <2> QED BY <1>5, <2>3, <2>4
<1>7. ASSUME NEW k \in 1 .. Len(R.out), R.out[k].type # "DISPOSITION"
      PROVE  t + R.out[k].incoming_window \in A
    <2>1. k \in {j \in 1 .. Len(R.out) : R.out[j].type # "DISPOSITION"}
        BY <1>7
    <2> QED BY <2>1, Zenon
<1> HIDE DEF A
<1>8. S \in SUBSET Nat /\ S # {} /\ granted + t + MOD \in Nat
    BY <1>5, <1>6
<1>9. \A x \in S : x <= granted + t + MOD
    BY <1>5, <1>6
<1>10. Max(S) \in S /\ \A x \in S : x <= Max(S)
    BY <1>8, <1>9, MaxOf
<1> QED BY <1>4, <1>7, <1>8, <1>10

\* A TRANSFER, step by step.
LEMMA TransferSteps ==
    ASSUME TransferTypeInv, NEW settle, NEW fail, rx_transfer_received(settle, fail)
    PROVE  /\ forth # <<>> /\ Head(forth) \in Frame /\ Head(forth).type = "TRANSFER"
           /\ Head(forth).id \in Number /\ Head(forth).bytes \in Seq(Byte)
           /\ Head(forth).more \in BOOLEAN /\ Head(forth).message \in Message
           /\ \E R, C, S, D, E \in RxRecord :
                 /\ R.next_incoming_id = (rx.next_incoming_id + 1) % MOD
                 /\ R.incoming_window = rx.incoming_window - 1
                 /\ R.received_payload = rx.received_payload /\ R.held = rx.held
                 /\ R.out = <<>>
                 /\ Credited(R, C)
                 /\ Collected(C, Head(forth), fail, S)
                 /\ Head(forth).more => D = S
                 /\ ~Head(forth).more => Delivers(S, Head(forth), D)
                 /\ Renewed(D, E)
                 /\ delivered' = IF Head(forth).more THEN delivered
                                 ELSE Append(delivered,
                                             [message |-> Head(forth).message,
                                              payload |-> indicated(S, Head(forth))])
                 /\ rx_writes(E)
<1> DEFINE frame == Head(forth)
           i == (rx.next_incoming_id + 1) % MOD
           w == rx.incoming_window - 1
           R == [rx EXCEPT !.next_incoming_id = i, !.incoming_window = w]
           C == credited(R, fail)
           S == collected(C, frame, fail)
           D == IF frame.more THEN S ELSE delivers(S, frame, settle)
           E == renewed(D, fail)
<1>1. forth # <<>> /\ frame.type = "TRANSFER" /\ forth \in Seq(Frame)
    BY DEF rx_transfer_received, TransferTypeInv, TransferTypeOK
<1>2. frame \in Frame
    BY <1>1
<1>3. /\ rx_writes(E)
      /\ delivered' = IF frame.more THEN delivered
                      ELSE Append(delivered, [message |-> frame.message,
                                              payload |-> indicated(S, frame)])
    BY DEF rx_transfer_received
<1> HIDE DEF frame
<1>4. /\ frame.id \in Number /\ frame.bytes \in Seq(Byte) /\ frame.more \in BOOLEAN
      /\ frame.message \in Message
    BY <1>1, <1>2 DEF Frame
<1>5. rx \in RxIdle /\ rx.incoming_window \in Number /\ rx.next_incoming_id \in Number
      /\ rx.incoming_window > 0
    <2>1. rx \in RxIdle /\ rx.incoming_window > 0
        BY TypeParts DEF TransferTypeInv
    <2> QED BY <2>1 DEF RxIdle
<1>6. i \in Number
    <2>1. rx.next_incoming_id + 1 \in Int
        BY <1>5, Numbers
    <2> QED BY <2>1, Numbers
<1>7. w \in Number
    BY <1>5, Numbers DEF Number
<1> HIDE DEF i, w
<1>8. /\ R \in RxRecord /\ R.next_incoming_id = i /\ R.incoming_window = w
      /\ R.received_payload = rx.received_payload /\ R.held = rx.held /\ R.out = <<>>
    <2>1. rx \in RxRecord /\ rx.out = <<>>
        BY <1>5, IdleRx
    <2> QED BY <1>6, <1>7, <2>1 DEF RxRecord
<1> HIDE DEF R
<1>9. Credited(R, C) /\ C \in RxRecord
    <2>1. Credited(R, C)
        BY <1>8, CreditedIs
    <2> QED BY <2>1 DEF Credited
<1> HIDE DEF C
<1>10. Collected(C, frame, fail, S) /\ S \in RxRecord
    <2>1. Collected(C, frame, fail, S)
        BY <1>4, <1>9, CollectedIs
    <2> QED BY <2>1 DEF Collected
<1> HIDE DEF S
<1>11. (frame.more => D = S) /\ (~frame.more => Delivers(S, frame, D)) /\ D \in RxRecord
    <2>1. CASE frame.more
        BY <1>10, <2>1
    <2>2. CASE ~frame.more
        <3>1. Delivers(S, frame, D)
            BY <1>4, <1>10, <2>2, DeliversIs
        <3> QED BY <2>2, <3>1 DEF Delivers
    <2> QED BY <2>1, <2>2
<1> HIDE DEF D
<1>12. Renewed(D, E) /\ E \in RxRecord
    <2>1. Renewed(D, E)
        BY <1>11, RenewedIs
    <2> QED BY <2>1 DEF Renewed
<1> HIDE DEF E
<1> QED BY <1>1, <1>2, <1>3, <1>4, <1>8, <1>9, <1>10, <1>11, <1>12 DEF frame, i, w

\* Sessions and links that have just been set up have their types.
LEMMA TransferInitTypes ==
    ASSUME TransferInit
    PROVE  TransferTypeInv
<1>1. PICK first \in {0, MOD - 1} :
         /\ tx = [next_outgoing_id |-> first, remote_incoming_window |-> INCOMING_WINDOW,
                  current_link_credit |-> 0, delivery_count |-> first, deliveries |-> {},
                  sends |-> <<>>, out |-> <<>>, broken |-> {}]
         /\ rx = [next_incoming_id |-> first, incoming_window |-> INCOMING_WINDOW,
                  current_link_credit |-> MAX_LINK_CREDIT, delivery_count |-> first,
                  received_payload |-> <<>>, held |-> {}, out |-> <<>>]
    BY DEF TransferInit
<1>2. first \in Number
    BY Numbers DEF Number
<1>3. /\ forth = <<>> /\ back = <<link_flow_frame(rx)>> /\ delivered = <<>>
      /\ written = 0 /\ taken = 0 /\ granted = INCOMING_WINDOW /\ split = FALSE
      /\ faults = MaxFaults /\ flows = MaxFlows
    BY DEF TransferInit
<1>4. tx \in TxIdle /\ tx.sends = <<>>
    <2>1. <<>> \in Seq(Send)
        OBVIOUS
    <2> QED BY <1>1, <1>2, <2>1, Numbers DEF TxIdle
<1>5. rx \in RxIdle /\ rx.incoming_window = INCOMING_WINDOW
    <2>1. <<>> \in Seq(Byte)
        OBVIOUS
    <2> QED BY <1>1, <1>2, <2>1, Numbers DEF RxIdle
<1>6. back \in Seq(Answer)
    <2>1. link_flow_frame(rx) \in Answer
        BY <1>2, <1>5, IdleRx, Answers DEF FlowOf
    <2> QED BY <1>3, <2>1
<1>7. /\ forth \in Seq(Frame) /\ delivered \in Seq([message : Message, payload : Seq(Byte)])
      /\ written \in Nat /\ taken \in Nat /\ granted \in Nat /\ split \in BOOLEAN
      /\ faults \in 0 .. MaxFaults /\ flows \in 0 .. MaxFlows
    <2>1. \A S : <<>> \in Seq(S)
        OBVIOUS
    <2>2. /\ MaxFaults \in 0 .. MaxFaults /\ MaxFlows \in 0 .. MaxFlows
          /\ INCOMING_WINDOW \in Nat
        BY TransfersAssumption DEF TransfersAssumption
    <2> QED BY <1>3, <2>1, <2>2
<1>8. Len(tx.sends) <= MaxMessages
    BY <1>4, TransfersAssumption DEF TransfersAssumption
<1> QED BY <1>4, <1>5, <1>6, <1>7, <1>8, TypeParts, Numbers DEF TransferTypeInv

\* What an action of the sending side leaves alone.
LEMMA SenderTypes ==
    ASSUME TransferTypeInv, NEW E, Sending(E), tx_writes(E), faults' \in 0 .. MaxFaults,
           back' \in Seq(Answer), UNCHANGED <<rx, delivered, taken, granted, flows>>
    PROVE  TransferTypeInv'
<1>1. /\ rx \in RxIdle /\ rx.incoming_window > 0
      /\ delivered \in Seq([message : Message, payload : Seq(Byte)])
      /\ taken \in Nat /\ granted \in Nat /\ flows \in 0 .. MaxFlows
    BY TypeParts DEF TransferTypeInv
<1>2. /\ tx' \in TxIdle /\ Len(tx'.sends) <= MaxMessages
      /\ forth' \in Seq(Frame) /\ written' \in Nat /\ split' \in BOOLEAN
    BY WritesTypes
<1>3. TransferTypeOK'
    BY <1>1, <1>2 DEF TransferTypeOK, TxIdle, RxIdle
<1> QED BY <1>1, <1>2, <1>3 DEF TransferTypeInv

\* Failures are counted down.
LEMMA BreaksTypes ==
    ASSUME TransferTypeInv, NEW B, Breaks(B)
    PROVE  faults' \in 0 .. MaxFaults
<1>1. faults \in 0 .. MaxFaults /\ MaxFaults \in Nat
    BY TypeParts, TransfersAssumption DEF TransferTypeInv, TransfersAssumption
<1> QED BY <1>1 DEF Breaks

\* messagesender_send_async keeps the types.
LEMMA SendTypes ==
    ASSUME TransferTypeInv, NEW payload \in Payloads,
           NEW B \in Breakable(Len(tx.sends) + 1, payload),
           messagesender_send_async(payload, B)
    PROVE  TransferTypeInv'
<1> DEFINE L == [tx EXCEPT !.sends = Append(@, [payload |-> payload, state |-> "NOT_SENT"]),
                           !.broken = B]
           E == transfers(L, {Len(L.sends)})
<1>1. /\ Len(tx.sends) < MaxMessages /\ Breaks(B) /\ tx_writes(E)
      /\ UNCHANGED <<rx, back, delivered, taken, granted, flows>>
    BY DEF messagesender_send_async
<1>2. Sending(L) /\ Len(L.sends) \in DOMAIN L.sends
    BY <1>1, TakesMessage
<1> HIDE DEF L
<1>3. Sending(E)
    BY <1>2, PassSending
<1> HIDE DEF E
<1>4. faults' \in 0 .. MaxFaults
    BY <1>1, BreaksTypes
<1>5. back' \in Seq(Answer)
    BY <1>1 DEF TransferTypeInv, TransferTypeOK
<1> QED BY <1>1, <1>3, <1>4, <1>5, SenderTypes

\* What is left of a queue when its first element is taken.
LEMMA TailOf ==
    ASSUME NEW X, NEW s \in Seq(X), s # <<>>
    PROVE  /\ Tail(s) \in Seq(X) /\ Head(s) \in X /\ s[1] = Head(s) /\ Len(s) \in Nat \ {0}
           /\ Len(Tail(s)) = Len(s) - 1
           /\ \A i \in 1 .. Len(s) - 1 : Tail(s)[i] = s[i + 1]
OBVIOUS

\* What fails when a FLOW is handled fits the sender.
FlowBreaks(B) ==
    \/ B = {}
    \/ \E m \in waiting(tx) : B \in Breakable(m, tx.sends[m].payload)

\* A FLOW sets the window of the sending session to a 32-bit number.
LEMMA FlowBegins ==
    ASSUME TransferTypeInv, NEW B, FlowBreaks(B), back # <<>>,
           Head(back).type \in {"FLOW", "LINK_FLOW"}
    PROVE  LET K == [tx EXCEPT !.broken = B]
               w == (Head(back).next_incoming_id + Head(back).incoming_window
                       - tx.next_outgoing_id) % MOD
               L == session_flow(K, Head(back))
           IN  /\ Sending(K) /\ K.broken = B /\ K.sends = tx.sends /\ K.out = <<>>
               /\ K.next_outgoing_id = tx.next_outgoing_id
               /\ K.remote_incoming_window = tx.remote_incoming_window
               /\ K.current_link_credit = tx.current_link_credit
               /\ K.delivery_count = tx.delivery_count
               /\ K.deliveries = tx.deliveries
               /\ w \in Number /\ L = [K EXCEPT !.remote_incoming_window = w]
               /\ Sending(L)
<1> DEFINE K == [tx EXCEPT !.broken = B]
           flow == Head(back)
           w == (flow.next_incoming_id + flow.incoming_window - tx.next_outgoing_id) % MOD
<1>1. tx \in TxIdle /\ Len(tx.sends) <= MaxMessages /\ back \in Seq(Answer)
    BY TypeParts DEF TransferTypeInv
<1>2. /\ B \in SUBSET Break
      /\ \A b \in B : /\ b.message \in DOMAIN tx.sends
                      /\ b.cut < Len(split_of[tx.sends[b.message].payload])
    <2>1. CASE B = {}
        BY <2>1
    <2>2. ASSUME NEW m \in waiting(tx), B \in Breakable(m, tx.sends[m].payload)
          PROVE  /\ B \in SUBSET Break
                 /\ \A b \in B : /\ b.message \in DOMAIN tx.sends
                                 /\ b.cut < Len(split_of[tx.sends[b.message].payload])
        <3>1. m \in DOMAIN tx.sends
            BY <2>2 DEF waiting
        <3>2. tx.sends \in Seq(Send) /\ MaxMessages \in Nat
            BY <1>1, TransfersAssumption DEF TxIdle, TransfersAssumption
        <3>3. m \in Message
            BY <1>1, <3>1, <3>2 DEF Message
        <3>4. tx.sends[m] \in Send
            BY <3>1, <3>2
        <3>5. tx.sends[m].payload \in Payloads
            BY <3>4 DEF Send
        <3>6. /\ B \in SUBSET Break
              /\ \A b \in B : b.message = m /\ b.cut < Len(split_of[tx.sends[m].payload])
            BY <2>2, <3>3, <3>5, BreakableOnes
        <3> QED BY <3>1, <3>6
    <2> QED BY <2>1, <2>2 DEF FlowBreaks
<1>3. /\ Sending(K) /\ K.broken = B /\ K.sends = tx.sends /\ K.out = <<>>
      /\ K.next_outgoing_id = tx.next_outgoing_id
      /\ K.remote_incoming_window = tx.remote_incoming_window
      /\ K.current_link_credit = tx.current_link_credit
      /\ K.delivery_count = tx.delivery_count
      /\ K.deliveries = tx.deliveries
    BY <1>1, <1>2, BeginsSending
<1> HIDE DEF K, flow
<1>4. w \in Number
    <2>1. flow.next_incoming_id \in Number /\ flow.incoming_window \in Number
        BY <1>1, FlowAtHand DEF flow
    <2>2. tx.next_outgoing_id \in Number
        BY <1>1 DEF TxIdle
    <2>3. flow.next_incoming_id + flow.incoming_window - tx.next_outgoing_id \in Int
        BY <2>1, <2>2, Numbers
    <2> QED BY <2>3, Numbers
<1>5. session_flow(K, flow) = [K EXCEPT !.remote_incoming_window = w]
    BY <1>3 DEF session_flow
<1> HIDE DEF w
<1>6. Sending(session_flow(K, flow))
    <2>1. Sending([K EXCEPT !.remote_incoming_window = w])
        BY <1>3, <1>4, FlowSending
    <2> QED BY <1>5, <2>1
<1> QED BY <1>3, <1>4, <1>5, <1>6 DEF K, w, flow

\* A FLOW, with the passes that it starts, keeps the types.
LEMMA FlowTypes ==
    ASSUME TransferTypeInv, NEW B, FlowBreaks(B), flow_received(B)
    PROVE  TransferTypeInv'
<1> DEFINE Q == {L \in TxRecord : Sending(L)}
<1>1. /\ back # <<>> /\ Head(back).type \in {"FLOW", "LINK_FLOW"} /\ back' = Tail(back)
      /\ Breaks(B) /\ UNCHANGED <<rx, delivered, taken, granted, flows>>
    BY DEF flow_received
<1>2. session_flow([tx EXCEPT !.broken = B], Head(back)) \in Q
    <2>1. Sending(session_flow([tx EXCEPT !.broken = B], Head(back)))
        BY <1>1, FlowBegins
    <2> QED BY <2>1 DEF Sending
<1>3. \A L \in Q : \A w \in Number : [L EXCEPT !.current_link_credit = w] \in Q
    <2> SUFFICES ASSUME NEW L \in Q, NEW w \in Number
                 PROVE  [L EXCEPT !.current_link_credit = w] \in Q
        OBVIOUS
    <2>1. Sending([L EXCEPT !.current_link_credit = w])
        BY FlowSending
    <2> QED BY <2>1 DEF Sending
<1>4. \A L \in Q : transfers(L, waiting(L)) \in Q
    <2> SUFFICES ASSUME NEW L \in Q PROVE transfers(L, waiting(L)) \in Q
        OBVIOUS
    <2>1. Sending(transfers(L, waiting(L)))
        BY WaitingOnes, PassSending
    <2> QED BY <2>1 DEF Sending
<1>5. \A L \in Q : Sending(L)
    OBVIOUS
<1> HIDE DEF Q
<1>6. PICK E \in Q : tx_writes(E)
    BY <1>2, <1>3, <1>4, <1>5, FlowSteps
<1>7. faults' \in 0 .. MaxFaults
    BY <1>1, BreaksTypes
<1>8. back' \in Seq(Answer)
    <2>1. back \in Seq(Answer)
        BY DEF TransferTypeInv, TransferTypeOK
    <2> QED BY <1>1, <2>1, TailOf
<1> QED BY <1>1, <1>5, <1>6, <1>7, <1>8, SenderTypes

\* Deliveries that are settled are forgotten; nothing else changes but states.
LEMMA SettledTypes ==
    ASSUME TransferTypeInv, disposition_received
    PROVE  /\ TransferTypeInv'
           /\ \E D \in SUBSET tx.deliveries :
                 /\ D = {d \in tx.deliveries : settles(d, Head(back))}
                 /\ tx'.deliveries = tx.deliveries \ D
                 /\ Len(tx'.sends) = Len(tx.sends)
                 /\ \A m \in 1 .. Len(tx.sends) :
                       /\ tx'.sends[m].payload = tx.sends[m].payload
                       /\ (\E d \in D : d.message = m) => tx'.sends[m].state = "OK"
                       /\ ~(\E d \in D : d.message = m) => tx'.sends[m] = tx.sends[m]
           /\ tx'.next_outgoing_id = tx.next_outgoing_id
           /\ tx'.remote_incoming_window = tx.remote_incoming_window
           /\ tx'.current_link_credit = tx.current_link_credit
<1> DEFINE D == {d \in tx.deliveries : settles(d, Head(back))}
           u == tx.sends
           s == [m \in DOMAIN u |->
                    IF \E d \in D : d.message = m THEN [u[m] EXCEPT !.state = "OK"] ELSE u[m]]
           c == tx.deliveries \ D
<1>1. /\ tx' = [tx EXCEPT !.deliveries = c, !.sends = s]
      /\ back # <<>> /\ back' = Tail(back)
      /\ UNCHANGED <<rx, forth, delivered, written, taken, granted, split, faults, flows>>
    BY DEF disposition_received
<1>2. /\ tx \in TxIdle /\ rx \in RxIdle /\ Len(u) <= MaxMessages /\ rx.incoming_window > 0
      /\ forth \in Seq(Frame) /\ back \in Seq(Answer)
      /\ delivered \in Seq([message : Message, payload : Seq(Byte)])
      /\ written \in Nat /\ taken \in Nat /\ granted \in Nat /\ split \in BOOLEAN
      /\ faults \in 0 .. MaxFaults /\ flows \in 0 .. MaxFlows
    BY TypeParts DEF TransferTypeInv
<1>3. u \in Seq(Send) /\ tx.deliveries \in SUBSET Delivery
    BY <1>2 DEF TxIdle
<1>4. c \in SUBSET Delivery /\ D \in SUBSET tx.deliveries
    BY <1>3
<1> HIDE DEF D, u
<1>5. Len(u) \in Nat /\ DOMAIN u = 1 .. Len(u) /\ \A m \in 1 .. Len(u) : u[m] \in Send
    BY <1>3
<1>6. ASSUME NEW v \in Send
      PROVE  LET w == [v EXCEPT !.state = "OK"]
             IN  w \in Send /\ w.payload = v.payload /\ w.state = "OK"
    BY DEF Send
<1>7. ASSUME NEW m \in 1 .. Len(u)
      PROVE  /\ s[m] \in Send /\ s[m].payload = u[m].payload
             /\ (\E d \in D : d.message = m) => s[m].state = "OK"
             /\ ~(\E d \in D : d.message = m) => s[m] = u[m]
    <2> DEFINE v == u[m]
    <2>1. v \in Send /\ m \in DOMAIN u
        BY <1>5
    <2>2. CASE \E d \in D : d.message = m
        <3>1. s[m] = [v EXCEPT !.state = "OK"]
            BY <2>1, <2>2
        <3> HIDE DEF v
        <3>2. s[m] \in Send /\ s[m].payload = v.payload /\ s[m].state = "OK"
            BY <1>6, <2>1, <3>1
        <3> QED BY <2>2, <3>2 DEF v
    <2>3. CASE ~(\E d \in D : d.message = m)
        <3>1. s[m] = v
            BY <2>1, <2>3
        <3> QED BY <2>1, <2>3, <3>1
    <2> QED BY <2>2, <2>3
<1>8. s \in Seq(Send) /\ Len(s) = Len(u)
    <2>1. DOMAIN s = 1 .. Len(u) /\ s = [m \in 1 .. Len(u) |-> s[m]]
        BY <1>5
    <2>2. s \in [1 .. Len(u) -> Send]
        BY <1>7, <2>1
    <2> QED BY <1>5, <2>2
<1> HIDE DEF s, c
<1>9. /\ tx' \in TxIdle /\ tx'.sends = s /\ tx'.deliveries = c
      /\ tx'.next_outgoing_id = tx.next_outgoing_id
      /\ tx'.remote_incoming_window = tx.remote_incoming_window
      /\ tx'.current_link_credit = tx.current_link_credit
    BY <1>1, <1>2, <1>4, <1>8 DEF TxIdle
<1>10. back' \in Seq(Answer)
    BY <1>1, <1>2, TailOf
<1>11. TransferTypeOK'
    BY <1>1, <1>2, <1>9, <1>10 DEF TransferTypeOK, TxIdle, RxIdle
<1>12. TransferTypeInv'
    BY <1>1, <1>2, <1>8, <1>9, <1>11 DEF TransferTypeInv
<1>13. /\ tx'.deliveries = tx.deliveries \ D /\ Len(tx'.sends) = Len(u)
       /\ \A m \in 1 .. Len(u) :
             /\ tx'.sends[m].payload = u[m].payload
             /\ (\E d \in D : d.message = m) => tx'.sends[m].state = "OK"
             /\ ~(\E d \in D : d.message = m) => tx'.sends[m] = u[m]
    BY <1>7, <1>8, <1>9 DEF c
<1> QED BY <1>4, <1>9, <1>12, <1>13 DEF D, u

\* The receiving side at the end of the handling of a TRANSFER.
LEMMA ReceivedTypes ==
    ASSUME TransferTypeInv, NEW settle, NEW fail, rx_transfer_received(settle, fail)
    PROVE  TransferTypeInv'
<1>1. /\ tx \in TxIdle /\ rx \in RxIdle /\ Len(tx.sends) <= MaxMessages
      /\ rx.incoming_window > 0
      /\ forth \in Seq(Frame) /\ back \in Seq(Answer)
      /\ delivered \in Seq([message : Message, payload : Seq(Byte)])
      /\ written \in Nat /\ taken \in Nat /\ granted \in Nat /\ split \in BOOLEAN
      /\ faults \in 0 .. MaxFaults /\ flows \in 0 .. MaxFlows
    BY TypeParts DEF TransferTypeInv
<1>2. /\ forth # <<>> /\ forth' = Tail(forth) /\ taken' = taken + 1
      /\ fail # {} => faults > 0
      /\ faults' = IF fail = {} THEN faults ELSE faults - 1
      /\ UNCHANGED <<tx, written, split, flows>>
    BY DEF rx_transfer_received
<1> DEFINE frame == Head(forth)
<1>3. /\ frame.bytes \in Seq(Byte) /\ frame.more \in BOOLEAN /\ frame.message \in Message
      /\ \E R, C, S, D, E \in RxRecord :
            /\ R.incoming_window = rx.incoming_window - 1
            /\ Credited(R, C)
            /\ Collected(C, frame, fail, S)
            /\ frame.more => D = S
            /\ ~frame.more => Delivers(S, frame, D)
            /\ Renewed(D, E)
            /\ delivered' = IF frame.more THEN delivered
                            ELSE Append(delivered, [message |-> frame.message,
                                                    payload |-> indicated(S, frame)])
            /\ rx_writes(E)
    BY TransferSteps, ZenonT(60)
<1> HIDE DEF frame
<1>4. PICK R, C, S, D, E \in RxRecord :
            /\ R.incoming_window = rx.incoming_window - 1
            /\ Credited(R, C)
            /\ Collected(C, frame, fail, S)
            /\ frame.more => D = S
            /\ ~frame.more => Delivers(S, frame, D)
            /\ Renewed(D, E)
            /\ delivered' = IF frame.more THEN delivered
                            ELSE Append(delivered, [message |-> frame.message,
                                                    payload |-> indicated(S, frame)])
            /\ rx_writes(E)
    BY <1>3
<1>5. E.incoming_window > 0
    <2>1. E.incoming_window = IF D.incoming_window > 0 THEN D.incoming_window
                              ELSE INCOMING_WINDOW
        BY <1>4 DEF Renewed
    <2> QED BY <2>1, Numbers
<1>6. rx' \in RxIdle /\ rx'.incoming_window > 0
    <2>1. rx' = [E EXCEPT !.out = <<>>]
        BY <1>4 DEF rx_writes
    <2>2. rx' \in RxIdle
        BY <2>1, RestsRx
    <2>3. rx'.incoming_window = E.incoming_window
        BY <2>1 DEF RxRecord
    <2> QED BY <1>5, <2>2, <2>3
<1>7. back' \in Seq(Answer)
    <2>1. E.out \in Seq(Answer)
        BY DEF RxRecord
    <2>2. back' = back \o E.out
        BY <1>4 DEF rx_writes
    <2> QED BY <1>1, <2>1, <2>2
<1>8. delivered' \in Seq([message : Message, payload : Seq(Byte)])
    <2> DEFINE D1 == [message : Message, payload : Seq(Byte)]
               d == [message |-> frame.message, payload |-> indicated(S, frame)]
    <2>1. S.received_payload \in Seq(Byte)
        BY DEF RxRecord
    <2>2. indicated(S, frame) \in Seq(Byte)
        BY <1>3, <2>1 DEF indicated
    <2>3. d \in D1
        BY <1>3, <2>2
    <2>4. delivered \in Seq(D1)
        BY <1>1
    <2>5. delivered' = IF frame.more THEN delivered ELSE Append(delivered, d)
        BY <1>4
    <2> HIDE DEF d, D1
    <2>6. delivered' \in Seq(D1)
        BY <2>3, <2>4, <2>5
    <2> QED BY <2>6 DEF D1
<1>9. granted' \in Nat /\ taken' \in Nat
    <2> DEFINE t == taken + 1
    <2>1. t \in Nat /\ taken' = t
        BY <1>1, <1>2
    <2> HIDE DEF t
    <2>2. granted' \in Nat
        BY <1>1, <1>4, <2>1, GrantedRises
    <2> QED BY <2>1, <2>2
<1>10. forth' \in Seq(Frame)
    BY <1>1, <1>2, TailOf
<1>11. faults' \in 0 .. MaxFaults
    <2>1. MaxFaults \in Nat
        BY TransfersAssumption DEF TransfersAssumption
    <2> QED BY <1>1, <1>2, <2>1
<1>12. TransferTypeOK'
    BY <1>1, <1>2, <1>6, <1>7, <1>8, <1>9, <1>10, <1>11 DEF TransferTypeOK, TxIdle, RxIdle
<1> QED BY <1>1, <1>2, <1>6, <1>12 DEF TransferTypeInv

\* messagereceiver_send_message_disposition keeps the types.
LEMMA DisposesTypes ==
    ASSUME TransferTypeInv, NEW id \in rx.held, messagereceiver_send_message_disposition(id)
    PROVE  TransferTypeInv'
<1> DEFINE h == rx.held \ {id}
           a == [type |-> "DISPOSITION", first |-> id, last |-> id]
<1>1. /\ tx \in TxIdle /\ rx \in RxIdle /\ Len(tx.sends) <= MaxMessages
      /\ rx.incoming_window > 0
      /\ forth \in Seq(Frame) /\ back \in Seq(Answer)
      /\ delivered \in Seq([message : Message, payload : Seq(Byte)])
      /\ written \in Nat /\ taken \in Nat /\ granted \in Nat /\ split \in BOOLEAN
      /\ faults \in 0 .. MaxFaults /\ flows \in 0 .. MaxFlows
    BY TypeParts DEF TransferTypeInv
<1>2. /\ rx' = [rx EXCEPT !.held = h] /\ back' = Append(back, a)
      /\ UNCHANGED <<tx, forth, delivered, written, taken, granted, split, faults, flows>>
    BY DEF messagereceiver_send_message_disposition
<1>3. id \in Number /\ h \in SUBSET Number
    BY <1>1 DEF RxIdle
<1>4. a \in Answer
    BY <1>3 DEF Answer
<1> HIDE DEF h, a
<1>5. rx' \in RxIdle /\ rx'.incoming_window = rx.incoming_window
    BY <1>1, <1>2, <1>3 DEF RxIdle
<1>6. back' \in Seq(Answer)
    BY <1>1, <1>2, <1>4
<1>7. TransferTypeOK'
    BY <1>1, <1>2, <1>5, <1>6 DEF TransferTypeOK, TxIdle, RxIdle
<1> QED BY <1>1, <1>2, <1>5, <1>7 DEF TransferTypeInv

\* A FLOW of the sending session keeps them.
LEMMA FlowsTypes ==
    ASSUME TransferTypeInv, send_flow \/ rx_flow_received
    PROVE  TransferTypeInv'
<1>1. /\ tx \in TxIdle /\ rx \in RxIdle /\ Len(tx.sends) <= MaxMessages
      /\ rx.incoming_window > 0
      /\ forth \in Seq(Frame) /\ back \in Seq(Answer)
      /\ delivered \in Seq([message : Message, payload : Seq(Byte)])
      /\ written \in Nat /\ taken \in Nat /\ granted \in Nat /\ split \in BOOLEAN
      /\ faults \in 0 .. MaxFaults /\ flows \in 0 .. MaxFlows
    BY TypeParts DEF TransferTypeInv
<1>2. CASE send_flow
    <2> DEFINE f == [type |-> "FLOW", next_outgoing_id |-> tx.next_outgoing_id]
    <2>1. /\ flows > 0 /\ flows' = flows - 1 /\ forth' = Append(forth, f)
          /\ UNCHANGED <<tx, rx, back, delivered, written, taken, granted, split, faults>>
        BY <1>2 DEF send_flow
    <2>2. tx.next_outgoing_id \in Number
        BY <1>1 DEF TxIdle
    <2>3. f \in Frame
        BY <2>2 DEF Frame
    <2> HIDE DEF f
    <2>4. forth' \in Seq(Frame)
        BY <1>1, <2>1, <2>3
    <2>5. flows' \in 0 .. MaxFlows
        <3>1. MaxFlows \in Nat
            BY TransfersAssumption DEF TransfersAssumption
        <3> QED BY <1>1, <2>1, <3>1
    <2>6. TransferTypeOK'
        BY <1>1, <2>1, <2>4, <2>5 DEF TransferTypeOK, TxIdle, RxIdle
    <2> QED BY <1>1, <2>1, <2>6 DEF TransferTypeInv
<1>3. CASE rx_flow_received
    <2> DEFINE f == Head(forth)
    <2>1. /\ forth # <<>> /\ f.type = "FLOW" /\ forth' = Tail(forth)
          /\ rx' = [rx EXCEPT !.next_incoming_id = f.next_outgoing_id]
          /\ UNCHANGED <<tx, back, delivered, written, taken, granted, split, faults, flows>>
        BY <1>3 DEF rx_flow_received
    <2>2. f \in Frame /\ forth' \in Seq(Frame)
        BY <1>1, <2>1, TailOf
    <2> HIDE DEF f
    <2>3. f.next_outgoing_id \in Number
        BY <2>1, <2>2 DEF Frame
    <2>4. rx' \in RxIdle /\ rx'.incoming_window = rx.incoming_window
        BY <1>1, <2>1, <2>3 DEF RxIdle
    <2>5. TransferTypeOK'
        BY <1>1, <2>1, <2>2, <2>4 DEF TransferTypeOK, TxIdle, RxIdle
    <2> QED BY <1>1, <2>1, <2>4, <2>5 DEF TransferTypeInv
<1> QED BY <1>2, <1>3

\* The steps of the two sides, with what may fail in them.
LEMMA TransferCases ==
    ASSUME [TransferNext]_transfer_vars
    PROVE  \/ \E payload \in Payloads : \E B \in Breakable(Len(tx.sends) + 1, payload) :
                 messagesender_send_async(payload, B)
           \/ send_flow
           \/ disposition_received
           \/ \E B : FlowBreaks(B) /\ flow_received(B)
           \/ rx_flow_received
           \/ \E settle, fail : rx_transfer_received(settle, fail)
           \/ \E id \in rx.held : messagereceiver_send_message_disposition(id)
           \/ UNCHANGED transfer_vars
<1>1. CASE tx_receives
    <2>1. CASE \E m \in waiting(tx) : \E B \in Breakable(m, tx.sends[m].payload) \ {{}} :
                 flow_received(B)
        <3>1. PICK m \in waiting(tx) : \E B \in Breakable(m, tx.sends[m].payload) \ {{}} :
                 flow_received(B)
            BY <2>1
        <3>2. PICK B \in Breakable(m, tx.sends[m].payload) : flow_received(B)
            BY <3>1
        <3> QED BY <3>2 DEF FlowBreaks
    <2>2. CASE flow_received({})
        <3>1. FlowBreaks({})
            BY DEF FlowBreaks
        <3> QED BY <2>2, <3>1
    <2> QED BY <1>1, <2>1, <2>2 DEF tx_receives
<1>2. CASE rx_receives
    BY <1>2 DEF rx_receives
<1> QED BY <1>1, <1>2 DEF TransferNext

\* Every step keeps them.
LEMMA TransferStepTypes ==
    ASSUME TransferTypeInv, [TransferNext]_transfer_vars
    PROVE  TransferTypeInv'
<1>1. ASSUME NEW payload \in Payloads, NEW B \in Breakable(Len(tx.sends) + 1, payload),
             messagesender_send_async(payload, B)
      PROVE  TransferTypeInv'
    BY <1>1, SendTypes
<1>2. CASE send_flow
    BY <1>2, FlowsTypes
<1>3. CASE disposition_received
    BY <1>3, SettledTypes
<1>4. ASSUME NEW B, FlowBreaks(B), flow_received(B)
      PROVE  TransferTypeInv'
    BY <1>4, FlowTypes
<1>5. CASE rx_flow_received
    BY <1>5, FlowsTypes
<1>6. ASSUME NEW settle, NEW fail, rx_transfer_received(settle, fail)
      PROVE  TransferTypeInv'
    BY <1>6, ReceivedTypes
<1>7. ASSUME NEW id \in rx.held, messagereceiver_send_message_disposition(id)
      PROVE  TransferTypeInv'
    BY <1>7, DisposesTypes
<1>8. CASE UNCHANGED transfer_vars
    <2>1. TransferTypeOK'
        BY <1>8 DEF transfer_vars, TransferTypeInv, TransferTypeOK
    <2> QED BY <1>8, <2>1 DEF transfer_vars, TransferTypeInv
<1> QED BY <1>1, <1>2, <1>3, <1>4, <1>5, <1>6, <1>7, <1>8, TransferCases

\* The ids, counts, windows and credit of session.c and link.c stay in their
\* 32-bit range whatever is sent, received or fails, and the queues hold frames.
THEOREM TransferTypes == TransferSpec => []TransferTypeOK
<1>1. TransferInit => TransferTypeInv
    BY TransferInitTypes
<1>2. TransferTypeInv /\ [TransferNext]_transfer_vars => TransferTypeInv'
    BY TransferStepTypes
<1>3. TransferTypeInv => TransferTypeOK
    BY DEF TransferTypeInv
<1> QED BY <1>1, <1>2, <1>3, PTL DEF TransferSpec

-----------------------------------------------------------------------------
(* Counting modulo MOD *)

\* Quotient and remainder.
LEMMA Remainder ==
    ASSUME NEW M \in Nat, M > 0, NEW x \in Int
    PROVE  \E d \in Int, s \in 0 .. M - 1 : x = M * d + s /\ x % M = s
<1>1. x % M \in 0 .. M - 1 /\ x \div M \in Int /\ x = M * (x \div M) + (x % M)
    OBVIOUS
<1> QED BY <1>1

\* A remainder is the only one.
LEMMA RemainderIs ==
    ASSUME NEW M \in Nat, M > 0, NEW q \in Int, NEW r \in 0 .. M - 1
    PROVE  (M * q + r) % M = r
<1>1. M * q + r \in Int
    OBVIOUS
<1>2. PICK d \in Int, s \in 0 .. M - 1 : M * q + r = M * d + s /\ (M * q + r) % M = s
    BY <1>1, Remainder
<1>3. M * (q - d) = s - r
    BY <1>2
<1>4. q = d
    <2>1. CASE q - d >= 1
        <3>1. M * (q - d) >= M
            BY <2>1
        <3> QED BY <1>3, <3>1
    <2>2. CASE q - d <= -1
        <3>1. M * (q - d) <= -M
            BY <2>2
        <3> QED BY <1>3, <3>1
    <2> QED BY <2>1, <2>2
<1> QED BY <1>2, <1>4

\* Multiples of M do not change it.
LEMMA SameRemainder ==
    ASSUME NEW M \in Nat, M > 0, NEW x \in Int, NEW q \in Int
    PROVE  (x + M * q) % M = x % M
<1>1. PICK d \in Int, s \in 0 .. M - 1 : x = M * d + s /\ x % M = s
    BY Remainder
<1>2. x + M * q = M * (d + q) + s /\ d + q \in Int
    BY <1>1
<1>3. (M * (d + q) + s) % M = s
    BY <1>2, RemainderIs
<1> QED BY <1>1, <1>2, <1>3

\* Counting on from a number is counting on from what it stands for.
LEMMA CountsOn ==
    ASSUME NEW M \in Nat, M > 0, NEW x \in Int, NEW n \in Int
    PROVE  ((x % M) + n) % M = (x + n) % M
<1>1. PICK d \in Int, s \in 0 .. M - 1 : x = M * d + s /\ x % M = s
    BY Remainder
<1>2. (s + n) + M * d = x + n /\ s + n \in Int
    BY <1>1
<1>3. ((s + n) + M * d) % M = (s + n) % M
    BY <1>2, SameRemainder
<1> QED BY <1>1, <1>2, <1>3

\* A distance that is less than M is that of the remainders, modulo M.
Difference(M, x, n, y) == ((x % M) + n - (y % M)) % M

\* The remainder of a distance is the distance.
LEMMA Distance ==
    ASSUME NEW M \in Nat, M > 0, NEW x \in Int, NEW y \in Int, NEW n \in Int,
           x + n - y \in 0 .. M - 1
    PROVE  Difference(M, x, n, y) = x + n - y
<1> SUFFICES ((x % M) + n - (y % M)) % M = x + n - y
    BY DEF Difference
<1> DEFINE r == x + n - y
<1>1. PICK d \in Int, s \in 0 .. M - 1 : x = M * d + s /\ x % M = s
    BY Remainder
<1>2. PICK e \in Int, t \in 0 .. M - 1 : y = M * e + t /\ y % M = t
    BY Remainder
<1>3. r \in 0 .. M - 1
    OBVIOUS
<1>4. s + n - t = M * (e - d) + r /\ e - d \in Int
    BY <1>1, <1>2
<1> HIDE DEF r
<1>5. (M * (e - d) + r) % M = r
    BY <1>3, <1>4, RemainderIs
<1> QED BY <1>1, <1>2, <1>4, <1>5 DEF r

-----------------------------------------------------------------------------
(* Queues along which a cursor is kept *)

\* A cursor in C leads from a to b over the frames of s: every frame, with the
\* cursors ahead of it and behind it, is in R.
Path(C, R, s, a, b) ==
    \E c \in [1 .. Len(s) + 1 -> C] :
        /\ c[1] = a /\ c[Len(s) + 1] = b
        /\ \A k \in 1 .. Len(s) : <<s[k], c[k], c[k + 1]>> \in R

\* Over no frame, and
LEMMA PathEmpty ==
    ASSUME NEW C, NEW R, NEW a \in C
    PROVE  Path(C, R, <<>>, a, a)
<1> DEFINE c == [k \in 1 .. 1 |-> a]
<1>1. c \in [1 .. 1 -> C] /\ c[1] = a
    OBVIOUS
<1>2. Len(<<>>) = 0
    OBVIOUS
<1> HIDE DEF c
<1> QED BY <1>1, <1>2 DEF Path

\* over one.
LEMMA PathOne ==
    ASSUME NEW C, NEW R, NEW x, NEW a \in C, NEW b \in C, <<x, a, b>> \in R
    PROVE  Path(C, R, <<x>>, a, b)
<1> DEFINE c == [k \in 1 .. 2 |-> IF k = 1 THEN a ELSE b]
           s == <<x>>
<1>1. c \in [1 .. 2 -> C] /\ c[1] = a /\ c[2] = b
    OBVIOUS
<1>2. Len(s) = 1 /\ s[1] = x
    OBVIOUS
<1> HIDE DEF c, s
<1>3. \A k \in 1 .. Len(s) : <<s[k], c[k], c[k + 1]>> \in R
    BY <1>1, <1>2
<1>4. Path(C, R, s, a, b)
    BY <1>1, <1>2, <1>3 DEF Path
<1> QED BY <1>4 DEF s

\* Both ends are cursors.
LEMMA PathEnds ==
    ASSUME NEW C, NEW R, NEW X, NEW s \in Seq(X), NEW a, NEW b, Path(C, R, s, a, b)
    PROVE  a \in C /\ b \in C
<1>1. PICK c \in [1 .. Len(s) + 1 -> C] : c[1] = a /\ c[Len(s) + 1] = b
    BY DEF Path
<1>2. Len(s) \in Nat
    OBVIOUS
<1> QED BY <1>1, <1>2

\* Over two queues, one behind the other.
LEMMA PathJoin ==
    ASSUME NEW C, NEW R, NEW X, NEW s \in Seq(X), NEW t \in Seq(X), NEW a, NEW b, NEW d,
           Path(C, R, s, a, b), Path(C, R, t, b, d)
    PROVE  Path(C, R, s \o t, a, d)
<1> DEFINE n == Len(s)
           m == Len(t)
           u == s \o t
<1>1. /\ n \in Nat /\ m \in Nat /\ Len(u) = n + m
      /\ \A k \in 1 .. n : u[k] = s[k]
      /\ \A k \in 1 .. m : u[n + k] = t[k]
    <2>1. n \in Nat /\ m \in Nat /\ Len(u) = n + m
        OBVIOUS
    <2>2. \A k \in 1 .. n : u[k] = s[k]
        OBVIOUS
    <2>3. ASSUME NEW k \in 1 .. m PROVE u[n + k] = t[k]
        <3>1. n + k \in 1 .. n + m /\ n + k > n /\ (n + k) - n = k
            BY <2>1
        <3> QED BY <2>1, <3>1, ConcatProperties
    <2> QED BY <2>1, <2>2, <2>3
<1>2. PICK c \in [1 .. n + 1 -> C] :
         /\ c[1] = a /\ c[n + 1] = b
         /\ \A k \in 1 .. n : <<s[k], c[k], c[k + 1]>> \in R
    BY DEF Path
<1>3. PICK e \in [1 .. m + 1 -> C] :
         /\ e[1] = b /\ e[m + 1] = d
         /\ \A k \in 1 .. m : <<t[k], e[k], e[k + 1]>> \in R
    BY DEF Path
<1> HIDE DEF n, m, u
<1> DEFINE f == [k \in 1 .. n + m + 1 |-> IF k <= n THEN c[k] ELSE e[k - n]]
<1>4. f \in [1 .. n + m + 1 -> C]
    BY <1>1, <1>2, <1>3
<1>5. \A k \in 1 .. n + 1 : f[k] = c[k]
    BY <1>1, <1>2, <1>3
<1>6. \A k \in 1 .. m + 1 : f[n + k] = e[k]
    BY <1>1, <1>2, <1>3
<1> HIDE DEF f
<1>7. f[1] = a /\ f[n + m + 1] = d
    BY <1>1, <1>2, <1>3, <1>5, <1>6
<1>8. ASSUME NEW k \in 1 .. n + m
      PROVE  <<u[k], f[k], f[k + 1]>> \in R
    <2>1. CASE k <= n
        <3>1. k \in 1 .. n /\ k \in 1 .. n + 1 /\ k + 1 \in 1 .. n + 1
            BY <1>1, <2>1
        <3>2. f[k] = c[k] /\ f[k + 1] = c[k + 1] /\ u[k] = s[k]
            BY <1>1, <1>5, <3>1
        <3> QED BY <1>2, <3>1, <3>2
    <2>2. CASE k > n
        <3>1. PICK j \in 1 .. m : k = n + j
            <4>1. k - n \in 1 .. m /\ k = n + (k - n)
                BY <1>1, <2>2
            <4> QED BY <4>1
        <3>2. f[k] = e[j] /\ f[k + 1] = e[j + 1] /\ u[k] = t[j]
            BY <1>1, <1>6, <3>1
        <3> QED BY <1>3, <3>2
    <2> QED BY <1>1, <2>1, <2>2
<1>9. Path(C, R, u, a, d)
    BY <1>1, <1>4, <1>7, <1>8 DEF Path
<1> QED BY <1>9 DEF u

\* Over the first frame and on.
LEMMA PathTail ==
    ASSUME NEW C, NEW R, NEW X, NEW s \in Seq(X), s # <<>>, NEW a, NEW b, Path(C, R, s, a, b)
    PROVE  \E m \in C : <<Head(s), a, m>> \in R /\ Path(C, R, Tail(s), m, b)
<1> DEFINE n == Len(s)
           t == Tail(s)
<1>1. /\ n \in Nat \ {0} /\ s[1] = Head(s) /\ Len(t) = n - 1
      /\ \A i \in 1 .. n - 1 : t[i] = s[i + 1]
    BY TailOf
<1>2. PICK c \in [1 .. n + 1 -> C] :
         /\ c[1] = a /\ c[n + 1] = b
         /\ \A k \in 1 .. n : <<s[k], c[k], c[k + 1]>> \in R
    BY DEF Path
<1> DEFINE m == c[2]
           f == [k \in 1 .. n |-> c[k + 1]]
<1> HIDE DEF n, t
<1>3. m \in C /\ <<Head(s), a, m>> \in R
    BY <1>1, <1>2
<1>4. f \in [1 .. n -> C] /\ f[1] = m /\ f[n] = b
    BY <1>1, <1>2
<1>5. ASSUME NEW k \in 1 .. n - 1
      PROVE  <<t[k], f[k], f[k + 1]>> \in R
    <2>1. k + 1 \in 1 .. n /\ k \in 1 .. n
        BY <1>1
    <2>2. <<s[k + 1], c[k + 1], c[(k + 1) + 1]>> \in R
        BY <1>2, <2>1
    <2>3. f[k] = c[k + 1] /\ f[k + 1] = c[(k + 1) + 1] /\ t[k] = s[k + 1]
        BY <1>1, <2>1
    <2> QED BY <2>2, <2>3
<1> HIDE DEF m, f
<1>6. Path(C, R, t, m, b)
    <2>1. Len(t) + 1 = n
        BY <1>1
    <2> QED BY <1>1, <1>4, <1>5, <2>1 DEF Path
<1> QED BY <1>3, <1>6 DEF t

\* What leads over a queue does so in every relation that has its frames.
LEMMA PathIn ==
    ASSUME NEW C, NEW R, NEW Q, NEW X, NEW s \in Seq(X), NEW a, NEW b, Path(C, R, s, a, b),
           \A k \in 1 .. Len(s) : \A x, y \in C : <<s[k], x, y>> \in R => <<s[k], x, y>> \in Q
    PROVE  Path(C, Q, s, a, b)
<1>1. PICK c \in [1 .. Len(s) + 1 -> C] :
         /\ c[1] = a /\ c[Len(s) + 1] = b
         /\ \A k \in 1 .. Len(s) : <<s[k], c[k], c[k + 1]>> \in R
    BY DEF Path
<1>2. ASSUME NEW k \in 1 .. Len(s) PROVE <<s[k], c[k], c[k + 1]>> \in Q
    <2>1. k \in 1 .. Len(s) + 1 /\ k + 1 \in 1 .. Len(s) + 1
        OBVIOUS
    <2>2. c[k] \in C /\ c[k + 1] \in C
        BY <2>1
    <2> QED BY <1>1, <2>2
<1> QED BY <1>1, <1>2 DEF Path

\* Queues one behind the other, with a cursor ahead of each.
LEMMA PathFlatten ==
    ASSUME NEW C, NEW R, NEW X, NEW s \in Seq(Seq(X)), NEW e \in [1 .. Len(s) + 1 -> C],
           \A k \in 1 .. Len(s) : Path(C, R, s[k], e[k], e[k + 1])
    PROVE  Path(C, R, FlattenSeq(s), e[1], e[Len(s) + 1])
<1> DEFINE N == Len(s)
           S == {n \in Nat : n <= N => Path(C, R, Joined(s, n), e[1], e[n + 1])}
<1>1. N \in Nat
    OBVIOUS
<1>2. 0 \in S
    <2>1. e[1] \in C
        BY <1>1
    <2>2. Path(C, R, <<>>, e[1], e[1])
        BY <2>1, PathEmpty
    <2>3. Joined(s, 0) = <<>>
        BY JoinedStep
    <2> QED BY <2>2, <2>3
<1>3. ASSUME NEW n \in Nat, n \in S PROVE n + 1 \in S
    <2>1. CASE n + 1 <= N
        <3>1. n \in 0 .. N - 1 /\ n \in 0 .. N /\ n <= N /\ n + 1 \in 1 .. N
            BY <1>1, <2>1
        <3>2. /\ Joined(s, n + 1) = Joined(s, n) \o s[n + 1]
              /\ Joined(s, n) \in Seq(X) /\ s[n + 1] \in Seq(X)
            BY <3>1, JoinedStep
        <3>3. Path(C, R, Joined(s, n), e[1], e[n + 1])
            BY <1>3, <3>1
        <3>4. Path(C, R, s[n + 1], e[n + 1], e[(n + 1) + 1])
            BY <3>1
        <3>5. Path(C, R, Joined(s, n + 1), e[1], e[(n + 1) + 1])
            BY <3>2, <3>3, <3>4, PathJoin
        <3> QED BY <3>5
    <2> QED BY <2>1
<1> HIDE DEF S
<1>4. Nat \subseteq S
    BY <1>2, <1>3, Inductive
<1>5. Path(C, R, Joined(s, N), e[1], e[N + 1])
    BY <1>1, <1>4 DEF S
<1>6. FlattenSeq(s) = Joined(s, N)
    BY JoinedStep
<1> QED BY <1>5, <1>6

-----------------------------------------------------------------------------
(* The order of what has been sent *)

\* The id of the i-th message sent.
IdAt(first, i) == (first + i - 1) % MOD

\* Messages sent, whole, and pieces of the next one.
Cursor == Nat \X Nat

Piecewise(q, s, f, a) ==
    /\ a[1] < Len(q)
    /\ f.message = q[a[1] + 1]
    /\ a[2] + 1 <= Len(split_of[s[f.message].payload])
    /\ f.bytes = named(f.message, split_of[s[f.message].payload][a[2] + 1].bytes)
    /\ f.more <=> a[2] + 1 < Len(split_of[s[f.message].payload])

\* From a to b over the frame f, when the messages q of s have been sent.
Goes(first, q, s, d, f, a, b) ==
    \/ /\ f.type = "FLOW" /\ f.next_outgoing_id = (first + a[1]) % MOD
       /\ b = a
    \/ /\ f.type = "TRANSFER" /\ f.more
       /\ b[1] = a[1]
       /\ ~d => Piecewise(q, s, f, a) /\ b[2] = a[2] + 1
    \/ /\ f.type = "TRANSFER" /\ ~f.more
       /\ b[1] = a[1] + 1
       /\ a[1] < Len(q) /\ f.message = q[a[1] + 1] /\ f.id = IdAt(first, a[1] + 1)
       /\ ~d => Piecewise(q, s, f, a) /\ b[2] = 0

Onward(first, q, s, d) ==
    {t \in Frame \X Cursor \X Cursor : Goes(first, q, s, d, t[1], t[2], t[3])}

\* What Onward says of a frame.
LEMMA OnwardIs ==
    ASSUME NEW first, NEW q, NEW s, NEW d, NEW f \in Frame, NEW a \in Cursor, NEW b \in Cursor
    PROVE  <<f, a, b>> \in Onward(first, q, s, d) <=> Goes(first, q, s, d, f, a, b)
BY DEF Onward

\* What has been sent stays what it was when more is.
LEMMA OnwardGrows ==
    ASSUME NEW first, NEW q \in Seq(Message), NEW x \in Seq(Message), NEW s, NEW t, NEW d, NEW e,
           d => e,
           \A i \in 1 .. Len(q) : t[q[i]].payload = s[q[i]].payload,
           NEW F \in Seq(Frame), NEW a, NEW b,
           Path(Cursor, Onward(first, q, s, d), F, a, b)
    PROVE  Path(Cursor, Onward(first, q \o x, t, e), F, a, b)
<1> DEFINE Q == Onward(first, q, s, d)
           R == Onward(first, q \o x, t, e)
           y == q \o x
<1>1. Len(q) \in Nat /\ Len(x) \in Nat /\ Len(y) = Len(q) + Len(x)
    OBVIOUS
<1>2. \A i \in 1 .. Len(q) : y[i] = q[i]
    OBVIOUS
<1> HIDE DEF y
<1>3. ASSUME NEW f \in Frame, NEW v \in Cursor, NEW w \in Cursor, Goes(first, q, s, d, f, v, w)
      PROVE  Goes(first, y, t, e, f, v, w)
    <2>1. v[1] \in Nat /\ v[2] \in Nat
        BY DEF Cursor
    <2>2. v[1] < Len(q) => v[1] + 1 \in 1 .. Len(q) /\ v[1] < Len(y)
        BY <1>1, <2>1
    <2>3. v[1] < Len(q) => y[v[1] + 1] = q[v[1] + 1]
        BY <1>2, <2>2
    <2>4. Piecewise(q, s, f, v) => Piecewise(y, t, f, v)
        <3> SUFFICES ASSUME Piecewise(q, s, f, v) PROVE Piecewise(y, t, f, v)
            OBVIOUS
        <3>1. v[1] + 1 \in 1 .. Len(q) /\ f.message = q[v[1] + 1]
            BY <2>2 DEF Piecewise
        <3>2. t[f.message].payload = s[f.message].payload
            BY <3>1
        <3> QED BY <2>2, <2>3, <3>2 DEF Piecewise
    <2>5. CASE f.type = "FLOW" /\ f.next_outgoing_id = (first + v[1]) % MOD /\ w = v
        BY <2>5 DEF Goes
    <2>6. CASE /\ f.type = "TRANSFER" /\ f.more /\ w[1] = v[1]
               /\ ~d => Piecewise(q, s, f, v) /\ w[2] = v[2] + 1
        BY <2>4, <2>6 DEF Goes
    <2>7. CASE /\ f.type = "TRANSFER" /\ ~f.more /\ w[1] = v[1] + 1
               /\ v[1] < Len(q) /\ f.message = q[v[1] + 1] /\ f.id = IdAt(first, v[1] + 1)
               /\ ~d => Piecewise(q, s, f, v) /\ w[2] = 0
        BY <2>2, <2>3, <2>4, <2>7 DEF Goes
    <2> QED BY <1>3, <2>5, <2>6, <2>7 DEF Goes
<1>4. ASSUME NEW k \in 1 .. Len(F), NEW v \in Cursor, NEW w \in Cursor, <<F[k], v, w>> \in Q
      PROVE  <<F[k], v, w>> \in R
    <2>1. F[k] \in Frame
        OBVIOUS
    <2>2. Goes(first, q, s, d, F[k], v, w)
        BY <1>4, <2>1, OnwardIs
    <2>3. Goes(first, y, t, e, F[k], v, w)
        BY <1>3, <2>1, <2>2
    <2> QED BY <2>1, <2>3, OnwardIs DEF y
<1> HIDE DEF Q, R
<1>5. Path(Cursor, Q, F, a, b)
    BY DEF Q
<1>6. Path(Cursor, R, F, a, b)
    BY <1>4, <1>5, PathIn
<1> QED BY <1>6 DEF R

\* A pass sends the messages in their order,
LEMMA GoingSorted ==
    ASSUME NEW L, Sending(L), NEW S \in SUBSET DOMAIN L.sends
    PROVE  \A i, j \in 1 .. Len(in_order(going(L, S))) :
              i < j => in_order(going(L, S))[i] < in_order(going(L, S))[j]
<1> DEFINE G == going(L, S)
           x == in_order(G)
<1>1. /\ S \in SUBSET Nat /\ G \in SUBSET S /\ IsFiniteSet(G) /\ Len(x) \in Nat
      /\ \A k \in 1 .. Len(x) : x[k] \in G /\ before(x[k], G) = k - 1
    BY GoingOnes
<1> HIDE DEF G, x
<1>2. ASSUME NEW i \in 1 .. Len(x), NEW j \in 1 .. Len(x), i < j
      PROVE  x[i] < x[j]
    <2>1. x[i] \in Nat /\ x[j] \in Nat /\ x[i] \in G /\ x[j] \in G
        BY <1>1
    <2>2. before(x[i], G) < before(x[j], G)
        BY <1>1, <1>2
    <2>3. x[j] < x[i] => before(x[j], G) < before(x[i], G)
        BY <1>1, <2>1, BeforeRises
    <2>4. before(x[i], G) = i - 1 /\ before(x[j], G) = j - 1
        BY <1>1
    <2>5. ~(x[j] < x[i]) /\ x[i] # x[j]
        BY <1>1, <1>2, <2>3, <2>4
    <2> QED BY <2>1, <2>5
<1> QED BY <1>2 DEF G, x

\* and if none fails, those that it leaves are behind them and found no room.
LEMMA Exhausts ==
    ASSUME NEW L, Sending(L), L.broken = {}, NEW S \in SUBSET DOMAIN L.sends,
           NEW m \in S \ going(L, S)
    PROVE  /\ Len(in_order(going(L, S))) = room(L)
           /\ \A n \in going(L, S) : n < m
<1> DEFINE G == going(L, S)
           r == room(L)
<1>1. /\ S \in SUBSET Nat /\ IsFiniteSet(S) /\ G \in SUBSET S /\ IsFiniteSet(G)
      /\ Len(in_order(G)) = Cardinality(G) /\ Len(in_order(G)) <= r
      /\ Len(in_order(G)) \in Nat
    BY GoingOnes
<1>2. r \in Nat
    BY RoomOf DEF Sending
<1>3. G = {n \in S : before(n, S) < r}
    BY DEF going, tried, failing
<1> HIDE DEF G, r
<1>4. m \in S /\ m \in Nat /\ ~(before(m, S) < r) /\ before(m, S) \in Nat
    <2>1. m \in S /\ m \in Nat /\ ~(before(m, S) < r)
        BY <1>1, <1>3 DEF G
    <2> QED BY <1>1, <2>1, BeforeFinite
<1>5. ASSUME NEW n \in G PROVE n < m
    <2>1. n \in Nat /\ n \in S /\ before(n, S) < r /\ n # m
        BY <1>1, <1>3, <1>4
    <2>2. m < n => before(m, S) < before(n, S)
        BY <1>1, <1>4, <2>1, BeforeRises
    <2>3. before(n, S) \in Nat
        BY <1>1, <2>1, BeforeFinite
    <2> QED BY <1>2, <1>4, <2>1, <2>2, <2>3
<1>6. ASSUME NEW i \in 1 .. r PROVE in_order(S)[i] \in G /\ before(in_order(S)[i], S) = i - 1
    <2>1. before(m, S) < Cardinality(S) /\ Cardinality(S) \in Nat
        BY <1>1, <1>4, BeforeLess, FS_CardinalityType
    <2>2. i \in 1 .. Cardinality(S)
        BY <1>2, <1>4, <2>1
    <2> DEFINE q == in_order(S)
    <2>3. /\ q \in Seq(S) /\ Len(q) = Cardinality(S)
          /\ \A k \in 1 .. Cardinality(S) : before(q[k], S) = k - 1
        BY <1>1, InOrder
    <2> HIDE DEF q
    <2>4. q[i] \in S /\ before(q[i], S) = i - 1
        BY <2>2, <2>3
    <2>5. i - 1 < r
        BY <1>2
    <2> QED BY <1>3, <2>4, <2>5 DEF q
<1>7. r <= Cardinality(G)
    <2> DEFINE f == [i \in 1 .. r |-> in_order(S)[i]]
    <2>1. f \in [1 .. r -> G]
        BY <1>6
    <2>2. ASSUME NEW i \in 1 .. r, NEW j \in 1 .. r, f[i] = f[j] PROVE i = j
        <3>1. i - 1 = j - 1
            BY <1>6, <2>2
        <3> QED BY <1>2, <3>1
    <2>3. f \in Injection(1 .. r, G)
        BY <2>1, <2>2 DEF Injection, IsInjective
    <2>4. Cardinality(1 .. r) <= Cardinality(G)
        BY <1>1, <2>3, FS_Injection
    <2>5. Cardinality(1 .. r) = r
        BY <1>2, FS_Interval
    <2> QED BY <2>4, <2>5
<1>8. Len(in_order(G)) = r
    BY <1>1, <1>2, <1>7
<1> QED BY <1>5, <1>8 DEF G, r

\* The sender, when q are the messages that it has sent so far, d says whether
\* something may have failed, and `first' is the id that it began with.
Sender(first, q, d, L) ==
    /\ Sending(L)
    /\ q \in Seq(Message)
    /\ \A i \in 1 .. Len(q) : q[i] \in DOMAIN L.sends
    /\ \A i, j \in 1 .. Len(q) : q[i] = q[j] => i = j
    /\ L.next_outgoing_id = (first + Len(q)) % MOD
    /\ \A m \in DOMAIN L.sends :
          L.sends[m].state \in {"PENDING", "OK"} <=> \E i \in 1 .. Len(q) : q[i] = m
    /\ \A v \in L.deliveries : \E i \in 1 .. Len(q) : v.id = IdAt(first, i) /\ v.message = q[i]
    /\ ~d => /\ L.broken = {}
             /\ \A i, j \in 1 .. Len(q) : i < j => q[i] < q[j]
             /\ \A m \in waiting(L) : \A i \in 1 .. Len(q) : q[i] < m

\* The ids of a pass go on from those before it.
LEMMA IdsAgree ==
    ASSUME NEW first \in Nat, NEW q \in Seq(Message), NEW L, NEW k \in Nat,
           L.next_outgoing_id = (first + Len(q)) % MOD
    PROVE  /\ IdOf(L, k) = IdAt(first, Len(q) + k)
           /\ (L.next_outgoing_id + k) % MOD = (first + Len(q) + k) % MOD
<1> DEFINE x == first + Len(q)
           y == x % MOD
<1>1. x \in Int /\ k \in Int /\ k - 1 \in Int /\ MOD \in Nat /\ MOD > 0
    BY Numbers
<1>2. x + k = first + Len(q) + k /\ x + (k - 1) = first + (Len(q) + k) - 1
    OBVIOUS
<1> HIDE DEF x
<1>3. (y + (k - 1)) % MOD = (x + (k - 1)) % MOD /\ (y + k) % MOD = (x + k) % MOD
    BY <1>1, CountsOn
<1>4. y \in Int
    BY <1>1
<1>5. L.next_outgoing_id = y
    BY DEF x
<1> HIDE DEF y
<1>6. IdOf(L, k) = (y + (k - 1)) % MOD
    BY <1>1, <1>4, <1>5 DEF IdOf
<1>7. IdAt(first, Len(q) + k) = (x + (k - 1)) % MOD
    BY <1>2 DEF IdAt
<1> QED BY <1>2, <1>3, <1>5, <1>6, <1>7

\* Messages of which the ids are equal are the same.
LEMMA IdsDiffer ==
    ASSUME NEW first \in Nat, NEW n \in Nat, n < MOD, NEW i \in 1 .. n, NEW j \in 1 .. n,
           IdAt(first, i) = IdAt(first, j)
    PROVE  i = j
<1>1. MOD \in Nat /\ MOD > 0
    BY Numbers
<1>2. ASSUME NEW k \in 1 .. n, NEW l \in 1 .. n, IdAt(first, k) = IdAt(first, l), l <= k
      PROVE  k = l
    <2> DEFINE x == first + k - 1
               y == first + l - 1
    <2>1. x \in Int /\ y \in Int /\ x + 0 - y \in 0 .. MOD - 1 /\ x + 0 - y = k - l
        BY <1>1, <1>2
    <2>2. x % MOD = y % MOD
        BY <1>2 DEF IdAt
    <2> HIDE DEF x, y
    <2>3. ((x % MOD) + 0 - (y % MOD)) % MOD = x + 0 - y
        BY <1>1, <2>1, Distance DEF Difference
    <2>4. y % MOD \in Int
        BY <1>1, <2>1
    <2>5. (x % MOD) + 0 - (y % MOD) = 0
        BY <2>2, <2>4
    <2>6. 0 % MOD = 0
        BY <1>1
    <2>7. k - l = 0
        BY <2>1, <2>3, <2>5, <2>6
    <2> QED BY <2>7
<1>3. i <= j \/ j <= i
    OBVIOUS
<1> QED BY <1>2, <1>3

\* No more messages are sent than there are.
LEMMA SentBound ==
    ASSUME NEW first, NEW q, NEW d, NEW L, Sender(first, q, d, L)
    PROVE  Len(q) \in Nat /\ Len(q) <= MaxMessages /\ Len(q) < MOD
<1>1. q \in Seq(Message) /\ \A i, j \in 1 .. Len(q) : q[i] = q[j] => i = j
    BY DEF Sender
<1>2. Len(q) \in Nat /\ MaxMessages \in Nat /\ MOD > MaxMessages /\ MOD \in Nat
    BY <1>1, TransfersAssumption DEF TransfersAssumption
<1> DEFINE n == Len(q)
           f == [i \in 1 .. n |-> q[i]]
<1>3. f \in Injection(1 .. n, Message)
    BY <1>1 DEF Injection, IsInjective
<1> HIDE DEF f, n
<1>4. n \in Nat
    BY <1>2 DEF n
<1>5. IsFiniteSet(Message) /\ Cardinality(Message) = MaxMessages
    BY <1>2, FS_Interval, SMTT(60) DEF Message
<1>6. Cardinality(1 .. n) = n
    BY <1>4, FS_Interval
<1>7. Cardinality(1 .. n) <= Cardinality(Message)
    BY <1>3, <1>5, FS_Injection
<1> QED BY <1>2, <1>5, <1>6, <1>7 DEF n

\* Over the frames of a message.
LEMMA FramesPath ==
    ASSUME NEW L, Sending(L), NEW first \in Nat, NEW q \in Seq(Message), NEW d, NEW i \in Nat,
           i < Len(q), q[i + 1] \in DOMAIN L.sends
    PROVE  Path(Cursor, Onward(first, q, L.sends, d),
                frames(L, q[i + 1], IdAt(first, i + 1)), <<i, 0>>, <<i + 1, 0>>)
<1> DEFINE m == q[i + 1]
           id == IdAt(first, i + 1)
           F == frames(L, m, id)
           pieces == split_of[L.sends[m].payload]
           n == Len(pieces)
           R == Onward(first, q, L.sends, d)
           c == [k \in 1 .. n + 1 |-> IF k <= n THEN <<i, k - 1>> ELSE <<i + 1, 0>>]
<1>1. id \in Number
    <2>1. (first + (i + 1) - 1) \in Int
        OBVIOUS
    <2> QED BY <2>1, Numbers DEF IdAt
<1> HIDE DEF id, m
<1>2. m \in DOMAIN L.sends
    BY DEF m
<1>3. /\ m \in Message /\ L.sends[m].payload \in Payloads
      /\ F \in Seq(Frame) /\ Len(F) = n
      /\ \A k \in 1 .. n :
            F[k] = [type |-> "TRANSFER", id |-> id, more |-> pieces[k].more,
                    bytes |-> named(m, pieces[k].bytes), message |-> m]
    BY <1>1, <1>2, FramesOf
<1>4. /\ n \in Nat \ {0} /\ \A k \in 1 .. n : pieces[k].more <=> k < n
      /\ \A k \in 1 .. n : pieces[k].more \in BOOLEAN
    <2>1. pieces \in Seq(Piece)
        BY <1>3, PiecesOf
    <2>2. \A k \in 1 .. n : pieces[k] \in Piece
        BY <2>1
    <2>3. \A k \in 1 .. n : pieces[k].more \in BOOLEAN
        BY <2>2 DEF Piece
    <2> QED BY <1>3, <2>3, PiecesOf
<1> HIDE DEF F, n
<1>5. /\ c \in [1 .. n + 1 -> Cursor] /\ c[1] = <<i, 0>> /\ c[n + 1] = <<i + 1, 0>>
      /\ \A k \in 1 .. n : /\ c[k] = <<i, k - 1>>
                           /\ c[k + 1] = IF k < n THEN <<i, k>> ELSE <<i + 1, 0>>
    <2>1. \A k \in 1 .. n + 1 : c[k] = IF k <= n THEN <<i, k - 1>> ELSE <<i + 1, 0>>
        OBVIOUS
    <2>2. \A k \in 1 .. n + 1 : <<i, k - 1>> \in Cursor /\ <<i + 1, 0>> \in Cursor
        BY <1>4 DEF Cursor
    <2>3. c \in [1 .. n + 1 -> Cursor]
        BY <2>2
    <2> HIDE DEF c
    <2>4. 1 \in 1 .. n + 1 /\ n + 1 \in 1 .. n + 1 /\ 1 <= n /\ ~(n + 1 <= n) /\ 1 - 1 = 0
        BY <1>4
    <2>5. c[1] = <<i, 0>> /\ c[n + 1] = <<i + 1, 0>>
        BY <2>1, <2>4
    <2>6. ASSUME NEW k \in 1 .. n
          PROVE  /\ c[k] = <<i, k - 1>>
                 /\ c[k + 1] = IF k < n THEN <<i, k>> ELSE <<i + 1, 0>>
        <3>1. /\ k \in 1 .. n + 1 /\ k + 1 \in 1 .. n + 1 /\ k <= n /\ (k + 1) - 1 = k
              /\ k < n <=> k + 1 <= n
            BY <1>4
        <3> QED BY <2>1, <3>1
    <2> QED BY <2>3, <2>5, <2>6
<1> HIDE DEF c
<1>6. ASSUME NEW k \in 1 .. n
      PROVE  <<F[k], c[k], c[k + 1]>> \in R
    <2> DEFINE f == F[k]
               a == c[k]
               b == c[k + 1]
    <2>1. f = [type |-> "TRANSFER", id |-> id, more |-> pieces[k].more,
               bytes |-> named(m, pieces[k].bytes), message |-> m]
        BY <1>3
    <2>2. a \in Cursor /\ b \in Cursor /\ f \in Frame
        <3>1. k \in 1 .. n + 1 /\ k + 1 \in 1 .. n + 1
            BY <1>4
        <3>2. f \in Frame
            BY <1>3
        <3> QED BY <1>5, <3>1, <3>2
    <2>3. a = <<i, k - 1>> /\ b = IF k < n THEN <<i, k>> ELSE <<i + 1, 0>>
        BY <1>5
    <2> HIDE DEF a, b, f
    <2>4. /\ f.type = "TRANSFER" /\ f.id = id /\ f.message = m
          /\ f.bytes = named(m, pieces[k].bytes) /\ f.more = pieces[k].more
        BY <2>1
    <2>5. f.more <=> k < n
        BY <1>4, <2>4
    <2>6. a[1] = i /\ a[2] = k - 1 /\ a[2] + 1 = k
        BY <2>3
    <2>7. Piecewise(q, L.sends, f, a)
        <3>1. q[a[1] + 1] = m /\ a[1] < Len(q)
            BY <2>6 DEF m
        <3>2. split_of[L.sends[f.message].payload] = pieces
            BY <2>4
        <3>3. n = Len(pieces) /\ k <= n
            BY <1>4 DEF n
        <3> HIDE DEF pieces
        <3> QED BY <2>4, <2>5, <2>6, <3>1, <3>2, <3>3 DEF Piecewise
    <2>8. CASE k < n
        <3>1. b[1] = i /\ b[2] = k
            BY <2>3, <2>8
        <3>2. Goes(first, q, L.sends, d, f, a, b)
            BY <2>4, <2>5, <2>6, <2>7, <2>8, <3>1 DEF Goes
        <3> QED BY <2>2, <3>2, OnwardIs DEF a, b, f
    <2>9. CASE ~(k < n)
        <3>1. b[1] = i + 1 /\ b[2] = 0
            BY <2>3, <2>9
        <3>2. Goes(first, q, L.sends, d, f, a, b)
            BY <2>4, <2>5, <2>6, <2>7, <2>9, <3>1 DEF Goes, m, id
        <3> QED BY <2>2, <3>2, OnwardIs DEF a, b, f
    <2> QED BY <2>8, <2>9
<1> HIDE DEF R
<1>7. Path(Cursor, R, F, <<i, 0>>, <<i + 1, 0>>)
    BY <1>3, <1>5, <1>6 DEF Path
<1> QED BY <1>7 DEF F, R, m, id

\* Over those of the messages that are sent in a pass,
LEMMA WholePath ==
    ASSUME NEW L, Sending(L), NEW first \in Nat, NEW q \in Seq(Message), NEW d,
           NEW x \in Seq(Message), \A k \in 1 .. Len(x) : x[k] \in DOMAIN L.sends,
           L.next_outgoing_id = (first + Len(q)) % MOD
    PROVE  Path(Cursor, Onward(first, q \o x, L.sends, d), FlattenSeq(Whole(L, x)),
                <<Len(q), 0>>, <<Len(q) + Len(x), 0>>)
<1> DEFINE y == q \o x
           R == Onward(first, y, L.sends, d)
           W == Whole(L, x)
           n == Len(x)
           e == [k \in 1 .. n + 1 |-> <<Len(q) + k - 1, 0>>]
<1>1. Len(q) \in Nat /\ n \in Nat /\ y \in Seq(Message) /\ Len(y) = Len(q) + n
    OBVIOUS
<1>2. ASSUME NEW k \in 1 .. n PROVE y[Len(q) + k] = x[k]
    <2>1. Len(q) + k \in 1 .. Len(q) + n /\ Len(q) + k > Len(q) /\ (Len(q) + k) - Len(q) = k
        BY <1>1
    <2> QED BY <1>1, <2>1, ConcatProperties
<1>3. x \in Seq(DOMAIN L.sends)
    <2>1. x \in [1 .. n -> DOMAIN L.sends]
        OBVIOUS
    <2> QED BY <1>1, <2>1
<1>4. /\ W \in Seq(Seq(Frame)) /\ Len(W) = n
      /\ \A k \in 1 .. n : W[k] = frames(L, x[k], IdOf(L, k))
    BY <1>3, WholeOf
<1> HIDE DEF y, W
<1>5. /\ e \in [1 .. n + 1 -> Cursor]
      /\ \A k \in 1 .. n + 1 : e[k] = <<Len(q) + k - 1, 0>>
    <2>1. \A k \in 1 .. n + 1 : <<Len(q) + k - 1, 0>> \in Cursor
        BY <1>1 DEF Cursor
    <2> QED BY <2>1
<1> HIDE DEF e, n
<1>6. ASSUME NEW k \in 1 .. n PROVE Path(Cursor, R, W[k], e[k], e[k + 1])
    <2> DEFINE i == Len(q) + k - 1
    <2>1. i \in Nat /\ i < Len(y) /\ i + 1 = Len(q) + k
        BY <1>1 DEF n
    <2>2. e[k] = <<i, 0>> /\ e[k + 1] = <<i + 1, 0>>
        <3>1. k \in 1 .. n + 1 /\ k + 1 \in 1 .. n + 1 /\ Len(q) + (k + 1) - 1 = i + 1
            BY <1>1
        <3> QED BY <1>5, <3>1
    <2>3. y[i + 1] = x[k]
        BY <1>2, <2>1
    <2>4. IdOf(L, k) = IdAt(first, Len(q) + k)
        BY IdsAgree
    <2>5. W[k] = frames(L, y[i + 1], IdAt(first, i + 1))
        BY <1>4, <2>1, <2>3, <2>4
    <2>6. y[i + 1] \in DOMAIN L.sends
        BY <2>3 DEF n
    <2> HIDE DEF i
    <2> QED BY <1>1, <2>1, <2>2, <2>5, <2>6, FramesPath
<1> HIDE DEF R
<1>7. Path(Cursor, R, FlattenSeq(W), e[1], e[n + 1])
    BY <1>4, <1>5, <1>6, PathFlatten
<1>8. e[1] = <<Len(q), 0>> /\ e[n + 1] = <<Len(q) + n, 0>>
    <2>1. 1 \in 1 .. n + 1 /\ n + 1 \in 1 .. n + 1
        BY <1>1
    <2>2. Len(q) + 1 - 1 = Len(q) /\ Len(q) + (n + 1) - 1 = Len(q) + n
        BY <1>1
    <2> QED BY <1>5, <2>1, <2>2
<1> QED BY <1>7, <1>8 DEF R, y, W, n

\* and of the one that fails.
LEMMA PartPath ==
    ASSUME NEW L, Sending(L), NEW S \in SUBSET DOMAIN L.sends, NEW n \in Nat, NEW i \in Nat,
           NEW first, NEW y, NEW s, NEW d, d \/ L.broken = {}
    PROVE  Path(Cursor, Onward(first, y, s, d), Part(L, S, n), <<i, 0>>, <<i, 0>>)
<1> DEFINE P == Part(L, S, n)
           R == Onward(first, y, s, d)
           a == <<i, 0>>
<1>1. /\ P \in Seq(Frame)
      /\ failing(L, S) = {} => P = <<>>
      /\ \A k \in 1 .. Len(P) : P[k].type = "TRANSFER" /\ P[k].more
    BY PartOf
<1>2. a \in Cursor
    BY DEF Cursor
<1> HIDE DEF P
<1>3. CASE d
    <2> DEFINE c == [k \in 1 .. Len(P) + 1 |-> a]
    <2>1. c \in [1 .. Len(P) + 1 -> Cursor] /\ \A k \in 1 .. Len(P) + 1 : c[k] = a
        BY <1>2
    <2>2. Len(P) \in Nat
        BY <1>1
    <2>3. c[1] = a /\ c[Len(P) + 1] = a
        BY <2>1, <2>2
    <2> HIDE DEF a
    <2>4. ASSUME NEW k \in 1 .. Len(P) PROVE <<P[k], c[k], c[k + 1]>> \in R
        <3>1. P[k] \in Frame /\ P[k].type = "TRANSFER" /\ P[k].more
            BY <1>1
        <3>2. Goes(first, y, s, d, P[k], a, a)
            BY <1>3, <3>1 DEF Goes
        <3>3. <<P[k], a, a>> \in R
            BY <1>2, <3>1, <3>2, OnwardIs
        <3>4. k \in 1 .. Len(P) + 1 /\ k + 1 \in 1 .. Len(P) + 1
            BY <2>2
        <3>5. c[k] = a /\ c[k + 1] = a
            BY <2>1, <3>4
        <3> QED BY <3>3, <3>5
    <2> HIDE DEF c, R
    <2>5. Path(Cursor, R, P, a, a)
        BY <2>1, <2>3, <2>4 DEF Path
    <2> QED BY <2>5 DEF R, P, a
<1>4. CASE L.broken = {}
    <2>1. failing(L, S) = {}
        BY <1>4 DEF failing
    <2>2. P = <<>>
        BY <1>1, <2>1
    <2> HIDE DEF a, R
    <2>3. Path(Cursor, R, <<>>, a, a)
        BY <1>2, PathEmpty
    <2> QED BY <2>2, <2>3 DEF P, R, a
<1> QED BY <1>3, <1>4

TransferFrame == {f \in Frame : f.type = "TRANSFER"}

\* A pass writes nothing but TRANSFERs.
LEMMA OnlyTransfers ==
    ASSUME NEW L, Sending(L), NEW x \in Seq(DOMAIN L.sends),
           NEW S \in SUBSET DOMAIN L.sends, NEW n \in Nat
    PROVE  /\ FlattenSeq(Whole(L, x)) \in Seq(TransferFrame)
           /\ Part(L, S, n) \in Seq(TransferFrame)
           /\ TransferFrame \subseteq Frame
<1> DEFINE W == Whole(L, x)
           P == Part(L, S, n)
<1>1. /\ W \in Seq(Seq(Frame)) /\ Len(W) = Len(x) /\ Len(x) \in Nat
      /\ \A k \in 1 .. Len(x) : W[k] = frames(L, x[k], IdOf(L, k))
    BY WholeOf
<1>2. P \in Seq(Frame) /\ \A k \in 1 .. Len(P) : P[k].type = "TRANSFER"
    BY PartOf
<1> HIDE DEF P, W
<1>3. P \in Seq(TransferFrame)
    <2>1. \A k \in 1 .. Len(P) : P[k] \in TransferFrame
        BY <1>2 DEF TransferFrame
    <2> QED BY <1>2, <2>1
<1>4. ASSUME NEW k \in 1 .. Len(x) PROVE W[k] \in Seq(TransferFrame)
    <2> DEFINE m == x[k]
               id == IdOf(L, k)
               F == frames(L, m, id)
               pieces == split_of[L.sends[m].payload]
    <2>1. m \in DOMAIN L.sends /\ k \in Nat \ {0}
        OBVIOUS
    <2>2. id \in Number
        BY <2>1, IdOfType DEF Sending
    <2> HIDE DEF m, id
    <2>3. /\ F \in Seq(Frame) /\ Len(F) = Len(pieces)
          /\ \A j \in 1 .. Len(pieces) :
                F[j] = [type |-> "TRANSFER", id |-> id, more |-> pieces[j].more,
                        bytes |-> named(m, pieces[j].bytes), message |-> m]
        BY <2>1, <2>2, FramesOf
    <2> HIDE DEF F, pieces
    <2>4. ASSUME NEW j \in 1 .. Len(F) PROVE F[j] \in TransferFrame
        <3> DEFINE f == F[j]
        <3>1. /\ f \in Frame
              /\ f = [type |-> "TRANSFER", id |-> id, more |-> pieces[j].more,
                      bytes |-> named(m, pieces[j].bytes), message |-> m]
            BY <2>3
        <3> HIDE DEF f
        <3>2. f.type = "TRANSFER"
            BY <3>1
        <3> QED BY <3>1, <3>2 DEF TransferFrame, f
    <2>5. F \in Seq(TransferFrame)
        BY <2>3, <2>4
    <2> QED BY <1>1, <2>5 DEF F, m, id
<1>5. W \in Seq(Seq(TransferFrame))
    <2> DEFINE Y == Seq(TransferFrame)
    <2>1. \A k \in 1 .. Len(W) : W[k] \in Y
        BY <1>1, <1>4
    <2> DEFINE l == Len(W)
    <2>2. l \in Nat /\ DOMAIN W = 1 .. l /\ W = [k \in 1 .. l |-> W[k]]
        BY <1>1
    <2> HIDE DEF Y, l
    <2>3. W \in [1 .. l -> Y]
        BY <2>1, <2>2 DEF l
    <2>4. W \in Seq(Y)
        BY <2>2, <2>3
    <2> QED BY <2>4 DEF Y
<1>6. FlattenSeq(W) \in Seq(TransferFrame)
    BY <1>5, FlattenType
<1> QED BY <1>3, <1>6 DEF TransferFrame, P, W

\* A sequence behind another.
LEMMA Behind ==
    ASSUME NEW X, NEW q \in Seq(X), NEW x \in Seq(X)
    PROVE  /\ q \o x \in Seq(X) /\ Len(q) \in Nat /\ Len(x) \in Nat
           /\ Len(q \o x) = Len(q) + Len(x)
           /\ \A i \in 1 .. Len(q) : (q \o x)[i] = q[i] /\ i \in 1 .. Len(q \o x)
           /\ \A k \in 1 .. Len(x) : /\ (q \o x)[Len(q) + k] = x[k]
                                     /\ Len(q) + k \in 1 .. Len(q \o x)
           /\ \A i \in 1 .. Len(q \o x) :
                 i \in 1 .. Len(q) \/ \E k \in 1 .. Len(x) : i = Len(q) + k
<1>1. /\ q \o x \in Seq(X) /\ Len(q) \in Nat /\ Len(x) \in Nat
      /\ Len(q \o x) = Len(q) + Len(x)
    OBVIOUS
<1> DEFINE y == q \o x
           n == Len(q)
           l == Len(x)
<1>2. \A i \in 1 .. n : y[i] = q[i]
    OBVIOUS
<1>3. ASSUME NEW k \in 1 .. l PROVE y[n + k] = x[k]
    <2>1. n + k \in 1 .. n + l /\ n + k > n /\ (n + k) - n = k
        BY <1>1
    <2> QED BY <1>1, <2>1, ConcatProperties
<1> HIDE DEF y, n, l
<1>4. n \in Nat /\ l \in Nat /\ Len(y) = n + l
    BY <1>1 DEF y, n, l
<1>5. ASSUME NEW i \in 1 .. n + l, i \notin 1 .. n PROVE \E k \in 1 .. l : i = n + k
    <2>1. i - n \in 1 .. l /\ i = n + (i - n)
        BY <1>4, <1>5
    <2> QED BY <2>1
<1>6. /\ \A i \in 1 .. n : i \in 1 .. Len(y)
      /\ \A k \in 1 .. l : n + k \in 1 .. Len(y)
    BY <1>4
<1> QED BY <1>1, <1>2, <1>3, <1>4, <1>5, <1>6 DEF y, n, l

\* What a pass makes of the sender.
PassedOn(first, q, d, L, x, out, T) ==
    /\ T.out = L.out \o out
    /\ Sender(first, q \o x, d, T)
    /\ T.remote_incoming_window = L.remote_incoming_window - Len(x)
    /\ Path(Cursor, Onward(first, q \o x, L.sends, d), out,
            <<Len(q), 0>>, <<Len(q) + Len(x), 0>>)
    /\ Len(T.sends) = Len(L.sends)
    /\ \A m \in 1 .. Len(L.sends) : /\ T.sends[m].payload = L.sends[m].payload
                                    /\ T.sends[m].state = "OK" <=> L.sends[m].state = "OK"
    /\ waiting(T) \subseteq waiting(L)

\* A pass of send_all_pending_messages, or the transfer of one message, goes on
\* from what has been sent: in order, under the next ids, within the window; and
\* unless one fails it ends with no message waiting or the link busy.
LEMMA PassOn ==
    ASSUME NEW first \in Nat, NEW q, NEW d, NEW L, Sender(first, q, d, L),
           NEW S \in SUBSET waiting(L), d \/ S = waiting(L) \/ room(L) = 0
    PROVE  /\ \E x \in Seq(Message), out \in Seq(TransferFrame) :
                 PassedOn(first, q, d, L, x, out, transfers(L, S))
           /\ d \/ waiting(transfers(L, S)) = {} \/ room(transfers(L, S)) = 0
<1> DEFINE T == transfers(L, S)
           G == going(L, S)
           x == in_order(G)
           u == L.sends
           t == T.sends
           N == Len(u)
           y == q \o x
           out == FlattenSeq(Whole(L, x)) \o Part(L, S, Len(x))
<1>1. /\ Sending(L) /\ L \in TxRecord /\ u \in Seq(Send) /\ N \in Nat
      /\ DOMAIN u = 1 .. N
      /\ S \in SUBSET DOMAIN u /\ q \in Seq(Message)
      /\ \A i \in 1 .. Len(q) : q[i] \in DOMAIN u
      /\ \A i, j \in 1 .. Len(q) : q[i] = q[j] => i = j
      /\ L.next_outgoing_id = (first + Len(q)) % MOD
      /\ \A m \in DOMAIN u : u[m].state \in {"PENDING", "OK"} <=> \E i \in 1 .. Len(q) : q[i] = m
      /\ \A v \in L.deliveries : \E i \in 1 .. Len(q) : v.id = IdAt(first, i) /\ v.message = q[i]
      /\ ~d => /\ L.broken = {}
               /\ \A i, j \in 1 .. Len(q) : i < j => q[i] < q[j]
               /\ \A m \in waiting(L) : \A i \in 1 .. Len(q) : q[i] < m
    <2>1. Sending(L) /\ L \in TxRecord /\ u \in Seq(Send)
        BY DEF Sender, Sending, TxRecord
    <2>2. S \in SUBSET DOMAIN u
        BY WaitingOnes
    <2> QED BY <2>1, <2>2 DEF Sender
<1>2. /\ G \in SUBSET S /\ x \in Seq(Message) /\ Len(x) \in Nat /\ Len(x) <= room(L)
      /\ \A m \in G : \E k \in 1 .. Len(x) : x[k] = m
      /\ \A k \in 1 .. Len(x) : x[k] \in G /\ before(x[k], G) = k - 1
    BY <1>1, GoingOnes, SMTT(40)
<1>3. /\ t \in Seq(Send) /\ Len(t) = N
      /\ \A m \in 1 .. N :
            /\ t[m].payload = u[m].payload
            /\ m \in G => t[m].state = "PENDING"
            /\ m \notin G /\ (\E b \in failing(L, S) : b.message = m) => t[m].state = "ERROR"
            /\ m \notin G /\ ~(\E b \in failing(L, S) : b.message = m) => t[m] = u[m]
    BY <1>1, MarkedSends
<1>4. Passed(L, S, x, T) /\ Sending(T)
    BY <1>1, Passes, PassSending
<1>5. \A b \in failing(L, S) : b.message \in S
    BY DEF failing, tried
<1>6. \A i, j \in 1 .. Len(x) : i < j => x[i] < x[j]
    BY <1>1, GoingSorted
<1>7. ~d => \A m \in S \ G : Len(x) = room(L) /\ \A n \in G : n < m
    BY <1>1, Exhausts
<1>8. DOMAIN t = 1 .. N
    BY <1>1, <1>3
<1> DEFINE W == FlattenSeq(Whole(L, x))
           P == Part(L, S, Len(x))
<1>9. /\ W \in Seq(Frame) /\ P \in Seq(Frame)
      /\ W \in Seq(TransferFrame) /\ P \in Seq(TransferFrame)
      /\ Path(Cursor, Onward(first, y, u, d), W, <<Len(q), 0>>, <<Len(q) + Len(x), 0>>)
      /\ Path(Cursor, Onward(first, y, u, d), P, <<Len(q) + Len(x), 0>>, <<Len(q) + Len(x), 0>>)
    <2>1. \A k \in 1 .. Len(x) : x[k] \in DOMAIN u
        BY <1>1, <1>2
    <2>2. x \in Seq(DOMAIN u)
        <3> DEFINE D == DOMAIN u
        <3>1. x \in Seq(Message) /\ Len(x) \in Nat /\ \A k \in 1 .. Len(x) : x[k] \in D
            BY <1>2, <2>1
        <3> HIDE DEF x, D
        <3>2. x \in Seq(D)
            BY <3>1
        <3> QED BY <3>2 DEF D
    <2>3. W \in Seq(Frame)
        BY <1>1, <2>2, WholeOf
    <2>4. P \in Seq(Frame)
        BY <1>1, <1>2, PartOf
    <2>5. Path(Cursor, Onward(first, y, u, d), W, <<Len(q), 0>>, <<Len(q) + Len(x), 0>>)
        <3> HIDE DEF x, u
        <3>1. \A k \in 1 .. Len(x) : x[k] \in DOMAIN L.sends
            BY <2>1 DEF u
        <3> QED BY <1>1, <1>2, <3>1, WholePath DEF u
    <2>6. Len(q) + Len(x) \in Nat
        BY <1>1, <1>2
    <2>7. d \/ L.broken = {}
        BY <1>1
    <2>8. Path(Cursor, Onward(first, y, u, d), P, <<Len(q) + Len(x), 0>>, <<Len(q) + Len(x), 0>>)
        <3> HIDE DEF x, u, y
        <3> DEFINE n == Len(x)
                   i == Len(q) + n
        <3>1. n \in Nat /\ i \in Nat /\ S \in SUBSET DOMAIN L.sends
            BY <1>1, <1>2, <2>6 DEF u
        <3> HIDE DEF n, i
        <3>2. Path(Cursor, Onward(first, y, u, d), Part(L, S, n), <<i, 0>>, <<i, 0>>)
            BY <1>1, <2>7, <3>1, PartPath
        <3> QED BY <3>2 DEF n, i
    <2>9. W \in Seq(TransferFrame) /\ P \in Seq(TransferFrame)
        BY <1>1, <1>2, <2>2, OnlyTransfers
    <2> QED BY <2>3, <2>4, <2>5, <2>8, <2>9
<1> HIDE DEF G, x, u, t, T, N, y, W, P
<1>10. /\ y \in Seq(Message) /\ Len(q) \in Nat
       /\ Len(y) = Len(q) + Len(x)
       /\ \A i \in 1 .. Len(q) : y[i] = q[i] /\ i \in 1 .. Len(y)
       /\ \A k \in 1 .. Len(x) : y[Len(q) + k] = x[k] /\ Len(q) + k \in 1 .. Len(y)
       /\ \A i \in 1 .. Len(y) : i \in 1 .. Len(q) \/ \E k \in 1 .. Len(x) : i = Len(q) + k
    BY <1>1, <1>2, Behind DEF y
<1>11. Path(Cursor, Onward(first, y, u, d), W \o P, <<Len(q), 0>>, <<Len(q) + Len(x), 0>>)
    BY <1>9, PathJoin
<1>12. \A m \in S : u[m].state = "NOT_SENT"
    BY DEF waiting, u
<1>13. \A k \in 1 .. Len(x) : \A i \in 1 .. Len(q) : q[i] # x[k]
    <2> SUFFICES ASSUME NEW k \in 1 .. Len(x), NEW i \in 1 .. Len(q) PROVE q[i] # x[k]
        OBVIOUS
    <2>1. u[x[k]].state = "NOT_SENT"
        BY <1>2, <1>12
    <2>2. u[q[i]].state \in {"PENDING", "OK"}
        BY <1>1
    <2> QED BY <2>1, <2>2
<1>14. \A i, j \in 1 .. Len(y) : y[i] = y[j] => i = j
    <2> SUFFICES ASSUME NEW i \in 1 .. Len(y), NEW j \in 1 .. Len(y), y[i] = y[j]
                 PROVE  i = j
        OBVIOUS
    <2>1. CASE i \in 1 .. Len(q) /\ j \in 1 .. Len(q)
        BY <1>1, <1>10, <2>1, SMTT(40)
    <2>2. CASE i \in 1 .. Len(q) /\ j \notin 1 .. Len(q)
        BY <1>10, <1>13, <2>2
    <2>3. CASE i \notin 1 .. Len(q) /\ j \in 1 .. Len(q)
        BY <1>10, <1>13, <2>3
    <2>4. CASE i \notin 1 .. Len(q) /\ j \notin 1 .. Len(q)
        <3>1. PICK k \in 1 .. Len(x), l \in 1 .. Len(x) : i = Len(q) + k /\ j = Len(q) + l
            BY <1>10, <2>4
        <3>2. x[k] = x[l]
            BY <1>10, <3>1
        <3>3. before(x[k], G) = k - 1 /\ before(x[l], G) = l - 1
            BY <1>2
        <3> QED BY <3>1, <3>2, <3>3
    <2> QED BY <2>1, <2>2, <2>3, <2>4
<1>15. ASSUME NEW i \in 1 .. Len(y) PROVE y[i] \in 1 .. N
    <2>1. \A j \in 1 .. Len(q) : q[j] \in 1 .. N
        BY <1>1
    <2>2. \A k \in 1 .. Len(x) : x[k] \in 1 .. N
        BY <1>1, <1>2
    <2> QED BY <1>10, <2>1, <2>2
<1>16. ASSUME NEW m \in 1 .. N
       PROVE  /\ t[m].state \in {"PENDING", "OK"} <=> \E i \in 1 .. Len(y) : y[i] = m
              /\ t[m].state = "OK" <=> u[m].state = "OK"
              /\ t[m].state = "NOT_SENT" => u[m].state = "NOT_SENT" /\ m \notin G
              /\ failing(L, S) = {} /\ m \notin G => t[m] = u[m]
    <2>1. u[m].state \in {"PENDING", "OK"} <=> \E i \in 1 .. Len(q) : q[i] = m
        BY <1>1
    <2>2. CASE m \in G
        <3>1. t[m].state = "PENDING" /\ u[m].state = "NOT_SENT"
            BY <1>2, <1>3, <1>12, <2>2
        <3>2. \E i \in 1 .. Len(y) : y[i] = m
            BY <1>2, <1>10, <2>2
        <3> QED BY <2>2, <3>1, <3>2
    <2>3. CASE m \notin G
        <3>1. (\E i \in 1 .. Len(y) : y[i] = m) <=> (\E i \in 1 .. Len(q) : q[i] = m)
            <4>1. ASSUME NEW i \in 1 .. Len(q), q[i] = m PROVE \E j \in 1 .. Len(y) : y[j] = m
                BY <1>10, <4>1
            <4>2. ASSUME NEW j \in 1 .. Len(y), y[j] = m PROVE \E i \in 1 .. Len(q) : q[i] = m
                <5>1. \A k \in 1 .. Len(x) : x[k] # m
                    BY <1>2, <2>3
                <5> QED BY <1>10, <4>2, <5>1
            <4> QED BY <4>1, <4>2
        <3>2. CASE \E b \in failing(L, S) : b.message = m
            <4>1. t[m].state = "ERROR" /\ u[m].state = "NOT_SENT"
                BY <1>3, <1>5, <1>12, <2>3, <3>2
            <4> QED BY <2>1, <3>1, <3>2, <4>1
        <3>3. CASE ~(\E b \in failing(L, S) : b.message = m)
            <4>1. t[m] = u[m]
                BY <1>3, <2>3, <3>3
            <4> QED BY <2>1, <2>3, <3>1, <4>1
        <3> QED BY <3>2, <3>3
    <2> QED BY <2>2, <2>3
<1>17. T.next_outgoing_id = (first + Len(y)) % MOD
    <2>1. T.next_outgoing_id = (L.next_outgoing_id + Len(x)) % MOD
        BY <1>4 DEF Passed
    <2>2. (L.next_outgoing_id + Len(x)) % MOD = (first + Len(q) + Len(x)) % MOD
        <3> DEFINE n == Len(x)
        <3>1. n \in Nat
            BY <1>2
        <3> HIDE DEF n
        <3>2. (L.next_outgoing_id + n) % MOD = (first + Len(q) + n) % MOD
            BY <1>1, <3>1, IdsAgree, SMTT(40)
        <3> QED BY <3>2 DEF n
    <2>3. first + Len(q) + Len(x) = first + Len(y)
        BY <1>2, <1>10
    <2> QED BY <2>1, <2>2, <2>3
<1>18. ASSUME NEW v \in T.deliveries
       PROVE  \E i \in 1 .. Len(y) : v.id = IdAt(first, i) /\ v.message = y[i]
    <2>1. T.deliveries = L.deliveries \cup NewDeliveries(L, x)
        BY <1>4 DEF Passed
    <2>2. CASE v \in L.deliveries
        <3>1. PICK i \in 1 .. Len(q) : v.id = IdAt(first, i) /\ v.message = q[i]
            BY <1>1, <2>2
        <3> QED BY <1>10, <3>1
    <2>3. CASE v \in NewDeliveries(L, x)
        <3>1. PICK k \in 1 .. Len(x) : v = [id |-> IdOf(L, k), message |-> x[k]]
            BY <2>3 DEF NewDeliveries
        <3>2. IdOf(L, k) = IdAt(first, Len(q) + k)
            BY <1>1, IdsAgree
        <3>3. v.id = IdAt(first, Len(q) + k) /\ v.message = x[k]
            BY <3>1, <3>2
        <3> QED BY <1>10, <3>3
    <2> QED BY <2>1, <2>2, <2>3
<1>19. waiting(T) \subseteq waiting(L) \ G
    <2> SUFFICES ASSUME NEW m \in waiting(T) PROVE m \in waiting(L) \ G
        OBVIOUS
    <2>1. m \in 1 .. N /\ t[m].state = "NOT_SENT"
        BY <1>8 DEF waiting, t
    <2>2. u[m].state = "NOT_SENT" /\ m \notin G
        BY <1>16, <2>1
    <2> QED BY <1>1, <2>1, <2>2 DEF waiting, u
<1>20. ~d => /\ T.broken = {}
             /\ \A i, j \in 1 .. Len(y) : i < j => y[i] < y[j]
             /\ \A m \in waiting(T) : \A i \in 1 .. Len(y) : y[i] < m
    <2> SUFFICES ASSUME ~d
                 PROVE  /\ T.broken = {}
                        /\ \A i, j \in 1 .. Len(y) : i < j => y[i] < y[j]
                        /\ \A m \in waiting(T) : \A i \in 1 .. Len(y) : y[i] < m
        OBVIOUS
    <2>1. T.broken = {}
        BY <1>1, <1>4 DEF Passed
    <2>2. \A k \in 1 .. Len(x) : \A i \in 1 .. Len(q) : q[i] < x[k]
        BY <1>1, <1>2
    <2>3. ASSUME NEW i \in 1 .. Len(y), NEW j \in 1 .. Len(y), i < j PROVE y[i] < y[j]
        <3>1. CASE i \in 1 .. Len(q) /\ j \in 1 .. Len(q)
            BY <1>1, <1>10, <2>3, <3>1
        <3>2. CASE i \in 1 .. Len(q) /\ j \notin 1 .. Len(q)
            BY <1>10, <2>2, <3>2
        <3>3. CASE i \notin 1 .. Len(q) /\ j \notin 1 .. Len(q)
            <4>1. PICK k \in 1 .. Len(x), l \in 1 .. Len(x) : i = Len(q) + k /\ j = Len(q) + l
                BY <1>10, <3>3
            <4>2. k < l
                BY <1>10, <2>3, <4>1
            <4>3. x[k] < x[l]
                BY <1>6, <4>2
            <4> QED BY <1>10, <4>1, <4>3
        <3>4. ~(i \notin 1 .. Len(q) /\ j \in 1 .. Len(q))
            BY <1>10, <2>3
        <3> QED BY <3>1, <3>2, <3>3, <3>4
    <2>4. ASSUME NEW m \in waiting(T), NEW i \in 1 .. Len(y) PROVE y[i] < m
        <3>1. m \in waiting(L) /\ m \notin G
            BY <1>19
        <3>2. CASE i \in 1 .. Len(q)
            BY <1>1, <1>10, <3>1, <3>2
        <3>3. CASE i \notin 1 .. Len(q)
            <4>1. PICK k \in 1 .. Len(x) : i = Len(q) + k
                BY <1>10, <3>3
            <4>2. y[i] = x[k] /\ x[k] \in G
                BY <1>2, <1>10, <4>1
            <4>3. S = waiting(L) \/ room(L) = 0
                OBVIOUS
            <4>4. room(L) # 0
                BY <1>2, <4>1
            <4>5. m \in S \ G
                BY <3>1, <4>3, <4>4
            <4> QED BY <1>7, <4>2, <4>5
        <3> QED BY <3>2, <3>3
    <2> QED BY <2>1, <2>3, <2>4
<1>21. Sender(first, y, d, T)
    <2>1. DOMAIN T.sends = 1 .. N /\ t = T.sends
        BY <1>8 DEF t
    <2> QED BY <1>4, <1>10, <1>14, <1>15, <1>16, <1>17, <1>18, <1>20, <2>1 DEF Sender
<1>22. T.out = L.out \o (W \o P)
    <2>1. T.out = L.out \o W \o P
        BY <1>4 DEF Passed, W, P
    <2>2. L.out \in Seq(Frame)
        BY <1>1 DEF TxRecord
    <2>3. \A a, b, c \in Seq(Frame) : a \o b \o c = a \o (b \o c)
        BY ConcatAssociative
    <2> QED BY <1>9, <2>1, <2>2, <2>3
<1>23. T.remote_incoming_window = L.remote_incoming_window - Len(x)
    BY <1>4 DEF Passed
<1>24. W \o P \in Seq(TransferFrame)
    BY <1>9
<1>25. PassedOn(first, q, d, L, x, W \o P, T)
    BY <1>3, <1>11, <1>16, <1>19, <1>21, <1>22, <1>23 DEF PassedOn, y, u, t, N
<1>26. ASSUME ~d, waiting(T) # {} PROVE room(T) = 0
    <2>1. S = waiting(L) => Len(x) = room(L)
        <3>1. PICK m \in waiting(T) : TRUE
            BY <1>26
        <3>2. S = waiting(L) => m \in S \ G
            BY <1>19
        <3> QED BY <1>7, <1>26, <3>2
    <2>2. Len(x) = room(L)
        <3>1. room(L) = 0 => Len(x) = room(L)
            BY <1>2
        <3> QED BY <1>26, <2>1, <3>1
    <2>3. T.current_link_credit = L.current_link_credit - Len(x)
        BY <1>4 DEF Passed
    <2>4. L.current_link_credit \in Nat /\ L.remote_incoming_window \in Nat
        BY <1>1, Numbers DEF TxRecord
    <2> QED BY <1>23, <2>2, <2>3, <2>4 DEF room
<1> QED BY <1>2, <1>24, <1>25, <1>26 DEF T

\* The sender in the middle of an action that has sent x so far, of the messages
\* s: what it has written leads on, and with the window it comes to g.
Carried(first, q, e, x, s, g, L) ==
    /\ Sender(first, q \o x, e, L)
    /\ L.out \in Seq(TransferFrame)
    /\ Len(q) + Len(x) + L.remote_incoming_window = g
    /\ Path(Cursor, Onward(first, q \o x, L.sends, e), L.out,
            <<Len(q), 0>>, <<Len(q) + Len(x), 0>>)
    /\ Len(L.sends) = Len(s)
    /\ \A m \in 1 .. Len(s) : /\ L.sends[m].payload = s[m].payload
                              /\ L.sends[m].state = "OK" <=> s[m].state = "OK"

\* The same, whatever has been sent.
Carrying(first, q, e, s, g) ==
    {L \in TxRecord : \E x \in Seq(Message) : Carried(first, q, e, x, s, g, L)}

\* What a sender is made of.
LEMMA SenderParts ==
    ASSUME NEW first, NEW q, NEW d, NEW L, Sender(first, q, d, L)
    PROVE  /\ Sending(L) /\ L \in TxRecord /\ q \in Seq(Message)
           /\ L.out \in Seq(Frame) /\ L.sends \in Seq(Send)
           /\ Len(L.sends) \in Nat /\ DOMAIN L.sends = 1 .. Len(L.sends)
           /\ \A i \in 1 .. Len(q) : q[i] \in 1 .. Len(L.sends)
           /\ L.remote_incoming_window \in Nat
<1>1. Sending(L) /\ L \in TxRecord /\ q \in Seq(Message)
    BY DEF Sender, Sending
<1>2. L.out \in Seq(Frame) /\ L.sends \in Seq(Send) /\ L.remote_incoming_window \in Nat
    BY <1>1, Numbers DEF TxRecord
<1>3. Len(L.sends) \in Nat /\ DOMAIN L.sends = 1 .. Len(L.sends)
    BY <1>2
<1>4. \A i \in 1 .. Len(q) : q[i] \in 1 .. Len(L.sends)
    BY <1>3 DEF Sender
<1> QED BY <1>1, <1>2, <1>3, <1>4

\* The states of the messages do not matter to the frames.
LEMMA OnwardSame ==
    ASSUME NEW first, NEW q \in Seq(Message), NEW s, NEW t, NEW d,
           \A i \in 1 .. Len(q) : t[q[i]].payload = s[q[i]].payload,
           NEW F \in Seq(Frame), NEW a, NEW b,
           Path(Cursor, Onward(first, q, s, d), F, a, b)
    PROVE  Path(Cursor, Onward(first, q, t, d), F, a, b)
<1> DEFINE v == <<>>
<1>1. v \in Seq(Message) /\ q \o v = q
    BY ConcatEmptySeq
<1> HIDE DEF v
<1>2. Path(Cursor, Onward(first, q \o v, t, d), F, a, b)
    BY <1>1, OnwardGrows
<1> QED BY <1>1, <1>2

\* A pass carries on.
LEMMA CarriesOn ==
    ASSUME NEW first \in Nat, NEW q \in Seq(Message), NEW e, NEW s, NEW g,
           NEW L \in Carrying(first, q, e, s, g),
           NEW S \in SUBSET waiting(L), e \/ S = waiting(L) \/ room(L) = 0
    PROVE  /\ transfers(L, S) \in Carrying(first, q, e, s, g)
           /\ e \/ waiting(transfers(L, S)) = {} \/ room(transfers(L, S)) = 0
<1> DEFINE T == transfers(L, S)
<1>1. PICK x \in Seq(Message) : Carried(first, q, e, x, s, g, L)
    BY DEF Carrying
<1> DEFINE y == q \o x
<1>2. Sender(first, y, e, L)
    BY <1>1 DEF Carried
<1>3. y \in Seq(Message) /\ Len(q) \in Nat /\ Len(x) \in Nat /\ Len(y) = Len(q) + Len(x)
    OBVIOUS
<1> HIDE DEF y
<1>4. /\ \E z \in Seq(Message), out \in Seq(TransferFrame) : PassedOn(first, y, e, L, z, out, T)
      /\ e \/ waiting(T) = {} \/ room(T) = 0
    <2>1. \E z \in Seq(Message), out \in Seq(TransferFrame) : PassedOn(first, y, e, L, z, out, T)
        BY <1>2, PassOn
    <2>2. e \/ waiting(T) = {} \/ room(T) = 0
        BY <1>2, PassOn
    <2> QED BY <2>1, <2>2
<1>5. PICK z \in Seq(Message), out \in Seq(TransferFrame) : PassedOn(first, y, e, L, z, out, T)
    BY <1>4
<1> HIDE DEF T
<1> DEFINE w == y \o z
           R == Onward(first, w, T.sends, e)
           xz == x \o z
<1>6. /\ T.out = L.out \o out /\ Sender(first, w, e, T)
      /\ T.remote_incoming_window = L.remote_incoming_window - Len(z)
      /\ Path(Cursor, Onward(first, w, L.sends, e), out,
              <<Len(y), 0>>, <<Len(y) + Len(z), 0>>)
      /\ Len(T.sends) = Len(L.sends)
      /\ \A m \in 1 .. Len(L.sends) : /\ T.sends[m].payload = L.sends[m].payload
                                      /\ T.sends[m].state = "OK" <=> L.sends[m].state = "OK"
    BY <1>5 DEF PassedOn
<1>7. /\ w \in Seq(Message) /\ w = q \o xz /\ xz \in Seq(Message)
      /\ Len(xz) = Len(x) + Len(z) /\ Len(z) \in Nat
    BY ConcatAssociative, SMTT(60) DEF y
<1> HIDE DEF xz
<1>8. /\ L.out \in Seq(Frame) /\ L.remote_incoming_window \in Nat
      /\ \A i \in 1 .. Len(y) : y[i] \in 1 .. Len(L.sends)
    BY <1>2, SenderParts
<1>9. T \in TxRecord /\ \A i \in 1 .. Len(w) : w[i] \in 1 .. Len(L.sends)
    BY <1>6, SenderParts
<1>10. Path(Cursor, R, L.out, <<Len(q), 0>>, <<Len(y), 0>>)
    <2>1. Path(Cursor, Onward(first, y, L.sends, e), L.out, <<Len(q), 0>>, <<Len(y), 0>>)
        BY <1>1, <1>3 DEF Carried, y
    <2>2. \A i \in 1 .. Len(y) : T.sends[y[i]].payload = L.sends[y[i]].payload
        BY <1>6, <1>8
    <2> QED BY <1>3, <1>8, <2>1, <2>2, OnwardGrows
<1>11. Path(Cursor, R, out, <<Len(y), 0>>, <<Len(y) + Len(z), 0>>)
    <2>1. \A i \in 1 .. Len(w) : T.sends[w[i]].payload = L.sends[w[i]].payload
        BY <1>6, <1>9
    <2>2. Path(Cursor, Onward(first, w, L.sends, e), out,
               <<Len(y), 0>>, <<Len(y) + Len(z), 0>>)
        BY <1>6
    <2>3. out \in Seq(Frame)
        BY DEF TransferFrame
    <2> QED BY <1>7, <2>1, <2>2, <2>3, OnwardSame
<1> HIDE DEF R, w
<1>12. Path(Cursor, R, T.out, <<Len(q), 0>>, <<Len(y) + Len(z), 0>>)
    <2>1. Path(Cursor, R, L.out \o out, <<Len(q), 0>>, <<Len(y) + Len(z), 0>>)
        <3>1. out \in Seq(Frame)
            BY DEF TransferFrame
        <3> QED BY <1>8, <1>10, <1>11, <3>1, PathJoin
    <2> QED BY <1>6, <2>1
<1>13. /\ Len(y) + Len(z) = Len(q) + Len(xz)
       /\ Len(q) + Len(xz) + T.remote_incoming_window = g
    <2>1. Len(q) + Len(x) + L.remote_incoming_window = g
        BY <1>1 DEF Carried
    <2> QED BY <1>3, <1>6, <1>7, <1>8, <2>1
<1>14. /\ Len(T.sends) = Len(s)
       /\ \A m \in 1 .. Len(s) : /\ T.sends[m].payload = s[m].payload
                                 /\ T.sends[m].state = "OK" <=> s[m].state = "OK"
    BY <1>1, <1>6 DEF Carried
<1>15. Carried(first, q, e, xz, s, g, T)
    <2>1. T.out \in Seq(TransferFrame)
        BY <1>1, <1>6 DEF Carried
    <2> QED BY <1>6, <1>7, <1>12, <1>13, <1>14, <2>1 DEF Carried, R
<1>16. T \in Carrying(first, q, e, s, g)
    BY <1>7, <1>9, <1>15 DEF Carrying
<1> QED BY <1>4, <1>16 DEF T

\* The credit may change meanwhile.
LEMMA CarriesCredit ==
    ASSUME NEW first, NEW q, NEW e, NEW s, NEW g,
           NEW L \in Carrying(first, q, e, s, g), NEW c \in Number
    PROVE  [L EXCEPT !.current_link_credit = c] \in Carrying(first, q, e, s, g)
<1> DEFINE K == [L EXCEPT !.current_link_credit = c]
<1>1. PICK x \in Seq(Message) : Carried(first, q, e, x, s, g, L)
    BY DEF Carrying
<1>2. L \in TxRecord /\ Sending(L)
    BY <1>1 DEF Carried, Sender, Sending
<1>3. Sending(K)
    BY <1>2, FlowSending
<1>4. /\ K \in TxRecord /\ K.sends = L.sends /\ K.broken = L.broken /\ K.out = L.out
      /\ K.next_outgoing_id = L.next_outgoing_id /\ K.deliveries = L.deliveries
      /\ K.remote_incoming_window = L.remote_incoming_window
    BY <1>2 DEF TxRecord
<1> HIDE DEF K
<1>5. waiting(K) = waiting(L)
    BY <1>4 DEF waiting
<1>6. ASSUME NEW y, Sender(first, y, e, L) PROVE Sender(first, y, e, K)
    BY <1>3, <1>4, <1>5, <1>6 DEF Sender
<1>7. Carried(first, q, e, x, s, g, K)
    BY <1>1, <1>4, <1>6 DEF Carried
<1>8. K \in Carrying(first, q, e, s, g)
    BY <1>4, <1>7 DEF Carrying
<1> QED BY <1>8 DEF K

\* Frames that say that there is no more stand for a message each.
LEMMA PathCounts ==
    ASSUME NEW first, NEW q, NEW s, NEW d, NEW F \in Seq(TransferFrame),
           \A k \in 1 .. Len(F) : ~F[k].more, NEW a, NEW b,
           Path(Cursor, Onward(first, q, s, d), F, a, b)
    PROVE  b[1] = a[1] + Len(F)
<1> DEFINE R == Onward(first, q, s, d)
           n == Len(F)
<1>1. PICK c \in [1 .. n + 1 -> Cursor] :
         /\ c[1] = a /\ c[n + 1] = b
         /\ \A k \in 1 .. n : <<F[k], c[k], c[k + 1]>> \in R
    BY DEF Path
<1>2. n \in Nat
    OBVIOUS
<1> HIDE DEF R, n
<1>3. ASSUME NEW k \in 1 .. n PROVE c[k + 1][1] = c[k][1] + 1
    <2> DEFINE f == F[k]
               v == c[k]
               w == c[k + 1]
    <2>1. f \in TransferFrame /\ ~f.more
        BY DEF n
    <2>2. v \in Cursor /\ w \in Cursor
        BY <1>2
    <2>3. <<f, v, w>> \in R
        BY <1>1
    <2> HIDE DEF f, v, w
    <2>4. f \in Frame /\ f.type = "TRANSFER"
        BY <2>1 DEF TransferFrame
    <2>5. Goes(first, q, s, d, f, v, w)
        BY <2>2, <2>3, <2>4, OnwardIs DEF R
    <2>6. w[1] = v[1] + 1
        BY <2>1, <2>4, <2>5 DEF Goes
    <2> QED BY <2>6 DEF v, w
<1> DEFINE S == {l \in Nat : l <= n => c[l + 1][1] = a[1] + l}
<1>4. a[1] \in Nat
    <2>1. a \in Cursor
        BY <1>1, <1>2
    <2> QED BY <2>1 DEF Cursor
<1>5. 0 \in S
    BY <1>1, <1>4
<1>6. ASSUME NEW l \in Nat, l \in S PROVE l + 1 \in S
    <2>1. CASE l + 1 <= n
        <3>1. l + 1 \in 1 .. n /\ l <= n
            BY <1>2, <2>1
        <3>2. c[l + 1][1] = a[1] + l
            BY <1>6, <3>1
        <3>3. c[(l + 1) + 1][1] = c[l + 1][1] + 1
            BY <1>3, <3>1
        <3>4. c[(l + 1) + 1][1] = a[1] + (l + 1)
            <4>1. c[(l + 1) + 1][1] = (a[1] + l) + 1
                BY <3>2, <3>3
            <4> DEFINE v == a[1]
            <4>2. v \in Nat
                BY <1>4
            <4>3. c[(l + 1) + 1][1] = (v + l) + 1
                BY <4>1
            <4> HIDE DEF v
            <4>4. (v + l) + 1 = v + (l + 1)
                BY <4>2
            <4>5. c[(l + 1) + 1][1] = v + (l + 1)
                BY <4>3, <4>4
            <4> QED BY <4>5 DEF v
        <3> QED BY <3>4
    <2> QED BY <2>1
<1> HIDE DEF S
<1>7. Nat \subseteq S
    BY <1>5, <1>6, Inductive
<1>8. c[n + 1][1] = a[1] + n
    BY <1>2, <1>7 DEF S
<1> QED BY <1>1, <1>8 DEF n

-----------------------------------------------------------------------------
(* What is kept *)

BytesOf(pieces) == [k \in DOMAIN pieces |-> pieces[k].bytes]

\* Of the message that comes next, k pieces have been put together.
Gathered(q, k) ==
    \/ k = 0 /\ rx.received_payload = <<>>
    \/ /\ k > 0 /\ Len(delivered) < Len(q)
       /\ k < Len(split_of[tx.sends[q[Len(delivered) + 1]].payload])
       /\ rx.received_payload =
             named(q[Len(delivered) + 1],
                   Joined(BytesOf(split_of[tx.sends[q[Len(delivered) + 1]].payload]), k))

\* What is under way leads from what has been delivered to what has been sent.
UnderWay(first, q) ==
    \E k \in Nat :
        /\ Path(Cursor, Onward(first, q, tx.sends, disturbed), forth,
                <<Len(delivered), k>>, <<Len(q), 0>>)
        /\ disturbed \/ Gathered(q, k)

\* Messages are delivered in the order in which they were sent, and intact.
Given(q) ==
    /\ Len(delivered) <= Len(q)
    /\ \A j \in 1 .. Len(delivered) :
          /\ delivered[j].message = q[j]
          /\ disturbed \/ delivered[j].payload = original(q[j])

\* Only what has been delivered is answered.
Answered(first, q) ==
    /\ \A id \in rx.held : \E i \in 1 .. Len(delivered) : id = IdAt(first, i)
    /\ \A j \in 1 .. Len(back) :
          back[j].type = "DISPOSITION" =>
             \E i \in 1 .. Len(delivered) :
                back[j].first = IdAt(first, i) /\ back[j].last = IdAt(first, i)
    /\ \A m \in 1 .. Len(tx.sends) :
          tx.sends[m].state = "OK" => \E i \in 1 .. Len(delivered) : q[i] = m

\* A FLOW says how far the receiver had counted and how many it takes from there;
\* each allows at least what those ahead of it do.
Allows(first, t, g, f, a, b) ==
    \/ f.type = "DISPOSITION" /\ b = a
    \/ /\ f.type \in {"FLOW", "LINK_FLOW"}
       /\ a <= b /\ b <= g /\ f.incoming_window <= INCOMING_WINDOW
       /\ \E u \in 0 .. t : /\ f.next_incoming_id = (first + u) % MOD
                            /\ b = u + f.incoming_window

Backward(first, t, g) ==
    {r \in Answer \X Nat \X Nat : Allows(first, t, g, r[1], r[2], r[3])}

\* As long as no message is split, ids count frames, and what the sender may
\* still send and what the FLOWs under way allow is within what was granted.
Windows(first, q) ==
    \/ split
    \/ /\ written = Len(q) /\ taken = Len(delivered)
       /\ \A j \in 1 .. Len(forth) : forth[j].type = "TRANSFER" => ~forth[j].more
       /\ rx.next_incoming_id = (first + taken) % MOD
       /\ rx.incoming_window <= INCOMING_WINDOW
       /\ written + tx.remote_incoming_window <= granted
       /\ \E e \in Nat : /\ Path(Nat, Backward(first, taken, granted), back,
                                 written + tx.remote_incoming_window, e)
                         /\ e <= taken + rx.incoming_window

\* A message waits only if the link is busy.
Idle == disturbed \/ waiting(tx) = {} \/ room(tx) = 0

InOrderFrom(first, q) ==
    /\ Sender(first, q, disturbed, tx)
    /\ UnderWay(first, q) /\ Given(q) /\ Answered(first, q) /\ Windows(first, q)

TransfersInv ==
    /\ TransferTypeInv
    /\ Idle
    /\ \E first \in Nat : \E q \in Seq(Message) : InOrderFrom(first, q)

\* What Backward says of a FLOW.
LEMMA AllowsIs ==
    ASSUME NEW first, NEW t, NEW g, NEW f \in Answer, NEW a \in Nat, NEW b \in Nat
    PROVE  <<f, a, b>> \in Backward(first, t, g) <=> Allows(first, t, g, f, a, b)
BY DEF Backward

\* What was allowed stays allowed.
LEMMA BackwardGrows ==
    ASSUME NEW first, NEW t \in Nat, NEW g \in Nat, NEW u \in Nat, NEW h \in Nat, t <= u, g <= h,
           NEW F \in Seq(Answer), NEW a, NEW b, Path(Nat, Backward(first, t, g), F, a, b)
    PROVE  Path(Nat, Backward(first, u, h), F, a, b)
<1> DEFINE Q == Backward(first, t, g)
           R == Backward(first, u, h)
<1>1. ASSUME NEW f \in Answer, NEW v \in Nat, NEW w \in Nat, Allows(first, t, g, f, v, w)
      PROVE  Allows(first, u, h, f, v, w)
    <2>1. 0 .. t \subseteq 0 .. u
        OBVIOUS
    <2>2. w <= g => w <= h
        OBVIOUS
    <2> QED BY <1>1, <2>1, <2>2 DEF Allows
<1>2. ASSUME NEW k \in 1 .. Len(F), NEW v \in Nat, NEW w \in Nat, <<F[k], v, w>> \in Q
      PROVE  <<F[k], v, w>> \in R
    <2>1. F[k] \in Answer
        OBVIOUS
    <2>2. Allows(first, t, g, F[k], v, w)
        BY <1>2, <2>1, AllowsIs
    <2>3. Allows(first, u, h, F[k], v, w)
        BY <1>1, <2>1, <2>2
    <2> QED BY <2>1, <2>3, AllowsIs
<1> HIDE DEF Q, R
<1>3. Path(Nat, Q, F, a, b)
    BY DEF Q
<1>4. Path(Nat, R, F, a, b)
    BY <1>2, <1>3, PathIn
<1> QED BY <1>4 DEF R

\* What the sending side leaves when its frames are written.
Rest(E) == [E EXCEPT !.out = <<>>]

\* The sending side at rest is a sender.
LEMMA RestsSender ==
    ASSUME NEW first, NEW y, NEW e, NEW E, Sender(first, y, e, E), E.broken = {},
           tx' = Rest(E)
    PROVE  /\ Sender(first, y, e, tx') /\ tx'.sends = E.sends
           /\ tx'.remote_incoming_window = E.remote_incoming_window
           /\ waiting(tx') = waiting(E) /\ room(tx') = room(E)
<1> DEFINE T == Rest(E)
<1>1. E \in TxRecord /\ Sending(E) /\ <<>> \in Seq(Frame)
    BY DEF Sender, Sending
<1>2. /\ T \in TxRecord /\ T.sends = E.sends /\ T.broken = E.broken
      /\ T.next_outgoing_id = E.next_outgoing_id /\ T.deliveries = E.deliveries
      /\ T.remote_incoming_window = E.remote_incoming_window
      /\ T.current_link_credit = E.current_link_credit
    BY <1>1 DEF TxRecord, Rest
<1>3. tx' = T
    OBVIOUS
<1> HIDE DEF T
<1>4. waiting(T) = waiting(E) /\ room(T) = room(E)
    BY <1>2 DEF waiting, room
<1>5. Sending(T)
    BY <1>1, <1>2 DEF Sending
<1>6. Sender(first, y, e, T)
    BY <1>2, <1>4, <1>5 DEF Sender
<1> QED BY <1>2, <1>3, <1>4, <1>6

\* An action of the sending side, with the sender E when its frames are written,
\* which sends of the messages s, and the answers B that are then under way.
Finishes(first, q, e, s, g, E, B) ==
    /\ disturbed => e
    /\ disturbed' = e
    /\ g \in Nat /\ E \in Carrying(first, q, e, s, g) /\ tx_writes(E)
    /\ Len(tx.sends) <= Len(s)
    /\ \A m \in 1 .. Len(tx.sends) : /\ s[m].payload = tx.sends[m].payload
                                     /\ s[m].state = "OK" <=> tx.sends[m].state = "OK"
    /\ \A m \in 1 .. Len(s) : m > Len(tx.sends) => s[m].state # "OK"
    /\ UNCHANGED <<rx, delivered, taken, granted>>
    /\ B \in Seq(Answer) /\ back' = B
    /\ \A j \in 1 .. Len(B) : \E i \in 1 .. Len(back) : B[j] = back[i]
    /\ split \/ ( /\ g <= granted
                  /\ \E z \in Nat : /\ Path(Nat, Backward(first, taken, granted), B, g, z)
                                    /\ z <= taken + rx.incoming_window )
    /\ e \/ waiting(E) = {} \/ room(E) = 0

\* At the end of such an action.
LEMMA SenderKeeps ==
    ASSUME TransferTypeInv, NEW first \in Nat, NEW q \in Seq(Message), InOrderFrom(first, q),
           NEW e, NEW s, NEW g, NEW E, NEW B, Finishes(first, q, e, s, g, E, B)
    PROVE  Idle' /\ \E y \in Seq(Message) : InOrderFrom(first, y)'
<1> SUFFICES
      ASSUME disturbed => e, disturbed' = e, g \in Nat, E \in Carrying(first, q, e, s, g),
             tx_writes(E), Len(tx.sends) <= Len(s),
             \A m \in 1 .. Len(tx.sends) : /\ s[m].payload = tx.sends[m].payload
                                           /\ s[m].state = "OK" <=> tx.sends[m].state = "OK",
             \A m \in 1 .. Len(s) : m > Len(tx.sends) => s[m].state # "OK",
             UNCHANGED <<rx, delivered, taken, granted>>,
             B \in Seq(Answer), back' = B,
             \A j \in 1 .. Len(B) : \E i \in 1 .. Len(back) : B[j] = back[i],
             split \/ ( /\ g <= granted
                       /\ \E z \in Nat : /\ Path(Nat, Backward(first, taken, granted), B, g, z)
                                         /\ z <= taken + rx.incoming_window ),
             e \/ waiting(E) = {} \/ room(E) = 0
      PROVE  Idle' /\ \E y \in Seq(Message) : InOrderFrom(first, y)'
    BY DEF Finishes
<1>1. PICK x \in Seq(Message) : Carried(first, q, e, x, s, g, E)
    BY DEF Carrying
<1> DEFINE y == q \o x
           t == E.sends
           r == Len(delivered)
           N == Len(tx.sends)
<1>2. /\ E.broken = {} /\ tx' = Rest(E) /\ forth' = forth \o E.out
      /\ written' = written + Len(E.out)
      /\ split' = (split \/ \E k \in DOMAIN E.out : E.out[k].more)
    BY DEF tx_writes, Rest
<1>3. /\ Sender(first, y, e, E) /\ E.out \in Seq(TransferFrame)
      /\ Len(q) + Len(x) + E.remote_incoming_window = g
      /\ Path(Cursor, Onward(first, y, t, e), E.out, <<Len(q), 0>>, <<Len(q) + Len(x), 0>>)
      /\ Len(t) = Len(s)
      /\ \A m \in 1 .. Len(s) : /\ t[m].payload = s[m].payload
                                /\ t[m].state = "OK" <=> s[m].state = "OK"
    BY <1>1 DEF Carried
<1>4. /\ Sender(first, q, disturbed, tx) /\ UnderWay(first, q) /\ Given(q)
      /\ Answered(first, q) /\ Windows(first, q)
    BY DEF InOrderFrom
<1>5. /\ y \in Seq(Message) /\ Len(q) \in Nat /\ Len(x) \in Nat
      /\ Len(y) = Len(q) + Len(x)
      /\ \A i \in 1 .. Len(q) : y[i] = q[i] /\ i \in 1 .. Len(y)
    <2>1. y \in Seq(Message) /\ Len(q) \in Nat /\ Len(x) \in Nat /\ Len(y) = Len(q) + Len(x)
        OBVIOUS
    <2>2. \A i \in 1 .. Len(q) : y[i] = q[i]
        OBVIOUS
    <2> HIDE DEF y
    <2>3. \A i \in 1 .. Len(q) : i \in 1 .. Len(y)
        BY <2>1
    <2> QED BY <2>1, <2>2, <2>3
<1> HIDE DEF y
<1>6. /\ Sender(first, y, e, tx') /\ tx'.sends = t
      /\ tx'.remote_incoming_window = E.remote_incoming_window
      /\ waiting(tx') = waiting(E) /\ room(tx') = room(E)
    <2>1. Sender(first, y, e, E)
        BY <1>3
    <2>2. E.broken = {} /\ tx' = Rest(E)
        BY <1>2
    <2> QED BY <2>1, <2>2, RestsSender
<1>7. /\ forth \in Seq(Frame) /\ E.out \in Seq(Frame)
      /\ N \in Nat /\ r \in Nat /\ written \in Nat /\ taken \in Nat
    BY <1>3, <1>4, SenderParts, SMTT(60) DEF TransferTypeInv, TransferTypeOK, TransferFrame
<1>8. \A i \in 1 .. Len(q) : q[i] \in 1 .. N
    BY <1>4, SenderParts
<1> HIDE DEF t
<1>9. \A m \in 1 .. N : t[m].payload = tx.sends[m].payload
    <2>1. Len(s) \in Nat
        BY <1>3, SenderParts DEF t
    <2>2. \A m \in 1 .. N : m \in 1 .. Len(s)
        BY <1>7, <2>1
    <2> QED BY <1>3, <2>2
<1>10. Given(q) => r <= Len(q)
    BY DEF Given
<1>11. Idle'
    BY <1>6 DEF Idle
<1>12. UnderWay(first, y)'
    <2>1. PICK k \in Nat : /\ Path(Cursor, Onward(first, q, tx.sends, disturbed), forth,
                                   <<r, k>>, <<Len(q), 0>>)
                           /\ disturbed \/ Gathered(q, k)
        BY <1>4 DEF UnderWay
    <2>2. \A i \in 1 .. Len(q) : t[q[i]].payload = tx.sends[q[i]].payload
        BY <1>8, <1>9
    <2>3. Path(Cursor, Onward(first, y, t, e), forth, <<r, k>>, <<Len(q), 0>>)
        BY <1>7, <2>1, <2>2, OnwardGrows DEF y
    <2>4. Path(Cursor, Onward(first, y, t, e), forth \o E.out, <<r, k>>, <<Len(y), 0>>)
        BY <1>3, <1>5, <1>7, <2>3, PathJoin
    <2>5. e \/ Gathered(y, k)'
        <3>1. CASE k = 0 /\ rx.received_payload = <<>>
            BY <3>1 DEF Gathered
        <3>2. CASE /\ k > 0 /\ r < Len(q)
                   /\ k < Len(split_of[tx.sends[q[r + 1]].payload])
                   /\ rx.received_payload =
                         named(q[r + 1], Joined(BytesOf(split_of[tx.sends[q[r + 1]].payload]), k))
            <4>1. r + 1 \in 1 .. Len(q)
                BY <1>5, <1>7, <3>2, SMTT(60)
            <4>2. y[r + 1] = q[r + 1] /\ t[q[r + 1]].payload = tx.sends[q[r + 1]].payload
                BY <1>5, <2>2, <4>1
            <4>3. r < Len(y)
                BY <1>5, <1>7, <3>2
            <4> QED BY <1>6, <3>2, <4>2, <4>3 DEF Gathered
        <3> QED BY <2>1, <3>1, <3>2 DEF Gathered
    <2> QED BY <1>2, <1>6, <2>4, <2>5 DEF UnderWay
<1>13. Given(y)'
    <2>1. r <= Len(y)
        BY <1>4, <1>5, <1>7, <1>10
    <2>2. ASSUME NEW j \in 1 .. r
          PROVE  /\ delivered[j].message = y[j]
                 /\ e \/ delivered[j].payload = original(y[j])'
        <3>1. j \in 1 .. Len(q)
            BY <1>4, <1>5, <1>7, <1>10
        <3>2. y[j] = q[j] /\ t[q[j]].payload = tx.sends[q[j]].payload
            BY <1>5, <1>8, <1>9, <3>1
        <3>3. original(y[j])' = original(q[j])
            BY <1>6, <3>2 DEF original
        <3> QED BY <1>4, <3>2, <3>3 DEF Given
    <2> QED BY <2>1, <2>2 DEF Given
<1>14. Answered(first, y)'
    <2>1. ASSUME NEW j \in 1 .. Len(B), B[j].type = "DISPOSITION"
          PROVE  \E i \in 1 .. r : B[j].first = IdAt(first, i) /\ B[j].last = IdAt(first, i)
        <3>1. PICK i \in 1 .. Len(back) : B[j] = back[i]
            OBVIOUS
        <3> QED BY <1>4, <2>1, <3>1 DEF Answered
    <2>2. ASSUME NEW m \in 1 .. Len(t), t[m].state = "OK"
          PROVE  \E i \in 1 .. r : y[i] = m
        <3>1. m \in 1 .. Len(s) /\ s[m].state = "OK"
            BY <1>3, <2>2
        <3>2. m \in 1 .. N
            BY <1>7, <3>1
        <3>3. tx.sends[m].state = "OK"
            BY <3>1, <3>2
        <3>4. PICK i \in 1 .. r : q[i] = m
            BY <1>4, <3>2, <3>3 DEF Answered
        <3>5. i \in 1 .. Len(q)
            BY <1>4, <1>5, <1>7, <1>10
        <3> QED BY <1>5, <3>4, <3>5
    <2>3. \A id \in rx.held : \E i \in 1 .. r : id = IdAt(first, i)
        BY <1>4 DEF Answered
    <2> QED BY <1>6, <2>1, <2>2, <2>3 DEF Answered
<1>15. Windows(first, y)'
    <2>1. CASE split'
        BY <2>1 DEF Windows
    <2>2. CASE ~split'
        <3>1. ~split /\ \A k \in 1 .. Len(E.out) : ~E.out[k].more
            <4>1. DOMAIN E.out = 1 .. Len(E.out)
                BY <1>7
            <4> QED BY <1>2, <2>2, <4>1
        <3>2. Len(E.out) = Len(x)
            <4> DEFINE a == <<Len(q), 0>>
                       b == <<Len(q) + Len(x), 0>>
            <4>1. a[1] = Len(q) /\ b[1] = Len(q) + Len(x)
                OBVIOUS
            <4> HIDE DEF a, b
            <4> DEFINE F == E.out
            <4>2. /\ Path(Cursor, Onward(first, y, t, e), F, a, b)
                  /\ F \in Seq(TransferFrame) /\ \A k \in 1 .. Len(F) : ~F[k].more
                BY <1>3, <3>1 DEF a, b
            <4>3. Len(F) \in Nat
                BY <1>7
            <4> HIDE DEF F
            <4>4. b[1] = a[1] + Len(F)
                BY <4>2, PathCounts, SMTT(60)
            <4>5. Len(F) = Len(x)
                BY <1>5, <4>1, <4>3, <4>4
            <4> QED BY <4>5 DEF F
        <3>3. /\ written = Len(q) /\ taken = r
              /\ \A j \in 1 .. Len(forth) : forth[j].type = "TRANSFER" => ~forth[j].more
              /\ rx.next_incoming_id = (first + taken) % MOD
              /\ rx.incoming_window <= INCOMING_WINDOW
            BY <1>4, <3>1 DEF Windows
        <3> DEFINE v == written + Len(E.out)
        <3>4. v = Len(y) /\ v + E.remote_incoming_window = g
            BY <1>3, <1>5, <3>2, <3>3
        <3>5. \A j \in 1 .. Len(forth') : forth'[j].type = "TRANSFER" => ~forth'[j].more
            <4> DEFINE F == E.out
                       G == forth
            <4>1. /\ F \in Seq(Frame) /\ G \in Seq(Frame)
                  /\ \A k \in 1 .. Len(F) : ~F[k].more
                  /\ \A j \in 1 .. Len(G) : G[j].type = "TRANSFER" => ~G[j].more
                BY <1>7, <3>1, <3>3
            <4>2. forth' = G \o F
                BY <1>2
            <4> HIDE DEF F, G
            <4>3. \A j \in 1 .. Len(G \o F) :
                     j \in 1 .. Len(G) \/ \E k \in 1 .. Len(F) : j = Len(G) + k
                BY <4>1, Behind
            <4>4. /\ \A j \in 1 .. Len(G) : (G \o F)[j] = G[j]
                  /\ \A k \in 1 .. Len(F) : (G \o F)[Len(G) + k] = F[k]
                BY <4>1, Behind
            <4> DEFINE y2 == G \o F
            <4>5. \A j \in 1 .. Len(y2) : y2[j].type = "TRANSFER" => ~y2[j].more
                BY <4>1, <4>3, <4>4
            <4> QED BY <4>2, <4>5
        <3> HIDE DEF v
        <3>6. written' = v
            BY <1>2 DEF v
        <3>7. PICK z \in Nat : /\ Path(Nat, Backward(first, taken, granted), B, g, z)
                               /\ z <= taken + rx.incoming_window
            BY <3>1
        <3>8. v + tx'.remote_incoming_window = g
            BY <1>6, <3>4
        <3>9. /\ Path(Nat, Backward(first, taken, granted), B, v + tx'.remote_incoming_window, z)
              /\ v + tx'.remote_incoming_window <= granted
            BY <3>1, <3>7, <3>8
        <3> QED BY <3>3, <3>4, <3>5, <3>6, <3>7, <3>9 DEF Windows
    <2> QED BY <2>1, <2>2
<1>16. InOrderFrom(first, y)'
    BY <1>6, <1>12, <1>13, <1>14, <1>15 DEF InOrderFrom
<1> QED BY <1>5, <1>11, <1>16

\* Something fails in an action if a frame cannot be built, and failures stay.
LEMMA Disturbs ==
    ASSUME TransferTypeInv, NEW B, Breaks(B)
    PROVE  \E e \in BOOLEAN : /\ disturbed' = e
                              /\ disturbed => e
                              /\ e \/ B = {}
<1> DEFINE e == disturbed'
<1>1. e \in BOOLEAN
    BY DEF disturbed
<1>2. faults \in 0 .. MaxFaults /\ MaxFaults \in Nat
    BY TypeParts, TransfersAssumption DEF TransferTypeInv, TransfersAssumption
<1>3. (disturbed => e) /\ (e \/ B = {})
    <2>1. PICK f : f = faults'
        OBVIOUS
    <2>2. f = IF B = {} THEN faults ELSE faults - 1
        BY <2>1 DEF Breaks
    <2>3. e <=> f < MaxFaults
        BY <2>1 DEF disturbed
    <2>4. B = {} => (faults < MaxFaults => f < MaxFaults)
        BY <2>2
    <2>5. B # {} => f < MaxFaults
        BY <1>2, <2>2
    <2> HIDE DEF e
    <2> QED BY <2>3, <2>4, <2>5 DEF disturbed
<1> QED BY <1>1, <1>3

\* The sender when an action of it begins.
LEMMA Starts ==
    ASSUME NEW first \in Nat, NEW q, Sender(first, q, disturbed, tx),
           NEW e, disturbed => e, NEW K, Sending(K), K.out = <<>>, e \/ K.broken = {},
           K.next_outgoing_id = tx.next_outgoing_id, K.deliveries = tx.deliveries,
           Len(tx.sends) <= Len(K.sends),
           \A m \in 1 .. Len(tx.sends) : K.sends[m] = tx.sends[m],
           \A m \in 1 .. Len(K.sends) : m > Len(tx.sends) => K.sends[m].state = "NOT_SENT"
    PROVE  K \in Carrying(first, q, e, K.sends, Len(q) + K.remote_incoming_window)
<1> DEFINE N == Len(tx.sends)
           M == Len(K.sends)
           y == q \o <<>>
<1>1. /\ K \in TxRecord /\ K.sends \in Seq(Send) /\ K.remote_incoming_window \in Nat
      /\ q \in Seq(Message) /\ M \in Nat /\ DOMAIN K.sends = 1 .. M
    <2>1. K \in TxRecord
        BY DEF Sending
    <2>2. K.sends \in Seq(Send) /\ K.remote_incoming_window \in Nat
        BY <2>1, Numbers DEF TxRecord
    <2>3. q \in Seq(Message)
        BY SenderParts
    <2> QED BY <2>1, <2>2, <2>3
<1>2. /\ N \in Nat /\ DOMAIN tx.sends = 1 .. N /\ N <= M
      /\ \A i \in 1 .. Len(q) : q[i] \in 1 .. N
    BY SenderParts
<1> HIDE DEF N, M
<1>3. /\ y = q /\ Len(<<>>) = 0 /\ <<>> \in Seq(Message) /\ Len(q) \in Nat
      /\ <<>> \in Seq(TransferFrame)
    BY <1>1, ConcatEmptySeq
<1>4. \A m \in 1 .. M : m \in 1 .. N \/ (m > N /\ K.sends[m].state = "NOT_SENT")
    BY <1>1, <1>2 DEF N, M
<1>5. ASSUME NEW m \in DOMAIN K.sends
      PROVE  K.sends[m].state \in {"PENDING", "OK"} <=> \E i \in 1 .. Len(q) : q[i] = m
    <2>1. CASE m \in 1 .. N
        BY <1>2, <2>1 DEF Sender, N
    <2>2. CASE m > N /\ K.sends[m].state = "NOT_SENT"
        BY <1>2, <2>2
    <2> QED BY <1>1, <1>4, <2>1, <2>2
<1>6. ASSUME ~e
      PROVE  /\ K.broken = {} /\ \A i, j \in 1 .. Len(q) : i < j => q[i] < q[j]
             /\ \A m \in waiting(K) : \A i \in 1 .. Len(q) : q[i] < m
    <2>1. ~disturbed /\ K.broken = {}
        BY <1>6
    <2>2. /\ \A i, j \in 1 .. Len(q) : i < j => q[i] < q[j]
          /\ \A m \in waiting(tx) : \A i \in 1 .. Len(q) : q[i] < m
        BY <2>1 DEF Sender
    <2>3. ASSUME NEW m \in waiting(K), NEW i \in 1 .. Len(q) PROVE q[i] < m
        <3>1. m \in 1 .. M /\ K.sends[m].state = "NOT_SENT"
            BY <1>1 DEF waiting
        <3>2. CASE m \in 1 .. N
            <4>1. m \in waiting(tx)
                BY <1>2, <3>1, <3>2 DEF waiting, N
            <4> QED BY <2>2, <4>1
        <3>3. CASE m > N
            BY <1>2, <3>1, <3>3
        <3> QED BY <1>4, <3>1, <3>2, <3>3
    <2> QED BY <2>1, <2>2, <2>3
<1>7. \A i \in 1 .. Len(q) : q[i] \in DOMAIN K.sends
    BY <1>1, <1>2
<1>8. Sender(first, q, e, K)
    BY <1>1, <1>5, <1>6, <1>7, ZenonT(60) DEF Sender
<1>9. Path(Cursor, Onward(first, y, K.sends, e), K.out,
           <<Len(q), 0>>, <<Len(q) + Len(<<>>), 0>>)
    <2> DEFINE a == <<Len(q), 0>>
               b == <<Len(q) + Len(<<>>), 0>>
    <2>1. a \in Cursor /\ a = b
        BY <1>3 DEF Cursor
    <2> HIDE DEF a, b
    <2>2. Path(Cursor, Onward(first, y, K.sends, e), K.out, a, b)
        BY <2>1, PathEmpty
    <2> QED BY <2>2 DEF a, b
<1>10. Carried(first, q, e, <<>>, K.sends, Len(q) + K.remote_incoming_window, K)
    BY <1>1, <1>3, <1>8, <1>9 DEF Carried
<1> QED BY <1>1, <1>3, <1>10 DEF Carrying

\* As long as no message is split, what is granted is within reach.
LEMMA WindowReach ==
    ASSUME NEW first, NEW q, Windows(first, q), NEW g, g = Len(q) + tx.remote_incoming_window
    PROVE  split \/ ( /\ g <= granted
                      /\ \E z \in Nat : /\ Path(Nat, Backward(first, taken, granted), back, g, z)
                                        /\ z <= taken + rx.incoming_window )
<1>1. CASE split
    BY <1>1
<1>2. CASE ~split
    <2>1. written + tx.remote_incoming_window = g
        BY <1>2 DEF Windows
    <2>2. /\ written + tx.remote_incoming_window <= granted
          /\ \E z \in Nat : /\ Path(Nat, Backward(first, taken, granted), back,
                                    written + tx.remote_incoming_window, z)
                            /\ z <= taken + rx.incoming_window
        BY <1>2 DEF Windows
    <2> QED BY <2>1, <2>2
<1> QED BY <1>1, <1>2

\* messagesender_send_async keeps the invariant.
LEMMA SendKeeps ==
    ASSUME TransfersInv, NEW payload \in Payloads,
           NEW B \in Breakable(Len(tx.sends) + 1, payload),
           messagesender_send_async(payload, B)
    PROVE  TransfersInv'
<1> DEFINE K == [tx EXCEPT !.sends = Append(@, [payload |-> payload, state |-> "NOT_SENT"]),
                           !.broken = B]
           M == Len(K.sends)
           N == Len(tx.sends)
           E == transfers(K, {M})
<1>1. /\ Len(tx.sends) < MaxMessages /\ Breaks(B) /\ tx_writes(E)
      /\ UNCHANGED <<rx, back, delivered, taken, granted, flows>>
    BY DEF messagesender_send_async
<1>2. TransferTypeInv /\ Idle
    BY DEF TransfersInv
<1>3. PICK first \in Nat : \E q \in Seq(Message) : InOrderFrom(first, q)
    BY DEF TransfersInv
<1>4. PICK q \in Seq(Message) : InOrderFrom(first, q)
    BY <1>3
<1>5. PICK e \in BOOLEAN : disturbed' = e /\ (disturbed => e) /\ (e \/ B = {})
    BY <1>1, <1>2, Disturbs
<1>6. /\ Sending(K) /\ K.broken = B /\ K.out = <<>>
      /\ M = N + 1 /\ M \in DOMAIN K.sends
      /\ \A m \in 1 .. N : K.sends[m] = tx.sends[m]
      /\ K.sends[M] = [payload |-> payload, state |-> "NOT_SENT"]
      /\ K.next_outgoing_id = tx.next_outgoing_id
      /\ K.remote_incoming_window = tx.remote_incoming_window
      /\ K.current_link_credit = tx.current_link_credit
      /\ K.deliveries = tx.deliveries
    BY <1>1, <1>2, TakesMessage, ZenonT(60)
<1> HIDE DEF K
<1>7. Sender(first, q, disturbed, tx) /\ Windows(first, q)
    BY <1>4 DEF InOrderFrom
<1>8. /\ N \in Nat /\ DOMAIN tx.sends = 1 .. N /\ Len(q) \in Nat
      /\ tx.remote_incoming_window \in Nat
    BY <1>7, SenderParts
<1>9. M \in Nat /\ DOMAIN K.sends = 1 .. M
    <2>1. K.sends \in Seq(Send)
        BY <1>6 DEF Sending, TxRecord
    <2> QED BY <2>1
<1> HIDE DEF M
<1>10. \A m \in 1 .. M : m \in 1 .. N \/ m = M
    BY <1>6, <1>8, <1>9
<1>11. K.sends[M].state = "NOT_SENT"
    BY <1>6
<1>12. \A m \in 1 .. M : m > N => K.sends[m].state = "NOT_SENT"
    BY <1>8, <1>10, <1>11
<1> DEFINE g == Len(q) + K.remote_incoming_window
           s == K.sends
<1>13. K \in Carrying(first, q, e, s, g)
    <2>1. N <= M
        BY <1>6, <1>8
    <2> QED BY <1>5, <1>6, <1>7, <1>12, <2>1, Starts DEF M
<1>14. {M} \in SUBSET waiting(K)
    BY <1>6, <1>11 DEF waiting
<1>15. e \/ {M} = waiting(K) \/ room(K) = 0
    <2>1. CASE disturbed
        BY <1>5, <2>1
    <2>2. CASE room(tx) = 0
        BY <1>6, <2>2 DEF room
    <2>3. CASE waiting(tx) = {}
        <3>1. \A m \in 1 .. N : K.sends[m].state # "NOT_SENT"
            BY <1>6, <1>8, <2>3 DEF waiting
        <3>2. waiting(K) \subseteq {M}
            BY <1>9, <1>10, <3>1 DEF waiting
        <3> QED BY <1>14, <3>2
    <2> QED BY <1>2, <2>1, <2>2, <2>3 DEF Idle
<1>16. /\ E \in Carrying(first, q, e, s, g)
       /\ e \/ waiting(E) = {} \/ room(E) = 0
    <2> HIDE DEF s, g
    <2>1. E \in Carrying(first, q, e, s, g)
        BY <1>13, <1>14, <1>15, CarriesOn
    <2>2. e \/ waiting(E) = {} \/ room(E) = 0
        BY <1>13, <1>14, <1>15, CarriesOn
    <2> QED BY <2>1, <2>2
<1>17. g = Len(q) + tx.remote_incoming_window /\ g \in Nat
    BY <1>6, <1>8
<1> HIDE DEF g, E
<1>18. split \/ ( /\ g <= granted
                  /\ \E z \in Nat : /\ Path(Nat, Backward(first, taken, granted), back, g, z)
                                    /\ z <= taken + rx.incoming_window )
    BY <1>7, <1>17, WindowReach
<1>19. back \in Seq(Answer)
    BY <1>2 DEF TransferTypeInv, TransferTypeOK
<1>20. Idle' /\ \E y \in Seq(Message) : InOrderFrom(first, y)'
    <2>1. /\ N <= Len(s)
          /\ \A m \in 1 .. N : /\ s[m].payload = tx.sends[m].payload
                               /\ s[m].state = "OK" <=> tx.sends[m].state = "OK"
          /\ \A m \in 1 .. Len(s) : m > N => s[m].state # "OK"
        BY <1>6, <1>8, <1>9, <1>12 DEF M
    <2> HIDE DEF s
    <2> DEFINE C == back
    <2>2. /\ C \in Seq(Answer) /\ back' = C
          /\ \A j \in 1 .. Len(C) : \E i \in 1 .. Len(back) : C[j] = back[i]
          /\ split \/ ( /\ g <= granted
                        /\ \E z \in Nat : /\ Path(Nat, Backward(first, taken, granted), C, g, z)
                                          /\ z <= taken + rx.incoming_window )
        BY <1>1, <1>18, <1>19
    <2> HIDE DEF C
    <2>3. disturbed' = e /\ (disturbed => e)
        BY <1>5
    <2>4. UNCHANGED <<rx, delivered, taken, granted>>
        BY <1>1
    <2>5. tx_writes(E)
        BY <1>1
    <2>6. Finishes(first, q, e, s, g, E, C)
        BY <1>16, <1>17, <2>1, <2>2, <2>3, <2>4, <2>5 DEF Finishes
    <2> QED BY <1>2, <1>4, <2>6, SenderKeeps
<1>21. TransferTypeInv'
    BY <1>2, SendTypes
<1> QED BY <1>20, <1>21 DEF TransfersInv

\* A window of n that is counted from u, by one who has counted up to l.
WindowLeft(first, u, n, l) == Difference(MOD, first + u, n, first + l)

\* session.c counts the window modulo 2^32: what has been sent and the window left
\* are together what the FLOW allows, whatever of the three has wrapped.
LEMMA WindowCounts ==
    ASSUME NEW first \in Nat, NEW u \in Nat, NEW l \in Nat, NEW n \in Nat,
           u <= l, l <= u + n, n < MOD
    PROVE  l + WindowLeft(first, u, n, l) = u + n
<1>1. MOD \in Nat /\ MOD > 0
    BY Numbers
<1>2. PICK M \in Nat : M = MOD /\ M > 0
    BY <1>1
<1>3. PICK x \in Int : x = first + u
    OBVIOUS
<1>4. PICK y \in Int : y = first + l
    OBVIOUS
<1> DEFINE r == u + n - l
<1>5. M > 0 /\ x + n - y = r /\ r \in 0 .. M - 1
    BY <1>2, <1>3, <1>4
<1>6. PICK d \in Int, s \in 0 .. M - 1 : x = M * d + s /\ x % M = s
    BY <1>5, Remainder
<1>7. PICK e \in Int, t \in 0 .. M - 1 : y = M * e + t /\ y % M = t
    BY <1>5, Remainder
<1>8. s + n - t = M * (e - d) + r
    BY <1>5, <1>6, <1>7
<1>9. PICK k \in Int : k = e - d
    OBVIOUS
<1> HIDE DEF r
<1>10. (M * k + r) % M = r
    BY <1>5, RemainderIs
<1>11. ((x % M) + n - (y % M)) % M = r
    BY <1>6, <1>7, <1>8, <1>9, <1>10
<1>12. WindowLeft(first, u, n, l) = r
    BY <1>2, <1>3, <1>4, <1>11 DEF WindowLeft, Difference
<1> QED BY <1>12 DEF r

\* The window that a FLOW sets reaches as far as the FLOW allows.
LEMMA FlowReach ==
    ASSUME TransferTypeInv, NEW first \in Nat, NEW q \in Seq(Message), InOrderFrom(first, q),
           back # <<>>, Head(back).type \in {"FLOW", "LINK_FLOW"}, ~split, NEW w,
           w = (Head(back).next_incoming_id + Head(back).incoming_window
                  - tx.next_outgoing_id) % MOD
    PROVE  /\ Len(q) + w <= granted
           /\ \E z \in Nat : /\ Path(Nat, Backward(first, taken, granted), Tail(back),
                                     Len(q) + w, z)
                             /\ z <= taken + rx.incoming_window
<1> DEFINE f == Head(back)
           R == Backward(first, taken, granted)
           a == written + tx.remote_incoming_window
           l == Len(q)
<1>1. /\ Sender(first, q, disturbed, tx) /\ Given(q) /\ Windows(first, q)
    BY DEF InOrderFrom
<1>2. /\ written = l /\ taken = Len(delivered) /\ a <= granted
      /\ \E z \in Nat : Path(Nat, R, back, a, z) /\ z <= taken + rx.incoming_window
    BY <1>1 DEF Windows
<1>3. PICK z \in Nat : Path(Nat, R, back, a, z) /\ z <= taken + rx.incoming_window
    BY <1>2
<1>4. back \in Seq(Answer) /\ taken \in Nat /\ granted \in Nat
    BY DEF TransferTypeInv, TransferTypeOK
<1>5. f \in Answer
    BY <1>4, TailOf
<1>6. l \in Nat /\ tx.remote_incoming_window \in Nat
    BY <1>1, SenderParts
<1>7. a \in Nat /\ l <= a
    BY <1>2, <1>6
<1>8. taken <= l
    BY <1>1, <1>2 DEF Given
<1>9. tx.next_outgoing_id = (first + l) % MOD
    BY <1>1 DEF Sender
<1> HIDE DEF R, a
<1>10. PICK m \in Nat : <<f, a, m>> \in R /\ Path(Nat, R, Tail(back), m, z)
    BY <1>3, <1>4, PathTail
<1>11. Allows(first, taken, granted, f, a, m)
    BY <1>5, <1>7, <1>10, AllowsIs DEF R
<1> HIDE DEF f, l
<1>12. a <= m /\ m <= granted /\ f.incoming_window <= INCOMING_WINDOW
    BY <1>11 DEF Allows, f
<1>13. PICK u \in 0 .. taken : /\ f.next_incoming_id = (first + u) % MOD
                               /\ m = u + f.incoming_window
    BY <1>11 DEF Allows, f
<1>14. f.incoming_window \in Number
    BY <1>4, FlowAtHand DEF f
<1> DEFINE n == f.incoming_window
<1>15. n \in Nat /\ n < MOD /\ n <= INCOMING_WINDOW /\ MOD \in Nat
    BY <1>12, <1>14, Numbers
<1>16. m = u + n
    BY <1>13
<1>17. w = WindowLeft(first, u, n, l)
    BY <1>9, <1>13 DEF f, Difference, WindowLeft
<1> HIDE DEF n
<1>18. u \in Nat /\ l \in Nat
    BY <1>4, <1>6 DEF l
<1>19. u <= l /\ l <= u + n
    BY <1>4, <1>7, <1>8, <1>12, <1>16, <1>18 DEF l
<1>20. l + WindowLeft(first, u, n, l) = u + n
    BY <1>15, <1>18, <1>19, WindowCounts
<1>21. l + w = m
    BY <1>16, <1>17, <1>20
<1> QED BY <1>3, <1>10, <1>12, <1>21 DEF l, R

\* A FLOW, with the passes that it starts, keeps the invariant.
LEMMA FlowKeeps ==
    ASSUME TransfersInv, NEW B, FlowBreaks(B), flow_received(B)
    PROVE  TransfersInv'
<1> DEFINE f == Head(back)
           K == [tx EXCEPT !.broken = B]
           w == (f.next_incoming_id + f.incoming_window - tx.next_outgoing_id) % MOD
           L == session_flow(K, f)
           s == tx.sends
<1>1. /\ back # <<>> /\ f.type \in {"FLOW", "LINK_FLOW"} /\ back' = Tail(back)
      /\ Breaks(B) /\ UNCHANGED <<rx, delivered, taken, granted, flows>>
    BY DEF flow_received
<1>2. TransferTypeInv /\ Idle
    BY DEF TransfersInv
<1>3. PICK first \in Nat : \E q \in Seq(Message) : InOrderFrom(first, q)
    BY DEF TransfersInv
<1>4. PICK q \in Seq(Message) : InOrderFrom(first, q)
    BY <1>3
<1>5. PICK e \in BOOLEAN : disturbed' = e /\ (disturbed => e) /\ (e \/ B = {})
    BY <1>1, <1>2, Disturbs
<1>6. /\ Sending(K) /\ K.broken = B /\ K.sends = s /\ K.out = <<>>
      /\ K.next_outgoing_id = tx.next_outgoing_id
      /\ K.deliveries = tx.deliveries
      /\ w \in Number /\ L = [K EXCEPT !.remote_incoming_window = w]
      /\ Sending(L)
    BY <1>1, <1>2, FlowBegins
<1> HIDE DEF K
<1>7. /\ L.broken = B /\ L.sends = s /\ L.out = <<>>
      /\ L.next_outgoing_id = tx.next_outgoing_id
      /\ L.deliveries = tx.deliveries
      /\ L.remote_incoming_window = w
    BY <1>6 DEF Sending, TxRecord
<1>8. Sender(first, q, disturbed, tx)
    BY <1>4 DEF InOrderFrom
<1>9. Len(q) \in Nat /\ w \in Nat /\ Len(s) \in Nat
    BY <1>6, <1>8, SenderParts, Numbers
<1> HIDE DEF L, w
<1> DEFINE g == Len(q) + w
           Q == Carrying(first, q, e, s, g)
<1>10. L \in Q
    <2>1. \A m \in 1 .. Len(s) : L.sends[m] = tx.sends[m]
        BY <1>7
    <2>2. Len(tx.sends) <= Len(L.sends) /\ ~\E m \in 1 .. Len(L.sends) : m > Len(tx.sends)
        BY <1>7, <1>9
    <2>3. L \in Carrying(first, q, e, L.sends, Len(q) + L.remote_incoming_window)
        BY <1>5, <1>6, <1>7, <1>8, <2>1, <2>2, Starts
    <2> QED BY <1>7, <2>3
<1>11. g \in Nat
    BY <1>9
<1> HIDE DEF g, s
<1>12. \A M \in Q : Sending(M)
    BY DEF Carrying, Carried, Sender
<1>13. \A M \in Q : \A c \in Number : [M EXCEPT !.current_link_credit = c] \in Q
    <2> SUFFICES ASSUME NEW M \in Q, NEW c \in Number
                 PROVE  [M EXCEPT !.current_link_credit = c] \in Q
        OBVIOUS
    <2> QED BY CarriesCredit
<1>14. ASSUME NEW M \in Q
       PROVE  /\ transfers(M, waiting(M)) \in Q
              /\ \/ e \/ waiting(transfers(M, waiting(M))) = {}
                 \/ room(transfers(M, waiting(M))) = 0
    <2> DEFINE S == waiting(M)
               T == transfers(M, S)
    <2>1. S \in SUBSET waiting(M) /\ S = waiting(M)
        OBVIOUS
    <2> HIDE DEF S
    <2>2. T \in Q
        BY <2>1, CarriesOn
    <2>3. e \/ waiting(T) = {} \/ room(T) = 0
        BY <2>1, CarriesOn
    <2> QED BY <2>2, <2>3 DEF S
<1> HIDE DEF Q
<1>15. \E E \in Q : /\ tx_writes(E)
                    /\ \/ \E M \in Q : E = transfers(M, waiting(M))
                       \/ E.remote_incoming_window = 0
    <2>1. session_flow([tx EXCEPT !.broken = B], Head(back)) \in Q
        BY <1>10 DEF L, K
    <2> QED BY <1>2, <1>12, <1>13, <1>14, <2>1, FlowSteps
<1>16. PICK E \in Q : /\ tx_writes(E)
                      /\ \/ \E M \in Q : E = transfers(M, waiting(M))
                         \/ E.remote_incoming_window = 0
    BY <1>15
<1>17. e \/ waiting(E) = {} \/ room(E) = 0
    <2>1. CASE \E M \in Q : E = transfers(M, waiting(M))
        BY <1>14, <2>1
    <2>2. CASE E.remote_incoming_window = 0
        <3>1. E \in TxRecord
            BY <1>12 DEF Sending
        <3>2. room(E) \in Nat /\ room(E) <= 0
            BY <2>2, <3>1, RoomOf
        <3> QED BY <3>2
    <2> QED BY <1>16, <2>1, <2>2
<1> DEFINE C == Tail(back)
<1>18. /\ C \in Seq(Answer) /\ back' = C
       /\ \A j \in 1 .. Len(C) : \E i \in 1 .. Len(back) : C[j] = back[i]
    <2>1. back \in Seq(Answer)
        BY <1>2 DEF TransferTypeInv, TransferTypeOK
    <2>2. /\ C \in Seq(Answer) /\ Len(back) \in Nat /\ Len(C) = Len(back) - 1
          /\ \A i \in 1 .. Len(back) - 1 : C[i] = back[i + 1]
        BY <1>1, <2>1, TailOf
    <2> HIDE DEF C
    <2>3. ASSUME NEW j \in 1 .. Len(C) PROVE \E i \in 1 .. Len(back) : C[j] = back[i]
        <3>1. j + 1 \in 1 .. Len(back) /\ j \in 1 .. Len(back) - 1
            BY <2>2
        <3> QED BY <2>2, <3>1
    <2> QED BY <1>1, <2>2, <2>3 DEF C
<1>19. split \/ ( /\ g <= granted
                  /\ \E z \in Nat : /\ Path(Nat, Backward(first, taken, granted), C, g, z)
                                    /\ z <= taken + rx.incoming_window )
    <2>1. CASE ~split
        BY <1>1, <1>2, <1>4, <2>1, FlowReach DEF g, w
    <2> QED BY <2>1
<1> HIDE DEF C
<1>20. /\ Len(tx.sends) <= Len(s)
       /\ \A m \in 1 .. Len(tx.sends) : /\ s[m].payload = tx.sends[m].payload
                                        /\ s[m].state = "OK" <=> tx.sends[m].state = "OK"
       /\ \A m \in 1 .. Len(s) : m > Len(tx.sends) => s[m].state # "OK"
    BY <1>9 DEF s
<1>21. Finishes(first, q, e, s, g, E, C)
    <2>1. disturbed' = e /\ (disturbed => e)
        BY <1>5
    <2>2. E \in Carrying(first, q, e, s, g)
        BY DEF Q
    <2>3. tx_writes(E) /\ UNCHANGED <<rx, delivered, taken, granted>>
        BY <1>1, <1>16
    <2> QED BY <1>11, <1>17, <1>18, <1>19, <1>20, <2>1, <2>2, <2>3 DEF Finishes
<1>22. Idle' /\ \E y \in Seq(Message) : InOrderFrom(first, y)'
    BY <1>2, <1>4, <1>21, SenderKeeps
<1>23. TransferTypeInv'
    BY <1>2, FlowTypes
<1> QED BY <1>22, <1>23 DEF TransfersInv

\* The sending side between actions is a sender at work.
LEMMA IdleTx ==
    ASSUME NEW L \in TxIdle, Len(L.sends) <= MaxMessages
    PROVE  L \in TxRecord /\ L.out = <<>> /\ L.broken = {} /\ Sending(L)
<1>1. <<>> \in Seq(Frame) /\ {} \in SUBSET Break
    OBVIOUS
<1>2. L \in TxRecord /\ L.out = <<>> /\ L.broken = {}
    BY <1>1 DEF TxIdle, TxRecord
<1> QED BY <1>2 DEF Sending

\* What has been delivered and gathered stays so when the payloads are the same.
LEMMA SamePayloads ==
    ASSUME NEW first, NEW q, Sender(first, q, disturbed, tx), delivered' = delivered,
           \A m \in 1 .. Len(tx.sends) : tx'.sends[m].payload = tx.sends[m].payload,
           disturbed' <=> disturbed, Given(q)
    PROVE  /\ Given(q)'
           /\ rx'.received_payload = rx.received_payload =>
                 \A k : Gathered(q, k) => Gathered(q, k)'
<1> DEFINE r == Len(delivered)
           d == delivered
<1>1. /\ q \in Seq(Message) /\ Len(q) \in Nat
      /\ \A i \in 1 .. Len(q) : q[i] \in 1 .. Len(tx.sends)
    BY SenderParts
<1>2. \A i \in 1 .. Len(q) : tx'.sends[q[i]].payload = tx.sends[q[i]].payload
    BY <1>1
<1>3. \A i \in 1 .. Len(q) : original(q[i])' = original(q[i])
    BY <1>2 DEF original
<1>4. /\ r <= Len(q)
      /\ \A j \in 1 .. r : d[j].message = q[j] /\ (disturbed \/ d[j].payload = original(q[j]))
    BY DEF Given
<1>5. delivered' = d /\ Len(delivered') = r
    OBVIOUS
<1>6. \A j \in 1 .. r : j \in 1 .. Len(q)
    BY <1>1, <1>4
<1> HIDE DEF r, d
<1>7. \A j \in 1 .. r : d[j].message = q[j] /\ (disturbed' \/ d[j].payload = original(q[j])')
    BY <1>3, <1>4, <1>6
<1>8. Given(q)'
    BY <1>4, <1>5, <1>7 DEF Given
<1>9. ASSUME rx'.received_payload = rx.received_payload, NEW k, Gathered(q, k)
      PROVE  Gathered(q, k)'
    <2>1. CASE k = 0 /\ rx.received_payload = <<>>
        BY <1>9, <2>1 DEF Gathered
    <2>2. CASE /\ k > 0 /\ Len(delivered) < Len(q)
               /\ k < Len(split_of[tx.sends[q[Len(delivered) + 1]].payload])
               /\ rx.received_payload =
                     named(q[Len(delivered) + 1],
                           Joined(BytesOf(split_of[tx.sends[q[Len(delivered) + 1]].payload]), k))
        <3>1. CASE Len(delivered) + 1 \in 1 .. Len(q)
            <4>1. tx'.sends[q[Len(delivered) + 1]].payload
                    = tx.sends[q[Len(delivered) + 1]].payload
                BY <1>2, <3>1
            <4> QED BY <1>5, <1>9, <2>2, <4>1 DEF Gathered, r, d
        <3> QED BY <1>1, <2>2, <3>1
    <2> QED BY <1>9, <2>1, <2>2 DEF Gathered
<1> QED BY <1>8, <1>9

\* An answer that is taken from the queue.
LEMMA AnswersLeft ==
    ASSUME NEW first, NEW t \in Nat, NEW g \in Nat, back \in Seq(Answer), back # <<>>,
           Head(back).type = "DISPOSITION", NEW a \in Nat, NEW z,
           Path(Nat, Backward(first, t, g), back, a, z)
    PROVE  Path(Nat, Backward(first, t, g), Tail(back), a, z)
<1> DEFINE R == Backward(first, t, g)
           f == Head(back)
<1>1. f \in Answer
    BY TailOf
<1> HIDE DEF R
<1>2. PICK m \in Nat : <<f, a, m>> \in R /\ Path(Nat, R, Tail(back), m, z)
    BY PathTail DEF R
<1> HIDE DEF f
<1>3. Allows(first, t, g, f, a, m)
    BY <1>1, <1>2, AllowsIs DEF R
<1>4. f.type = "DISPOSITION"
    BY DEF f
<1>5. m = a
    BY <1>3, <1>4 DEF Allows
<1> QED BY <1>2, <1>5 DEF R

\* A DISPOSITION keeps the invariant: it settles the one message that it answers.
LEMMA SettleKeeps ==
    ASSUME TransfersInv, disposition_received
    PROVE  TransfersInv'
<1> DEFINE f == Head(back)
           N == Len(tx.sends)
           r == Len(delivered)
<1>1. /\ back # <<>> /\ f.type = "DISPOSITION" /\ back' = Tail(back)
      /\ UNCHANGED <<rx, forth, delivered, written, taken, granted, split, faults, flows>>
    BY DEF disposition_received
<1>2. TransferTypeInv /\ Idle
    BY DEF TransfersInv
<1>3. PICK first \in Nat : \E q \in Seq(Message) : InOrderFrom(first, q)
    BY DEF TransfersInv
<1>4. PICK q \in Seq(Message) : InOrderFrom(first, q)
    BY <1>3
<1>5. /\ Sender(first, q, disturbed, tx) /\ UnderWay(first, q) /\ Given(q)
      /\ Answered(first, q) /\ Windows(first, q)
    BY <1>4 DEF InOrderFrom
<1>6. /\ back \in Seq(Answer) /\ forth \in Seq(Frame) /\ r \in Nat /\ taken \in Nat
      /\ granted \in Nat /\ written \in Nat
    BY <1>2 DEF TransferTypeInv, TransferTypeOK
<1>7. /\ Len(q) \in Nat /\ N \in Nat /\ DOMAIN tx.sends = 1 .. N
      /\ \A i \in 1 .. Len(q) : q[i] \in 1 .. N
      /\ tx.remote_incoming_window \in Nat
    BY <1>5, SenderParts
<1>8. r <= Len(q) /\ Len(q) < MOD
    BY <1>5, SentBound DEF Given
<1>9. /\ TransferTypeInv'
      /\ \E D \in SUBSET tx.deliveries :
            /\ D = {d \in tx.deliveries : settles(d, f)}
            /\ tx'.deliveries = tx.deliveries \ D
            /\ Len(tx'.sends) = N
            /\ \A m \in 1 .. N :
                  /\ tx'.sends[m].payload = tx.sends[m].payload
                  /\ (\E d \in D : d.message = m) => tx'.sends[m].state = "OK"
                  /\ ~(\E d \in D : d.message = m) => tx'.sends[m] = tx.sends[m]
      /\ tx'.next_outgoing_id = tx.next_outgoing_id
      /\ tx'.remote_incoming_window = tx.remote_incoming_window
      /\ tx'.current_link_credit = tx.current_link_credit
    BY <1>2, SettledTypes
<1>10. PICK D \in SUBSET tx.deliveries :
          /\ D = {d \in tx.deliveries : settles(d, f)}
          /\ tx'.deliveries = tx.deliveries \ D
          /\ Len(tx'.sends) = N
          /\ \A m \in 1 .. N :
                /\ tx'.sends[m].payload = tx.sends[m].payload
                /\ (\E d \in D : d.message = m) => tx'.sends[m].state = "OK"
                /\ ~(\E d \in D : d.message = m) => tx'.sends[m] = tx.sends[m]
    BY <1>9
<1>11. PICK i \in 1 .. r : f.first = IdAt(first, i) /\ f.last = IdAt(first, i)
    <2>1. back[1] = f /\ 1 \in 1 .. Len(back)
        BY <1>1, <1>6, TailOf
    <2> QED BY <1>1, <1>5, <2>1 DEF Answered
<1>12. i \in 1 .. Len(q)
    BY <1>6, <1>7, <1>8
<1> HIDE DEF f
<1>13. ASSUME NEW d \in D PROVE d.message = q[i]
    <2>1. PICK k \in 1 .. Len(q) : d.id = IdAt(first, k) /\ d.message = q[k]
        BY <1>5 DEF Sender
    <2>2. f.first <= d.id /\ d.id <= f.last
        BY <1>10 DEF settles
    <2>3. IdAt(first, i) \in Nat /\ IdAt(first, k) \in Nat
        <3>1. first + i - 1 \in Int /\ first + k - 1 \in Int
            BY <1>6
        <3> QED BY <3>1, Numbers DEF IdAt
    <2>4. IdAt(first, k) = IdAt(first, i)
        BY <1>11, <2>1, <2>2, <2>3
    <2>5. k = i
        BY <1>7, <1>8, <1>12, <2>4, IdsDiffer
    <2> QED BY <2>1, <2>5
<1> DEFINE s == tx.sends
           u == tx'.sends
<1>14. \A m \in 1 .. N : /\ u[m].payload = s[m].payload
                         /\ u[m].state = s[m].state \/ (u[m].state = "OK" /\ m = q[i])
    <2> SUFFICES ASSUME NEW m \in 1 .. N
                 PROVE  /\ u[m].payload = s[m].payload
                        /\ u[m].state = s[m].state \/ (u[m].state = "OK" /\ m = q[i])
        OBVIOUS
    <2>1. CASE \E d \in D : d.message = m
        BY <1>10, <1>13, <2>1
    <2>2. CASE ~(\E d \in D : d.message = m)
        BY <1>10, <2>2
    <2> QED BY <2>1, <2>2
<1>15. disturbed' <=> disturbed
    BY <1>1 DEF disturbed
<1>16. PICK T : T = tx'
    OBVIOUS
<1>17. /\ T \in TxIdle /\ Len(T.sends) = N /\ T.sends = u
       /\ T.deliveries \subseteq tx.deliveries
       /\ T.next_outgoing_id = tx.next_outgoing_id
       /\ T.remote_incoming_window = tx.remote_incoming_window
       /\ T.current_link_credit = tx.current_link_credit
    <2>1. tx' \in TxIdle
        BY <1>9 DEF TransferTypeInv, TransferTypeOK, TxIdle
    <2> QED BY <1>9, <1>10, <1>16, <2>1
<1> HIDE DEF u
<1>18. /\ T \in TxRecord /\ T.broken = {} /\ Sending(T) /\ DOMAIN T.sends = 1 .. N
    <2>1. Len(T.sends) <= MaxMessages
        BY <1>2, <1>17 DEF TransferTypeInv
    <2>2. T.sends \in Seq(Send)
        BY <1>17 DEF TxIdle
    <2> QED BY <1>17, <2>1, <2>2, IdleTx
<1>19. waiting(T) \subseteq waiting(tx) /\ room(T) = room(tx)
    BY <1>7, <1>14, <1>17, <1>18 DEF waiting, room
<1>20. Sender(first, q, disturbed, T)
    <2>1. ASSUME NEW m \in DOMAIN T.sends
          PROVE  T.sends[m].state \in {"PENDING", "OK"} <=> \E k \in 1 .. Len(q) : q[k] = m
        <3>1. m \in 1 .. N
            BY <1>18
        <3>2. s[m].state \in {"PENDING", "OK"} <=> \E k \in 1 .. Len(q) : q[k] = m
            BY <1>5, <1>7, <3>1 DEF Sender
        <3> QED BY <1>12, <1>14, <1>17, <3>1, <3>2
    <2>2. \A k \in 1 .. Len(q) : q[k] \in DOMAIN T.sends
        BY <1>7, <1>18
    <2>3. ~disturbed => /\ T.broken = {}
                        /\ \A k, j \in 1 .. Len(q) : k < j => q[k] < q[j]
                        /\ \A m \in waiting(T) : \A k \in 1 .. Len(q) : q[k] < m
        BY <1>5, <1>18, <1>19 DEF Sender
    <2> QED BY <1>5, <1>17, <1>18, <2>1, <2>2, <2>3 DEF Sender
<1>21. Idle'
    BY <1>2, <1>15, <1>16, <1>19 DEF Idle
<1>22. \A m \in 1 .. Len(tx.sends) : tx'.sends[m].payload = tx.sends[m].payload
    BY <1>10
<1>23. Given(q)' /\ \A k : Gathered(q, k) => Gathered(q, k)'
    BY <1>1, <1>5, <1>15, <1>22, SamePayloads
<1>24. UnderWay(first, q)'
    <2>1. PICK k \in Nat : /\ Path(Cursor, Onward(first, q, tx.sends, disturbed), forth,
                                   <<r, k>>, <<Len(q), 0>>)
                           /\ disturbed \/ Gathered(q, k)
        BY <1>5 DEF UnderWay
    <2>2. \A j \in 1 .. Len(q) : u[q[j]].payload = s[q[j]].payload
        BY <1>7, <1>14
    <2>3. Path(Cursor, Onward(first, q, u, disturbed), forth, <<r, k>>, <<Len(q), 0>>)
        BY <1>6, <2>1, <2>2, OnwardSame
    <2> QED BY <1>1, <1>15, <1>23, <2>1, <2>3 DEF UnderWay, u
<1> DEFINE C == Tail(back)
<1>25. \A j \in 1 .. Len(C) : \E k \in 1 .. Len(back) : C[j] = back[k]
    <2>1. /\ C \in Seq(Answer) /\ Len(back) \in Nat /\ Len(C) = Len(back) - 1
          /\ \A k \in 1 .. Len(back) - 1 : C[k] = back[k + 1]
        BY <1>1, <1>6, TailOf
    <2> HIDE DEF C
    <2> SUFFICES ASSUME NEW j \in 1 .. Len(C) PROVE \E k \in 1 .. Len(back) : C[j] = back[k]
        OBVIOUS
    <2>2. j + 1 \in 1 .. Len(back) /\ j \in 1 .. Len(back) - 1
        BY <2>1
    <2> QED BY <2>1, <2>2
<1>26. Answered(first, q)'
    <2> HIDE DEF C
    <2>1. ASSUME NEW j \in 1 .. Len(C), C[j].type = "DISPOSITION"
          PROVE  \E k \in 1 .. r : C[j].first = IdAt(first, k) /\ C[j].last = IdAt(first, k)
        <3>1. PICK k \in 1 .. Len(back) : C[j] = back[k]
            BY <1>25
        <3> QED BY <1>5, <2>1, <3>1 DEF Answered
    <2>2. ASSUME NEW m \in 1 .. N, u[m].state = "OK"
          PROVE  \E k \in 1 .. r : q[k] = m
        BY <1>5, <1>14, <2>2 DEF Answered
    <2>3. \A id \in rx.held : \E k \in 1 .. r : id = IdAt(first, k)
        BY <1>5 DEF Answered
    <2>4. back' = C /\ Len(tx'.sends) = N /\ tx'.sends = u
        BY <1>1, <1>10 DEF C, u
    <2> QED BY <1>1, <2>1, <2>2, <2>3, <2>4, ZenonT(60) DEF Answered
<1>27. Windows(first, q)'
    <2>1. CASE split
        BY <1>1, <2>1 DEF Windows
    <2>2. CASE ~split
        <3> DEFINE a == written + tx.remote_incoming_window
        <3>1. a \in Nat
            BY <1>6, <1>7
        <3>2. PICK z \in Nat : /\ Path(Nat, Backward(first, taken, granted), back, a, z)
                               /\ z <= taken + rx.incoming_window
            BY <1>5, <2>2 DEF Windows
        <3>3. Path(Nat, Backward(first, taken, granted), C, a, z)
            <4> HIDE DEF a
            <4>1. Head(back).type = "DISPOSITION"
                BY <1>1 DEF f
            <4> QED BY <1>1, <1>6, <3>1, <3>2, <4>1, AnswersLeft
        <3>4. tx'.remote_incoming_window = tx.remote_incoming_window
            BY <1>9
        <3> QED BY <1>1, <1>5, <2>2, <3>2, <3>3, <3>4 DEF Windows
    <2> QED BY <2>1, <2>2
<1>28. InOrderFrom(first, q)'
    BY <1>15, <1>16, <1>20, <1>23, <1>24, <1>26, <1>27 DEF InOrderFrom
<1> QED BY <1>9, <1>21, <1>28 DEF TransfersInv

\* An element at the end of a queue.
LEMMA AppendOf ==
    ASSUME NEW X, NEW s \in Seq(X), NEW x \in X
    PROVE  /\ Append(s, x) = s \o <<x>> /\ <<x>> \in Seq(X) /\ Append(s, x) \in Seq(X)
           /\ Len(s) \in Nat /\ Len(Append(s, x)) = Len(s) + 1
           /\ \A i \in 1 .. Len(s) : Append(s, x)[i] = s[i]
           /\ Append(s, x)[Len(s) + 1] = x
           /\ \A i \in 1 .. Len(s) + 1 : i \in 1 .. Len(s) \/ i = Len(s) + 1
<1>1. /\ Append(s, x) = s \o <<x>> /\ <<x>> \in Seq(X) /\ Append(s, x) \in Seq(X)
      /\ Len(s) \in Nat /\ Len(Append(s, x)) = Len(s) + 1
    OBVIOUS
<1>2. (\A i \in 1 .. Len(s) : Append(s, x)[i] = s[i]) /\ Append(s, x)[Len(s) + 1] = x
    OBVIOUS
<1>3. \A i \in 1 .. Len(s) + 1 : i \in 1 .. Len(s) \/ i = Len(s) + 1
    BY <1>1
<1> QED BY <1>1, <1>2, <1>3

\* One more step at the end of a path.
LEMMA PathAppend ==
    ASSUME NEW C, NEW R, NEW X, NEW s \in Seq(X), NEW x \in X, NEW a, NEW b \in C, NEW c \in C,
           Path(C, R, s, a, b), <<x, b, c>> \in R
    PROVE  Path(C, R, Append(s, x), a, c)
<1>1. Append(s, x) = s \o <<x>> /\ <<x>> \in Seq(X)
    BY AppendOf
<1>2. Path(C, R, <<x>>, b, c)
    BY PathOne
<1> DEFINE t == <<x>>
<1>3. t \in Seq(X) /\ Path(C, R, t, b, c)
    BY <1>1, <1>2
<1> HIDE DEF t
<1>4. Path(C, R, s \o t, a, c)
    BY <1>3, PathJoin
<1> QED BY <1>1, <1>4 DEF t

\* A FLOW of the sending session keeps the invariant,
LEMMA FlowSentKeeps ==
    ASSUME TransfersInv, send_flow
    PROVE  TransfersInv'
<1> DEFINE f == [type |-> "FLOW", next_outgoing_id |-> tx.next_outgoing_id]
           r == Len(delivered)
<1>1. /\ forth' = Append(forth, f)
      /\ UNCHANGED <<tx, rx, back, delivered, written, taken, granted, split, faults>>
    BY DEF send_flow
<1>2. TransferTypeInv /\ Idle
    BY DEF TransfersInv
<1>3. PICK first \in Nat : \E q \in Seq(Message) : InOrderFrom(first, q)
    BY DEF TransfersInv
<1>4. PICK q \in Seq(Message) : InOrderFrom(first, q)
    BY <1>3
<1>5. /\ Sender(first, q, disturbed, tx) /\ UnderWay(first, q) /\ Given(q)
      /\ Answered(first, q) /\ Windows(first, q)
    BY <1>4 DEF InOrderFrom
<1>6. forth \in Seq(Frame) /\ tx.next_outgoing_id \in Number
    BY <1>2 DEF TransferTypeInv, TransferTypeOK
<1>7. Len(q) \in Nat /\ tx.next_outgoing_id = (first + Len(q)) % MOD
    BY <1>5, SenderParts DEF Sender
<1>8. f \in Frame /\ f.type = "FLOW" /\ f.next_outgoing_id = (first + Len(q)) % MOD
    BY <1>6, <1>7 DEF Frame
<1> HIDE DEF f
<1>9. disturbed' <=> disturbed
    BY <1>1 DEF disturbed
<1>10. Given(q)' /\ \A k : Gathered(q, k) => Gathered(q, k)'
    BY <1>1, <1>5, <1>9, SamePayloads
<1>11. UnderWay(first, q)'
    <2> DEFINE R == Onward(first, q, tx.sends, disturbed)
               b == <<Len(q), 0>>
    <2>1. PICK k \in Nat : Path(Cursor, R, forth, <<r, k>>, b) /\ (disturbed \/ Gathered(q, k))
        BY <1>5 DEF UnderWay
    <2>2. b \in Cursor /\ b[1] = Len(q)
        BY <1>7 DEF Cursor
    <2> HIDE DEF b
    <2>3. <<f, b, b>> \in R
        <3>1. Goes(first, q, tx.sends, disturbed, f, b, b)
            BY <1>8, <2>2 DEF Goes
        <3> QED BY <1>8, <2>2, <3>1, OnwardIs
    <2> HIDE DEF R
    <2>4. Path(Cursor, R, Append(forth, f), <<r, k>>, b)
        BY <1>6, <1>8, <2>1, <2>2, <2>3, PathAppend
    <2> QED BY <1>1, <1>9, <1>10, <2>1, <2>4 DEF UnderWay, R, b
<1>12. Windows(first, q)'
    <2>1. CASE split
        BY <1>1, <2>1 DEF Windows
    <2>2. CASE ~split
        <3>1. \A j \in 1 .. Len(forth) : forth[j].type = "TRANSFER" => ~forth[j].more
            BY <1>5, <2>2 DEF Windows
        <3> DEFINE F == Append(forth, f)
        <3>2. /\ Len(F) = Len(forth) + 1 /\ F[Len(forth) + 1] = f
              /\ \A j \in 1 .. Len(forth) : F[j] = forth[j]
              /\ \A j \in 1 .. Len(forth) + 1 : j \in 1 .. Len(forth) \/ j = Len(forth) + 1
            BY <1>6, <1>8, AppendOf
        <3> HIDE DEF F
        <3>3. \A j \in 1 .. Len(F) : F[j].type = "TRANSFER" => ~F[j].more
            BY <1>8, <3>1, <3>2
        <3> QED BY <1>1, <1>5, <2>2, <3>3 DEF Windows, F
    <2> QED BY <2>1, <2>2
<1>13. InOrderFrom(first, q)'
    <2>1. Answered(first, q)' /\ Sender(first, q, disturbed, tx)'
        BY <1>1, <1>5, <1>9 DEF Answered, Sender
    <2> QED BY <1>10, <1>11, <1>12, <2>1 DEF InOrderFrom
<1>14. TransferTypeInv' /\ Idle'
    BY <1>1, <1>2, <1>9, FlowsTypes DEF Idle
<1> QED BY <1>13, <1>14 DEF TransfersInv

\* and so it does when the receiving session takes its number over.
LEMMA FlowSeenKeeps ==
    ASSUME TransfersInv, rx_flow_received
    PROVE  TransfersInv'
<1> DEFINE f == Head(forth)
           r == Len(delivered)
<1>1. /\ forth # <<>> /\ f.type = "FLOW" /\ forth' = Tail(forth)
      /\ rx' = [rx EXCEPT !.next_incoming_id = f.next_outgoing_id]
      /\ UNCHANGED <<tx, back, delivered, written, taken, granted, split, faults, flows>>
    BY DEF rx_flow_received
<1>2. TransferTypeInv /\ Idle
    BY DEF TransfersInv
<1>3. PICK first \in Nat : \E q \in Seq(Message) : InOrderFrom(first, q)
    BY DEF TransfersInv
<1>4. PICK q \in Seq(Message) : InOrderFrom(first, q)
    BY <1>3
<1>5. /\ Sender(first, q, disturbed, tx) /\ UnderWay(first, q) /\ Given(q)
      /\ Answered(first, q) /\ Windows(first, q)
    BY <1>4 DEF InOrderFrom
<1>6. forth \in Seq(Frame) /\ rx \in RxIdle /\ r \in Nat
    BY <1>2, TypeParts DEF TransferTypeInv
<1>7. f \in Frame
    BY <1>1, <1>6, TailOf
<1> HIDE DEF f
<1>8. /\ rx'.next_incoming_id = f.next_outgoing_id
      /\ rx'.incoming_window = rx.incoming_window
      /\ rx'.received_payload = rx.received_payload /\ rx'.held = rx.held
    BY <1>1, <1>6 DEF RxIdle
<1>9. disturbed' <=> disturbed
    BY <1>1 DEF disturbed
<1>10. Given(q)' /\ \A k : Gathered(q, k) => Gathered(q, k)'
    BY <1>1, <1>5, <1>8, <1>9, SamePayloads
<1> DEFINE R == Onward(first, q, tx.sends, disturbed)
<1>11. PICK k \in Nat : /\ Path(Cursor, R, forth, <<r, k>>, <<Len(q), 0>>)
                        /\ disturbed \/ Gathered(q, k)
    BY <1>5 DEF UnderWay
<1> DEFINE a == <<r, k>>
<1>12. a \in Cursor /\ a[1] = r
    BY <1>6 DEF Cursor
<1>13. Path(Cursor, R, forth, a, <<Len(q), 0>>)
    BY <1>11
<1> HIDE DEF a, R
<1>14. PICK m \in Cursor : <<f, a, m>> \in R /\ Path(Cursor, R, Tail(forth), m, <<Len(q), 0>>)
    BY <1>1, <1>6, <1>13, PathTail DEF f
<1>15. Goes(first, q, tx.sends, disturbed, f, a, m)
    BY <1>7, <1>12, <1>14, OnwardIs DEF R
<1>16. m = a /\ f.next_outgoing_id = (first + r) % MOD
    BY <1>1, <1>12, <1>15 DEF Goes, f
<1>17. UnderWay(first, q)'
    BY <1>1, <1>9, <1>10, <1>11, <1>14, <1>16 DEF UnderWay, R, a
<1>18. Windows(first, q)'
    <2>1. CASE split
        BY <1>1, <2>1 DEF Windows
    <2>2. CASE ~split
        <3>1. /\ taken = r
              /\ \A j \in 1 .. Len(forth) : forth[j].type = "TRANSFER" => ~forth[j].more
            BY <1>5, <2>2 DEF Windows
        <3> DEFINE F == Tail(forth)
        <3>2. /\ Len(forth) \in Nat /\ Len(F) = Len(forth) - 1
              /\ \A j \in 1 .. Len(forth) - 1 : F[j] = forth[j + 1]
            BY <1>1, <1>6, TailOf
        <3> HIDE DEF F
        <3>3. ASSUME NEW j \in 1 .. Len(F) PROVE F[j].type = "TRANSFER" => ~F[j].more
            <4>1. j + 1 \in 1 .. Len(forth) /\ j \in 1 .. Len(forth) - 1
                BY <3>2
            <4> QED BY <3>1, <3>2, <4>1
        <3>4. rx'.next_incoming_id = (first + taken) % MOD
            BY <1>8, <1>16, <3>1
        <3>5. forth' = F
            BY <1>1 DEF F
        <3> QED BY <1>1, <1>5, <1>8, <2>2, <3>3, <3>4, <3>5 DEF Windows
    <2> QED BY <2>1, <2>2
<1>19. InOrderFrom(first, q)'
    <2>1. Answered(first, q)' /\ Sender(first, q, disturbed, tx)'
        BY <1>1, <1>5, <1>8, <1>9 DEF Answered, Sender
    <2> QED BY <1>10, <1>17, <1>18, <2>1 DEF InOrderFrom
<1>20. TransferTypeInv' /\ Idle'
    BY <1>1, <1>2, <1>9, FlowsTypes DEF Idle
<1> QED BY <1>19, <1>20 DEF TransfersInv

\* messagereceiver_send_message_disposition keeps the invariant.
LEMMA DisposeKeeps ==
    ASSUME TransfersInv, NEW id \in rx.held, messagereceiver_send_message_disposition(id)
    PROVE  TransfersInv'
<1> DEFINE h == rx.held \ {id}
           f == [type |-> "DISPOSITION", first |-> id, last |-> id]
           r == Len(delivered)
<1>1. /\ rx' = [rx EXCEPT !.held = h] /\ back' = Append(back, f)
      /\ UNCHANGED <<tx, forth, delivered, written, taken, granted, split, faults, flows>>
    BY DEF messagereceiver_send_message_disposition
<1>2. TransferTypeInv /\ Idle
    BY DEF TransfersInv
<1>3. PICK first \in Nat : \E q \in Seq(Message) : InOrderFrom(first, q)
    BY DEF TransfersInv
<1>4. PICK q \in Seq(Message) : InOrderFrom(first, q)
    BY <1>3
<1>5. /\ Sender(first, q, disturbed, tx) /\ UnderWay(first, q) /\ Given(q)
      /\ Answered(first, q) /\ Windows(first, q)
    BY <1>4 DEF InOrderFrom
<1>6. back \in Seq(Answer) /\ rx \in RxIdle /\ rx.incoming_window \in Nat /\ taken \in Nat
    BY <1>2, TypeParts, Numbers DEF TransferTypeInv, RxIdle
<1>7. /\ f \in Answer /\ f.type = "DISPOSITION" /\ f.first = id /\ f.last = id
      /\ h \subseteq rx.held
    BY <1>6 DEF Answer, RxIdle
<1> HIDE DEF f, h
<1>8. /\ rx'.next_incoming_id = rx.next_incoming_id
      /\ rx'.incoming_window = rx.incoming_window
      /\ rx'.received_payload = rx.received_payload /\ rx'.held = h
    BY <1>1, <1>6 DEF RxIdle
<1>9. disturbed' <=> disturbed
    BY <1>1 DEF disturbed
<1>10. Given(q)' /\ \A k : Gathered(q, k) => Gathered(q, k)'
    BY <1>1, <1>5, <1>8, <1>9, SamePayloads
<1> DEFINE C == Append(back, f)
<1>11. /\ Len(C) = Len(back) + 1 /\ C[Len(back) + 1] = f
       /\ \A j \in 1 .. Len(back) : C[j] = back[j]
       /\ \A j \in 1 .. Len(back) + 1 : j \in 1 .. Len(back) \/ j = Len(back) + 1
    BY <1>6, <1>7, AppendOf
<1>12. Answered(first, q)'
    <2> HIDE DEF C
    <2>1. PICK i \in 1 .. r : id = IdAt(first, i)
        BY <1>5 DEF Answered
    <2>2. ASSUME NEW j \in 1 .. Len(C), C[j].type = "DISPOSITION"
          PROVE  \E k \in 1 .. r : C[j].first = IdAt(first, k) /\ C[j].last = IdAt(first, k)
        <3>1. CASE j \in 1 .. Len(back)
            BY <1>5, <1>11, <2>2, <3>1, SMTT(60) DEF Answered
        <3>2. CASE j = Len(back) + 1
            BY <1>7, <1>11, <2>1, <3>2
        <3> QED BY <1>11, <3>1, <3>2
    <2>3. \A m \in 1 .. Len(tx.sends) :
             tx.sends[m].state = "OK" => \E k \in 1 .. r : q[k] = m
        BY <1>5 DEF Answered
    <2>4. \A v \in h : \E k \in 1 .. r : v = IdAt(first, k)
        BY <1>5, <1>7 DEF Answered
    <2>5. back' = C
        BY <1>1 DEF C
    <2> QED BY <1>1, <1>8, <2>2, <2>3, <2>4, <2>5 DEF Answered
<1>13. Windows(first, q)'
    <2>1. CASE split
        BY <1>1, <2>1 DEF Windows
    <2>2. CASE ~split
        <3> DEFINE a == written + tx.remote_incoming_window
                   R == Backward(first, taken, granted)
        <3>1. PICK z \in Nat : Path(Nat, R, back, a, z) /\ z <= taken + rx.incoming_window
            BY <1>5, <2>2 DEF Windows
        <3>2. <<f, z, z>> \in R
            <4>1. Allows(first, taken, granted, f, z, z)
                BY <1>7 DEF Allows
            <4> QED BY <1>7, <4>1, AllowsIs
        <3> HIDE DEF a, R
        <3>3. Path(Nat, R, C, a, z)
            BY <1>6, <1>7, <3>1, <3>2, PathAppend
        <3>4. back' = C
            BY <1>1
        <3> HIDE DEF C
        <3> QED BY <1>1, <1>5, <1>8, <2>2, <3>1, <3>3, <3>4 DEF Windows, a, R
    <2> QED BY <2>1, <2>2
<1>14. InOrderFrom(first, q)'
    <2>1. UnderWay(first, q)'
        BY <1>1, <1>5, <1>9, <1>10 DEF UnderWay
    <2>2. Sender(first, q, disturbed, tx)'
        BY <1>1, <1>5, <1>9 DEF Sender
    <2> QED BY <1>10, <1>12, <1>13, <2>1, <2>2 DEF InOrderFrom
<1>15. TransferTypeInv' /\ Idle'
    BY <1>1, <1>2, <1>9, DisposesTypes DEF Idle
<1> QED BY <1>14, <1>15 DEF TransfersInv

-----------------------------------------------------------------------------
(* A TRANSFER is received *)

\* The bytes of the pieces, put together one after the other.
LEMMA PiecesJoined ==
    ASSUME NEW payload \in Payloads
    PROVE  LET pieces == split_of[payload]
               W == BytesOf(pieces)
               n == Len(pieces)
           IN  /\ Joined(W, 0) = <<>> /\ Joined(W, n) = FlattenSeq(payload)
               /\ \A k \in 0 .. n : Joined(W, k) \in Seq(Unit)
               /\ \A k \in 0 .. n - 1 : /\ pieces[k + 1].bytes \in Seq(Unit)
                                        /\ Joined(W, k + 1) = Joined(W, k) \o pieces[k + 1].bytes
               /\ n > 1 => \A k \in 1 .. n : Joined(W, k) # <<>>
<1> DEFINE pieces == split_of[payload]
           W == BytesOf(pieces)
           n == Len(pieces)
<1>1. pieces \in Seq(Piece) /\ n \in Nat /\ DOMAIN pieces = 1 .. n
    BY PiecesOf
<1>2. /\ n > 1 => \A k \in 1 .. n : pieces[k].bytes # <<>>
      /\ FlattenSeq(W) = FlattenSeq(payload)
    BY <1>1, SplitAssumption DEF SplitAssumption, Splits, BytesOf
<1> HIDE DEF pieces, n
<1>3. \A k \in 1 .. n : pieces[k].bytes \in Seq(Unit)
    <2>1. \A k \in 1 .. n : pieces[k] \in Piece
        BY <1>1 DEF n
    <2> QED BY <2>1 DEF Piece
<1>4. W = [k \in 1 .. n |-> pieces[k].bytes]
    BY <1>1 DEF BytesOf
<1>5. W \in Seq(Seq(Unit)) /\ Len(W) = n /\ \A k \in 1 .. n : W[k] = pieces[k].bytes
    <2> DEFINE X == Seq(Unit)
    <2>1. \A k \in 1 .. n : pieces[k].bytes \in X
        BY <1>3
    <2> HIDE DEF X, W
    <2>2. W \in [1 .. n -> X] /\ \A k \in 1 .. n : W[k] = pieces[k].bytes
        BY <1>4, <2>1
    <2>3. W \in Seq(X) /\ Len(W) = n
        BY <1>1, <2>2
    <2> QED BY <2>2, <2>3 DEF X
<1> HIDE DEF W
<1>6. /\ FlattenSeq(W) = Joined(W, n) /\ Joined(W, 0) = <<>>
      /\ \A k \in 0 .. n - 1 : Joined(W, k + 1) = Joined(W, k) \o W[k + 1]
      /\ \A k \in 0 .. n : Joined(W, k) \in Seq(Unit)
    BY <1>5, JoinedStep
<1>7. ASSUME NEW k \in 0 .. n - 1
      PROVE  /\ pieces[k + 1].bytes \in Seq(Unit)
             /\ Joined(W, k + 1) = Joined(W, k) \o pieces[k + 1].bytes
    <2>1. k + 1 \in 1 .. n
        BY <1>1
    <2> QED BY <1>3, <1>5, <1>6, <2>1
<1>8. ASSUME n > 1, NEW k \in 1 .. n PROVE Joined(W, k) # <<>>
    <2> DEFINE l == k - 1
    <2>1. l \in 0 .. n - 1 /\ l \in 0 .. n /\ l + 1 = k
        BY <1>1
    <2> HIDE DEF l
    <2> DEFINE x == Joined(W, l)
               y == pieces[k].bytes
    <2>2. x \in Seq(Unit) /\ y \in Seq(Unit) /\ y # <<>> /\ Joined(W, k) = x \o y
        BY <1>2, <1>3, <1>6, <1>7, <1>8, <2>1
    <2> HIDE DEF x, y
    <2>3. x \o y # <<>>
        BY <2>2
    <2> QED BY <2>2, <2>3
<1> QED BY <1>2, <1>6, <1>7, <1>8 DEF W, n, pieces

\* The bytes of a message, one sequence behind the other.
LEMMA NamedJoin ==
    ASSUME NEW m, NEW x \in Seq(Unit), NEW y \in Seq(Unit)
    PROVE  /\ named(m, x \o y) = named(m, x) \o named(m, y)
           /\ named(m, x) = <<>> <=> x = <<>>
<1> DEFINE X == Unit
           Z == {m} \X X
<1>1. \A v \in X : <<m, v>> \in Z
    OBVIOUS
<1>2. x \in Seq(X) /\ y \in Seq(X)
    OBVIOUS
<1> HIDE DEF X, Z
<1>3. ASSUME NEW s \in Seq(X)
      PROVE  /\ named(m, s) \in Seq(Z) /\ Len(named(m, s)) = Len(s)
             /\ \A i \in 1 .. Len(s) : named(m, s)[i] = <<m, s[i]>>
    <2> DEFINE t == named(m, s)
               l == Len(s)
    <2>1. l \in Nat /\ DOMAIN s = 1 .. l /\ \A i \in 1 .. l : s[i] \in X
        OBVIOUS
    <2>2. t = [k \in 1 .. l |-> <<m, s[k]>>]
        BY <2>1 DEF named
    <2> HIDE DEF t, l
    <2>3. t \in [1 .. l -> Z] /\ \A i \in 1 .. l : t[i] = <<m, s[i]>>
        BY <1>1, <2>1, <2>2
    <2>4. t \in Seq(Z) /\ Len(t) = l
        BY <2>1, <2>3
    <2> QED BY <2>3, <2>4 DEF t, l
<1> DEFINE a == named(m, x)
           b == named(m, y)
           c == named(m, x \o y)
           i == Len(x)
           j == Len(y)
           z == x \o y
<1>4. /\ z \in Seq(X) /\ Len(z) = i + j /\ i \in Nat /\ j \in Nat
      /\ \A k \in 1 .. i : z[k] = x[k]
    BY <1>2
<1>5. \A k \in i + 1 .. i + j : z[k] = y[k - i] /\ k - i \in 1 .. j
    BY <1>2, ConcatProperties
<1>6. /\ a \in Seq(Z) /\ Len(a) = i /\ \A k \in 1 .. i : a[k] = <<m, x[k]>>
      /\ b \in Seq(Z) /\ Len(b) = j /\ \A k \in 1 .. j : b[k] = <<m, y[k]>>
    BY <1>2, <1>3
<1> HIDE DEF z
<1>7. c \in Seq(Z) /\ Len(c) = i + j /\ \A k \in 1 .. i + j : c[k] = <<m, z[k]>>
    BY <1>3, <1>4 DEF z
<1> HIDE DEF a, b, c, i, j
<1>8. /\ a \o b \in Seq(Z) /\ Len(a \o b) = i + j
      /\ \A k \in 1 .. i : (a \o b)[k] = a[k]
    <2>1. /\ a \o b \in Seq(Z) /\ Len(a \o b) = Len(a) + Len(b)
          /\ \A k \in 1 .. Len(a) : (a \o b)[k] = a[k]
        BY <1>6, Behind, ZenonT(60)
    <2> QED BY <1>6, <2>1
<1>9. \A k \in i + 1 .. i + j : (a \o b)[k] = b[k - i]
    BY <1>6, ConcatProperties
<1>10. c = a \o b
    <2> DEFINE d == a \o b
    <2>1. ASSUME NEW k \in 1 .. i + j PROVE c[k] = d[k]
        <3>1. CASE k \in 1 .. i
            BY <1>4, <1>6, <1>7, <1>8, <3>1
        <3>2. CASE k \in i + 1 .. i + j
            <4> DEFINE l == k - i
            <4>1. l \in 1 .. j /\ z[k] = y[l] /\ d[k] = b[l]
                BY <1>5, <1>9, <3>2 DEF z
            <4> HIDE DEF l, d
            <4>2. c[k] = <<m, z[k]>> /\ b[l] = <<m, y[l]>>
                BY <1>6, <1>7, <4>1
            <4> QED BY <4>1, <4>2
        <3>3. k \in 1 .. i \/ k \in i + 1 .. i + j
            BY <1>4
        <3> QED BY <3>1, <3>2, <3>3
    <2>2. d \in Seq(Z) /\ Len(d) = i + j
        BY <1>8
    <2> HIDE DEF d
    <2>3. c = d
        BY <1>7, <2>1, <2>2
    <2> QED BY <2>3 DEF d
<1>11. a = <<>> <=> x = <<>>
    BY <1>2, <1>6 DEF i
<1> QED BY <1>10, <1>11 DEF a, b, c

\* The steps of the handler of a TRANSFER: the window is counted, the credit
\* renewed, the bytes collected, the message delivered and the window renewed.
Received(f, fail, R, C, S, D, E) ==
    /\ R \in RxRecord /\ C \in RxRecord /\ S \in RxRecord /\ D \in RxRecord /\ E \in RxRecord
    /\ R.next_incoming_id = (rx.next_incoming_id + 1) % MOD
    /\ R.incoming_window = rx.incoming_window - 1
    /\ R.received_payload = rx.received_payload /\ R.held = rx.held
    /\ R.out = <<>>
    /\ Credited(R, C)
    /\ Collected(C, f, fail, S)
    /\ f.more => D = S
    /\ ~f.more => Delivers(S, f, D)
    /\ Renewed(D, E)

\* What the session and the link keep of it.
LEMMA ReceivedKeeps ==
    ASSUME NEW f, NEW fail, NEW R, NEW C, NEW S, NEW D, NEW E, Received(f, fail, R, C, S, D, E)
    PROVE  /\ E.next_incoming_id = (rx.next_incoming_id + 1) % MOD
           /\ S.received_payload =
                 IF (rx.received_payload # <<>> \/ f.more) /\ "memory" \notin fail
                 THEN rx.received_payload \o f.bytes ELSE rx.received_payload
           /\ E.received_payload = IF f.more THEN S.received_payload ELSE <<>>
           /\ f.more => E.held = rx.held
           /\ E.held \subseteq rx.held \cup {f.id}
<1>1. /\ R.next_incoming_id = (rx.next_incoming_id + 1) % MOD
      /\ R.received_payload = rx.received_payload /\ R.held = rx.held
      /\ Credited(R, C) /\ Collected(C, f, fail, S)
      /\ f.more => D = S
      /\ ~f.more => Delivers(S, f, D)
      /\ Renewed(D, E)
    BY DEF Received
<1>2. /\ S.next_incoming_id = R.next_incoming_id /\ S.held = R.held
      /\ S.received_payload =
            IF (R.received_payload # <<>> \/ f.more) /\ "memory" \notin fail
            THEN R.received_payload \o f.bytes ELSE R.received_payload
    BY <1>1 DEF Credited, Collected
<1>3. /\ E.next_incoming_id = D.next_incoming_id /\ E.held = D.held
      /\ E.received_payload = D.received_payload
    BY <1>1 DEF Renewed
<1>4. CASE f.more
    BY <1>1, <1>2, <1>3, <1>4
<1>5. CASE ~f.more
    <2>1. /\ D.next_incoming_id = S.next_incoming_id /\ D.received_payload = <<>>
          /\ D.held = S.held \/ D.held = S.held \cup {f.id}
        BY <1>1, <1>5 DEF Delivers
    <2>2. E.held \subseteq rx.held \cup {f.id}
        BY <1>1, <1>2, <1>3, <2>1
    <2> QED BY <1>1, <1>2, <1>3, <1>5, <2>1, <2>2
<1> QED BY <1>4, <1>5

\* Dispositions written are of the message that is complete.
Settles(o, f) ==
    \A k \in 1 .. Len(o) : o[k].type = "DISPOSITION" =>
        ~f.more /\ o[k].first = f.id /\ o[k].last = f.id

\* One more answer.
LEMMA SettlesMore ==
    ASSUME NEW o \in Seq(Answer), NEW x \in Answer, NEW f, Settles(o, f),
           \/ x.type # "DISPOSITION"
           \/ ~f.more /\ x.first = f.id /\ x.last = f.id
    PROVE  Settles(Append(o, x), f)
<1> DEFINE p == Append(o, x)
<1>1. /\ Len(p) = Len(o) + 1 /\ p[Len(o) + 1] = x
      /\ \A j \in 1 .. Len(o) : p[j] = o[j]
      /\ \A j \in 1 .. Len(o) + 1 : j \in 1 .. Len(o) \/ j = Len(o) + 1
    BY AppendOf
<1> HIDE DEF p
<1>2. Settles(p, f)
    BY <1>1 DEF Settles
<1> QED BY <1>2 DEF p

\* The handler of a TRANSFER settles nothing but the message that is complete.
LEMMA ReceivedSettles ==
    ASSUME NEW f, NEW fail, NEW R, NEW C, NEW S, NEW D, NEW E, Received(f, fail, R, C, S, D, E)
    PROVE  Settles(E.out, f)
<1>1. /\ R \in RxRecord /\ C \in RxRecord /\ S \in RxRecord /\ D \in RxRecord
      /\ R.out = <<>> /\ Credited(R, C) /\ Collected(C, f, fail, S)
      /\ f.more => D = S
      /\ ~f.more => Delivers(S, f, D)
      /\ Renewed(D, E)
    BY DEF Received
<1>2. /\ R.out \in Seq(Answer) /\ C.out \in Seq(Answer) /\ S.out \in Seq(Answer)
      /\ D.out \in Seq(Answer)
    BY <1>1 DEF RxRecord
<1>3. Settles(R.out, f)
    BY <1>1 DEF Settles
<1>4. ASSUME NEW o \in Seq(Answer), NEW a \in Answer, NEW L, Settles(o, f), FlowOf(a, L)
      PROVE  Settles(Append(o, a), f)
    <2>1. a.type # "DISPOSITION"
        BY <1>4 DEF FlowOf
    <2> QED BY <1>4, <2>1, SettlesMore
<1>5. Settles(S.out, f)
    <2>1. Settles(C.out, f)
        BY <1>1, <1>2, <1>3, <1>4 DEF Credited
    <2> QED BY <1>1, <2>1 DEF Collected
<1>6. Settles(D.out, f)
    <2>1. CASE f.more
        BY <1>1, <1>5, <2>1
    <2>2. CASE ~f.more
        <3>1. CASE D.out = S.out
            BY <1>5, <3>1
        <3>2. CASE \E a \in Answer : D.out = Append(S.out, a) /\ DispositionOf(a, f.id)
            <4>1. PICK a \in Answer : D.out = Append(S.out, a) /\ DispositionOf(a, f.id)
                BY <3>2
            <4>2. a.first = f.id /\ a.last = f.id
                BY <4>1 DEF DispositionOf
            <4>3. Settles(Append(S.out, a), f)
                BY <1>2, <1>5, <2>2, <4>2, SettlesMore
            <4> QED BY <4>1, <4>3
        <3> QED BY <1>1, <2>2, <3>1, <3>2 DEF Delivers
    <2> QED BY <2>1, <2>2
<1> QED BY <1>1, <1>2, <1>4, <1>6 DEF Renewed

\* What the FLOWs written allow is within h.
Fit(o, t, h) == \A k \in 1 .. Len(o) : o[k].type # "DISPOSITION" => t + o[k].incoming_window <= h

\* The answers o, behind those of s, lead no further than t + w.
Leads(first, t, h, s, a, o, w) ==
    Fit(o, t, h) => \E z \in Nat : Path(Nat, Backward(first, t, h), s \o o, a, z) /\ z <= t + w

\* One more answer behind two queues.
LEMMA AppendBehind ==
    ASSUME NEW X, NEW s \in Seq(X), NEW o \in Seq(X), NEW x \in X
    PROVE  s \o Append(o, x) = Append(s \o o, x) /\ s \o o \in Seq(X)
<1>1. ASSUME NEW y \in Seq(X) PROVE s \o (o \o y) = (s \o o) \o y
    BY ConcatAssociative, SMTT(60)
<1>2. s \o o \in Seq(X) /\ <<x>> \in Seq(X) /\ Append(o, x) = o \o <<x>>
    BY SMTT(40)
<1>3. Append(s \o o, x) = (s \o o) \o <<x>>
    <2> DEFINE z == s \o o
    <2>1. z \in Seq(X)
        BY <1>2
    <2> HIDE DEF z
    <2>2. Append(z, x) = z \o <<x>>
        BY <2>1, AppendOf
    <2> QED BY <2>2 DEF z
<1> QED BY <1>1, <1>2, <1>3

\* A FLOW leads as far as the window that it tells of, a DISPOSITION no further.
LEMMA LeadsOn ==
    ASSUME NEW first \in Nat, NEW t \in Nat, NEW h \in Nat, NEW s \in Seq(Answer), NEW a,
           NEW o \in Seq(Answer), NEW w \in Nat, NEW v \in Nat, w <= v,
           Leads(first, t, h, s, a, o, w)
    PROVE  /\ Leads(first, t, h, s, a, o, v)
           /\ \A x \in Answer :
                 x.type = "DISPOSITION" => Leads(first, t, h, s, a, Append(o, x), v)
           /\ \A x \in Answer :
                 /\ x.type \in {"FLOW", "LINK_FLOW"}
                 /\ x.next_incoming_id = (first + t) % MOD
                 /\ x.incoming_window = v
                 /\ v <= INCOMING_WINDOW
                 => Leads(first, t, h, s, a, Append(o, x), v)
<1> DEFINE R == Backward(first, t, h)
<1>1. Leads(first, t, h, s, a, o, v)
    <2>1. \A z \in Nat : z <= t + w => z <= t + v
        OBVIOUS
    <2> QED BY <2>1 DEF Leads
<1>2. ASSUME NEW x \in Answer
      PROVE  /\ s \o Append(o, x) = Append(s \o o, x) /\ s \o o \in Seq(Answer)
             /\ Fit(Append(o, x), t, h) =>
                   Fit(o, t, h) /\ (x.type # "DISPOSITION" => t + x.incoming_window <= h)
    <2>1. s \o Append(o, x) = Append(s \o o, x) /\ s \o o \in Seq(Answer)
        BY AppendBehind
    <2> DEFINE p == Append(o, x)
    <2>2. /\ Len(o) \in Nat /\ Len(p) = Len(o) + 1 /\ p[Len(o) + 1] = x
          /\ \A j \in 1 .. Len(o) : p[j] = o[j]
        BY AppendOf
    <2> HIDE DEF p
    <2>3. Fit(p, t, h) => Fit(o, t, h) /\ (x.type # "DISPOSITION" => t + x.incoming_window <= h)
        <3>1. /\ \A j \in 1 .. Len(o) : j \in 1 .. Len(p)
              /\ Len(o) + 1 \in 1 .. Len(p)
            BY <2>2
        <3> QED BY <2>2, <3>1 DEF Fit
    <2> QED BY <2>1, <2>3 DEF p
<1>3. ASSUME NEW x \in Answer, x.type = "DISPOSITION"
      PROVE  Leads(first, t, h, s, a, Append(o, x), v)
    <2> SUFFICES ASSUME Fit(Append(o, x), t, h)
                 PROVE  \E z \in Nat : Path(Nat, R, s \o Append(o, x), a, z) /\ z <= t + v
        BY DEF Leads
    <2>1. PICK z \in Nat : Path(Nat, R, s \o o, a, z) /\ z <= t + v
        BY <1>1, <1>2 DEF Leads
    <2>2. <<x, z, z>> \in R
        <3>1. Allows(first, t, h, x, z, z)
            BY <1>3 DEF Allows
        <3> QED BY <3>1, AllowsIs
    <2> HIDE DEF R
    <2> DEFINE y == s \o o
    <2>3. y \in Seq(Answer) /\ Path(Nat, R, y, a, z) /\ s \o Append(o, x) = Append(y, x)
        BY <1>2, <2>1
    <2> HIDE DEF y
    <2>4. Path(Nat, R, Append(y, x), a, z)
        BY <2>2, <2>3, PathAppend
    <2> QED BY <2>1, <2>3, <2>4
<1>4. ASSUME NEW x \in Answer, x.type \in {"FLOW", "LINK_FLOW"},
             x.next_incoming_id = (first + t) % MOD, x.incoming_window = v,
             v <= INCOMING_WINDOW
      PROVE  Leads(first, t, h, s, a, Append(o, x), v)
    <2> SUFFICES ASSUME Fit(Append(o, x), t, h)
                 PROVE  \E z \in Nat : Path(Nat, R, s \o Append(o, x), a, z) /\ z <= t + v
        BY DEF Leads
    <2>1. PICK z \in Nat : Path(Nat, R, s \o o, a, z) /\ z <= t + v
        BY <1>1, <1>2 DEF Leads
    <2> DEFINE b == t + v
    <2>2. b \in Nat /\ b <= h /\ z <= b /\ t \in 0 .. t /\ b = t + x.incoming_window
        BY <1>2, <1>4, <2>1
    <2> HIDE DEF b
    <2>3. <<x, z, b>> \in R
        <3>1. Allows(first, t, h, x, z, b)
            BY <1>4, <2>2 DEF Allows
        <3> QED BY <2>2, <3>1, AllowsIs
    <2> HIDE DEF R
    <2> DEFINE y == s \o o
    <2>4. y \in Seq(Answer) /\ Path(Nat, R, y, a, z) /\ s \o Append(o, x) = Append(y, x)
        BY <1>2, <2>1
    <2> HIDE DEF y
    <2>5. Path(Nat, R, Append(y, x), a, b)
        BY <2>2, <2>3, <2>4, PathAppend
    <2>6. b <= t + v
        BY <2>2 DEF b
    <2> QED BY <2>2, <2>4, <2>5, <2>6
<1> QED BY <1>1, <1>3, <1>4

\* The handler of a TRANSFER never allows more than the window that it keeps.
LEMMA ReceivedLeads ==
    ASSUME NEW f, NEW fail, NEW R, NEW C, NEW S, NEW D, NEW E, Received(f, fail, R, C, S, D, E),
           NEW first \in Nat, NEW t \in Nat, NEW h \in Nat, NEW s \in Seq(Answer), NEW a,
           R.next_incoming_id = (first + t) % MOD, R.incoming_window <= INCOMING_WINDOW,
           Leads(first, t, h, s, a, <<>>, R.incoming_window)
    PROVE  /\ E.incoming_window <= INCOMING_WINDOW
           /\ Leads(first, t, h, s, a, E.out, E.incoming_window)
<1>1. /\ R \in RxRecord /\ C \in RxRecord /\ S \in RxRecord /\ D \in RxRecord /\ E \in RxRecord
      /\ R.out = <<>> /\ Credited(R, C) /\ Collected(C, f, fail, S)
      /\ f.more => D = S
      /\ ~f.more => Delivers(S, f, D)
      /\ Renewed(D, E)
    BY DEF Received
<1> DEFINE w == R.incoming_window
           v == E.incoming_window
           G(o, n) == Leads(first, t, h, s, a, o, n)
<1>2. /\ R.out \in Seq(Answer) /\ C.out \in Seq(Answer) /\ S.out \in Seq(Answer)
      /\ D.out \in Seq(Answer) /\ w \in Nat /\ v \in Nat
    BY <1>1, Numbers DEF RxRecord
<1>3. ASSUME NEW o \in Seq(Answer), NEW x \in Answer, NEW n \in Nat, NEW m \in Nat, n <= m,
             G(o, n), NEW L, FlowOf(x, L), L.next_incoming_id = (first + t) % MOD,
             L.incoming_window = m, m <= INCOMING_WINDOW
      PROVE  G(Append(o, x), m)
    <2>1. /\ x.type \in {"FLOW", "LINK_FLOW"} /\ x.next_incoming_id = (first + t) % MOD
          /\ x.incoming_window = m
        BY <1>3 DEF FlowOf
    <2> QED BY <1>3, <2>1, LeadsOn
<1>4. C.next_incoming_id = (first + t) % MOD /\ C.incoming_window = w /\ G(C.out, w)
    <2>1. C.next_incoming_id = (first + t) % MOD /\ C.incoming_window = w
        BY <1>1 DEF Credited
    <2>2. CASE C.out = R.out
        BY <1>1, <2>1, <2>2
    <2>3. CASE \E x \in Answer : C.out = Append(R.out, x) /\ FlowOf(x, R)
        <3>1. PICK x \in Answer : C.out = Append(R.out, x) /\ FlowOf(x, R)
            BY <2>3
        <3>2. G(R.out, w) /\ w <= w /\ w <= INCOMING_WINDOW
            BY <1>1, <1>2
        <3>3. R.next_incoming_id = (first + t) % MOD /\ R.incoming_window = w
            OBVIOUS
        <3> HIDE DEF w, G
        <3>4. G(Append(R.out, x), w)
            BY <1>2, <1>3, <3>1, <3>2, <3>3
        <3> QED BY <2>1, <3>1, <3>4
    <2> QED BY <1>1, <2>2, <2>3 DEF Credited
<1>5. S.next_incoming_id = (first + t) % MOD /\ S.incoming_window = w /\ G(S.out, w)
    BY <1>1, <1>4 DEF Collected
<1>6. D.next_incoming_id = (first + t) % MOD /\ D.incoming_window = w /\ G(D.out, w)
    <2>1. CASE f.more
        BY <1>1, <1>5, <2>1
    <2>2. CASE ~f.more
        <3>1. /\ D.next_incoming_id = (first + t) % MOD /\ D.incoming_window = w
              /\ \/ D.out = S.out
                 \/ \E x \in Answer : D.out = Append(S.out, x) /\ DispositionOf(x, f.id)
            BY <1>1, <1>5, <2>2 DEF Delivers
        <3>2. CASE D.out = S.out
            BY <1>5, <3>1, <3>2
        <3>3. CASE \E x \in Answer : D.out = Append(S.out, x) /\ DispositionOf(x, f.id)
            <4>1. PICK x \in Answer : D.out = Append(S.out, x) /\ DispositionOf(x, f.id)
                BY <3>3
            <4>2. x.type = "DISPOSITION"
                BY <4>1 DEF DispositionOf
            <4>3. G(S.out, w) /\ w <= w
                BY <1>2, <1>5
            <4> HIDE DEF w
            <4>4. G(Append(S.out, x), w)
                BY <1>2, <4>2, <4>3, LeadsOn
            <4> QED BY <3>1, <4>1, <4>4 DEF w
        <3> QED BY <3>1, <3>2, <3>3
    <2> QED BY <2>1, <2>2
<1>7. v <= INCOMING_WINDOW /\ w <= v /\ E.next_incoming_id = (first + t) % MOD
    <2>1. v = IF D.incoming_window > 0 THEN D.incoming_window ELSE INCOMING_WINDOW
        BY <1>1 DEF Renewed
    <2>2. v = IF w > 0 THEN w ELSE INCOMING_WINDOW
        BY <1>6, <2>1
    <2>3. E.next_incoming_id = (first + t) % MOD
        BY <1>1, <1>6 DEF Renewed
    <2>4. w <= INCOMING_WINDOW /\ INCOMING_WINDOW \in Nat
        BY TransfersAssumption DEF TransfersAssumption
    <2> HIDE DEF w, v
    <2> QED BY <1>2, <2>2, <2>3, <2>4
<1>8. G(E.out, v)
    <2>1. CASE E.out = D.out
        <3>1. G(D.out, v)
            <4> HIDE DEF w, v
            <4> QED BY <1>2, <1>6, <1>7, LeadsOn
        <3> QED BY <2>1, <3>1
    <2>2. CASE \E x \in Answer : E.out = Append(D.out, x) /\ FlowOf(x, E)
        <3>1. PICK x \in Answer : E.out = Append(D.out, x) /\ FlowOf(x, E)
            BY <2>2
        <3>2. E.incoming_window = v
            OBVIOUS
        <3> HIDE DEF w, v, G
        <3>3. G(Append(D.out, x), v)
            BY <1>2, <1>3, <1>6, <1>7, <3>1, <3>2
        <3> QED BY <3>1, <3>3
    <2> QED BY <1>1, <2>1, <2>2 DEF Renewed
<1> QED BY <1>7, <1>8

\* When more may have failed, less is asked.
LEMMA OnwardLoosens ==
    ASSUME NEW first, NEW q \in Seq(Message), NEW s, NEW d, NEW e, d => e,
           NEW F \in Seq(Frame), NEW a, NEW b,
           Path(Cursor, Onward(first, q, s, d), F, a, b)
    PROVE  Path(Cursor, Onward(first, q, s, e), F, a, b)
<1> DEFINE v == <<>>
<1>1. v \in Seq(Message) /\ q \o v = q
    BY ConcatEmptySeq
<1> HIDE DEF v
<1>2. Path(Cursor, Onward(first, q \o v, s, e), F, a, b)
    BY <1>1, OnwardGrows, Zenon
<1> QED BY <1>1, <1>2

\* The piece that comes next, and what it makes of those before it.
LEMMA PieceNext ==
    ASSUME NEW q \in Seq(Message), NEW s, NEW f, NEW r \in Nat, NEW k \in Nat,
           Piecewise(q, s, f, <<r, k>>), s[q[r + 1]].payload \in Payloads
    PROVE  LET m == q[r + 1]
               payload == s[m].payload
               W == BytesOf(split_of[payload])
           IN  /\ k + 1 <= Len(split_of[payload]) /\ f.message = m
               /\ f.more <=> k + 1 < Len(split_of[payload])
               /\ named(m, Joined(W, k + 1)) = named(m, Joined(W, k)) \o f.bytes
               /\ k = 0 => named(m, Joined(W, k)) = <<>> /\ named(m, Joined(W, k + 1)) = f.bytes
               /\ k > 0 => /\ named(m, Joined(W, k)) # <<>>
                           /\ named(m, Joined(W, k + 1)) # <<>>
               /\ ~f.more => named(m, Joined(W, k + 1)) = named(m, FlattenSeq(payload))
<1> DEFINE m == q[r + 1]
           payload == s[m].payload
           pieces == split_of[payload]
           n == Len(pieces)
           W == BytesOf(pieces)
<1>1. /\ f.message = m /\ k + 1 <= n /\ f.bytes = named(m, pieces[k + 1].bytes)
      /\ f.more <=> k + 1 < n
    BY DEF Piecewise
<1>2. n \in Nat
    BY PiecesOf
<1>3. k \in 0 .. n - 1 /\ k \in 0 .. n
    BY <1>1, <1>2, SMTT(40)
<1>4. /\ Joined(W, 0) = <<>> /\ Joined(W, n) = FlattenSeq(payload)
      /\ \A i \in 0 .. n : Joined(W, i) \in Seq(Unit)
      /\ \A i \in 0 .. n - 1 : /\ pieces[i + 1].bytes \in Seq(Unit)
                               /\ Joined(W, i + 1) = Joined(W, i) \o pieces[i + 1].bytes
      /\ n > 1 => \A i \in 1 .. n : Joined(W, i) # <<>>
    BY PiecesJoined, Zenon
<1> HIDE DEF m, payload, pieces, n, W
<1> DEFINE x == Joined(W, k)
           y == pieces[k + 1].bytes
           z == Joined(W, k + 1)
<1>5. x \in Seq(Unit) /\ y \in Seq(Unit) /\ z = x \o y
    BY <1>3, <1>4
<1>6. k = 0 => x = <<>>
    BY <1>4
<1>7. k > 0 => x # <<>>
    BY <1>1, <1>2, <1>3, <1>4
<1>8. ~f.more => z = FlattenSeq(payload)
    <2>1. ~f.more => k + 1 = n
        BY <1>1, <1>2
    <2> QED BY <1>4, <2>1
<1> HIDE DEF x, y, z
<1>9. named(m, z) = named(m, x) \o named(m, y)
    <2>1. x \in Seq(Unit) /\ y \in Seq(Unit)
        BY <1>5
    <2>2. named(m, x \o y) = named(m, x) \o named(m, y)
        BY <2>1, NamedJoin
    <2> QED BY <1>5, <2>2
<1>10. (k = 0 => z = y) /\ (k > 0 => z # <<>>)
    BY <1>5, <1>6, <1>7, SMTT(60)
<1>11. /\ k = 0 => named(m, x) = <<>>
       /\ k > 0 => named(m, x) # <<>>
    <2>1. x \in Seq(Unit) /\ y \in Seq(Unit)
        BY <1>5
    <2>2. named(m, x) = <<>> <=> x = <<>>
        BY <2>1, NamedJoin
    <2> QED BY <1>6, <1>7, <2>2
<1>12. k > 0 => named(m, z) # <<>>
    <2>1. z \in Seq(Unit) /\ y \in Seq(Unit)
        BY <1>5
    <2> QED BY <1>10, <2>1, NamedJoin
<1> QED BY <1>1, <1>8, <1>9, <1>10, <1>11, <1>12, Zenon DEF x, y, z, m, payload, pieces, n, W

\* The handler of a TRANSFER, with the receiving side E when its answers are
\* written; e says whether something may have failed when it ends.
Handled(e, f, fail, R, C, S, D, E) ==
    /\ disturbed => e
    /\ disturbed' = e
    /\ e \/ fail = {}
    /\ forth # <<>> /\ f = Head(forth) /\ f.type = "TRANSFER"
    /\ f.id \in Number /\ f.bytes \in Seq(Byte) /\ f.more \in BOOLEAN /\ f.message \in Message
    /\ forth' = Tail(forth) /\ taken' = taken + 1
    /\ Received(f, fail, R, C, S, D, E)
    /\ delivered' = IF f.more THEN delivered
                    ELSE Append(delivered, [message |-> f.message, payload |-> indicated(S, f)])
    /\ rx_writes(E)
    /\ UNCHANGED <<tx, written, split, flows>>

\* The handler takes these steps.
LEMMA HandlerSteps ==
    ASSUME TransferTypeInv, NEW settle, NEW fail, rx_transfer_received(settle, fail)
    PROVE  \E e \in BOOLEAN : \E f \in Frame : \E R, C, S, D, E \in RxRecord :
              Handled(e, f, fail, R, C, S, D, E)
<1> DEFINE f == Head(forth)
<1>1. /\ forth' = Tail(forth) /\ taken' = taken + 1
      /\ fail # {} => faults > 0
      /\ faults' = IF fail = {} THEN faults ELSE faults - 1
      /\ UNCHANGED <<tx, written, split, flows>>
    BY DEF rx_transfer_received
<1>2. Breaks(fail)
    BY <1>1 DEF Breaks
<1>3. PICK e \in BOOLEAN : disturbed' = e /\ (disturbed => e) /\ (e \/ fail = {})
    BY <1>2, Disturbs
<1>4. /\ forth # <<>> /\ f \in Frame /\ f.type = "TRANSFER"
      /\ f.id \in Number /\ f.bytes \in Seq(Byte) /\ f.more \in BOOLEAN /\ f.message \in Message
      /\ \E R, C, S, D, E \in RxRecord :
            /\ R.next_incoming_id = (rx.next_incoming_id + 1) % MOD
            /\ R.incoming_window = rx.incoming_window - 1
            /\ R.received_payload = rx.received_payload /\ R.held = rx.held
            /\ R.out = <<>>
            /\ Credited(R, C)
            /\ Collected(C, f, fail, S)
            /\ f.more => D = S
            /\ ~f.more => Delivers(S, f, D)
            /\ Renewed(D, E)
            /\ delivered' = IF f.more THEN delivered
                            ELSE Append(delivered, [message |-> f.message,
                                                    payload |-> indicated(S, f)])
            /\ rx_writes(E)
    BY TransferSteps
<1> DEFINE K(g) ==
      \E R, C, S, D, E \in RxRecord :
            /\ Received(g, fail, R, C, S, D, E)
            /\ delivered' = IF g.more THEN delivered
                            ELSE Append(delivered, [message |-> g.message,
                                                    payload |-> indicated(S, g)])
            /\ rx_writes(E)
<1>5. K(f)
    <2> HIDE DEF f
    <2> QED BY <1>4 DEF Received
<1>6. PICK g \in Frame : g = f
    BY <1>4
<1>7. K(g)
    BY <1>5, <1>6
<1>8. PICK R, C, S, D, E \in RxRecord :
            /\ Received(g, fail, R, C, S, D, E)
            /\ delivered' = IF g.more THEN delivered
                            ELSE Append(delivered, [message |-> g.message,
                                                    payload |-> indicated(S, g)])
            /\ rx_writes(E)
    BY <1>7
<1>9. Handled(e, g, fail, R, C, S, D, E)
    <2> HIDE DEF K
    <2> QED BY <1>1, <1>3, <1>4, <1>6, <1>8 DEF Handled
<1> QED BY <1>9

\* What the session and the link keep when the answers are written.
LEMMA RestsReceiver ==
    ASSUME NEW e, NEW f, NEW fail, NEW R, NEW C, NEW S, NEW D, NEW E,
           Handled(e, f, fail, R, C, S, D, E)
    PROVE  /\ rx'.next_incoming_id = (rx.next_incoming_id + 1) % MOD
           /\ rx'.incoming_window = E.incoming_window
           /\ S.received_payload =
                 IF (rx.received_payload # <<>> \/ f.more) /\ "memory" \notin fail
                 THEN rx.received_payload \o f.bytes ELSE rx.received_payload
           /\ rx'.received_payload = IF f.more THEN S.received_payload ELSE <<>>
           /\ rx'.held \subseteq rx.held \cup {f.id}
           /\ f.more => rx'.held = rx.held
           /\ back' = back \o E.out /\ E.out \in Seq(Answer) /\ Settles(E.out, f)
<1>1. Received(f, fail, R, C, S, D, E) /\ rx_writes(E)
    BY DEF Handled
<1>2. E \in RxRecord
    BY <1>1 DEF Received
<1>3. rx' = [E EXCEPT !.out = <<>>] /\ back' = back \o E.out
    BY <1>1 DEF rx_writes
<1>4. /\ rx'.next_incoming_id = E.next_incoming_id /\ rx'.incoming_window = E.incoming_window
      /\ rx'.received_payload = E.received_payload /\ rx'.held = E.held
      /\ E.out \in Seq(Answer)
    BY <1>2, <1>3 DEF RxRecord
<1>5. /\ E.next_incoming_id = (rx.next_incoming_id + 1) % MOD
      /\ S.received_payload =
            IF (rx.received_payload # <<>> \/ f.more) /\ "memory" \notin fail
            THEN rx.received_payload \o f.bytes ELSE rx.received_payload
      /\ E.received_payload = IF f.more THEN S.received_payload ELSE <<>>
      /\ f.more => E.held = rx.held
      /\ E.held \subseteq rx.held \cup {f.id}
    BY <1>1, ReceivedKeeps
<1>6. Settles(E.out, f)
    BY <1>1, ReceivedSettles
<1> QED BY <1>3, <1>4, <1>5, <1>6

\* The frame leads on from what has been delivered; the message that it ends is
\* the next one, as it was sent.
LEMMA LeadsToNext ==
    ASSUME TransferTypeInv, NEW first \in Nat, NEW q \in Seq(Message), InOrderFrom(first, q),
           NEW e, NEW f \in Frame, NEW fail, NEW R, NEW C, NEW S, NEW D, NEW E,
           Handled(e, f, fail, R, C, S, D, E)
    PROVE  \E k \in Nat : \E c \in Cursor :
              /\ Path(Cursor, Onward(first, q, tx.sends, e), Tail(forth), c, <<Len(q), 0>>)
              /\ Goes(first, q, tx.sends, e, f, <<Len(delivered), k>>, c)
              /\ e \/ Gathered(q, k)
<1>1. /\ Sender(first, q, disturbed, tx) /\ UnderWay(first, q)
    BY DEF InOrderFrom
<1>2. /\ disturbed => e
      /\ forth # <<>> /\ f = Head(forth)
    BY DEF Handled
<1>3. forth \in Seq(Frame) /\ Len(delivered) \in Nat
    BY TypeParts DEF TransferTypeInv
<1> DEFINE Q == Onward(first, q, tx.sends, disturbed)
           N == Onward(first, q, tx.sends, e)
           b == <<Len(q), 0>>
<1>4. PICK k \in Nat : /\ Path(Cursor, Q, forth, <<Len(delivered), k>>, b)
                       /\ disturbed \/ Gathered(q, k)
    BY <1>1 DEF UnderWay
<1> DEFINE a == <<Len(delivered), k>>
<1>5. a \in Cursor
    BY <1>3 DEF Cursor
<1>6. Path(Cursor, N, forth, a, b)
    <2> HIDE DEF a, b
    <2> QED BY <1>2, <1>3, <1>4, OnwardLoosens DEF a
<1> HIDE DEF N, b
<1>7. PICK c \in Cursor : <<f, a, c>> \in N /\ Path(Cursor, N, Tail(forth), c, b)
    <2> HIDE DEF a
    <2> QED BY <1>2, <1>3, <1>6, PathTail
<1> HIDE DEF a
<1>8. Goes(first, q, tx.sends, e, f, a, c)
    BY <1>5, <1>7, OnwardIs DEF N
<1> QED BY <1>2, <1>4, <1>7, <1>8 DEF N, b, a

\* What has been put together when the next piece has come.
LEMMA PieceGathered ==
    ASSUME NEW q \in Seq(Message), NEW k \in Nat, Gathered(q, k),
           NEW f, Piecewise(q, tx.sends, f, <<Len(delivered), k>>), Len(delivered) \in Nat,
           f.more \in BOOLEAN,
           tx.sends[q[Len(delivered) + 1]].payload \in Payloads,
           NEW S,
           S.received_payload = IF rx.received_payload # <<>> \/ f.more
                                THEN rx.received_payload \o f.bytes ELSE rx.received_payload
    PROVE  LET m == q[Len(delivered) + 1]
               W == BytesOf(split_of[tx.sends[m].payload])
           IN  /\ f.message = m
               /\ f.more => /\ k + 1 < Len(split_of[tx.sends[m].payload])
                            /\ S.received_payload = named(m, Joined(W, k + 1))
               /\ ~f.more => indicated(S, f) = original(m)
<1> DEFINE r == Len(delivered)
           s == tx.sends
           m == q[r + 1]
           payload == s[m].payload
           W == BytesOf(split_of[payload])
<1>1. r \in Nat /\ payload \in Payloads /\ Piecewise(q, s, f, <<r, k>>)
    OBVIOUS
<1> DEFINE n == Len(split_of[payload])
           x == named(m, Joined(W, k))
           z == named(m, Joined(W, k + 1))
           o == named(m, FlattenSeq(payload))
<1>2. k > 0 => rx.received_payload = x
    BY DEF Gathered
<1>3. k = 0 => rx.received_payload = <<>>
    BY DEF Gathered
<1>4. original(m) = o
    BY DEF original
<1> HIDE DEF r, s
<1>5. /\ k + 1 <= n /\ f.message = m
      /\ f.more <=> k + 1 < n
      /\ z = x \o f.bytes
      /\ k = 0 => x = <<>> /\ z = f.bytes
      /\ k > 0 => x # <<>> /\ z # <<>>
      /\ ~f.more => z = o
    BY <1>1, PieceNext, ZenonT(60)
<1>6. rx.received_payload = x
    <2>1. CASE k = 0
        <3>1. x = <<>>
            BY <1>5, <2>1
        <3> QED BY <1>3, <2>1, <3>1
    <2>2. CASE k > 0
        BY <1>2, <2>2
    <2> HIDE DEF x
    <2> QED BY <2>1, <2>2
<1> HIDE DEF x, z, n, o, W, payload, m
<1>7. f.more => k + 1 < n /\ S.received_payload = z
    BY <1>5, <1>6
<1>8. ASSUME ~f.more PROVE indicated(S, f) = o
    <2>1. z = o
        BY <1>5, <1>8
    <2>2. CASE k = 0
        <3>1. S.received_payload = <<>> /\ f.bytes = o
            BY <1>5, <1>6, <1>8, <2>1, <2>2
        <3> QED BY <3>1 DEF indicated
    <2>3. CASE k > 0
        <3>1. S.received_payload = o /\ o # <<>>
            BY <1>5, <1>6, <2>1, <2>3
        <3> QED BY <3>1 DEF indicated
    <2> QED BY <2>2, <2>3
<1> QED BY <1>4, <1>5, <1>7, <1>8, Zenon DEF x, z, n, o, W, payload, m, r, s

\* A TRANSFER is collected, and the message that it ends is delivered in its turn.
LEMMA ReceivedGiven ==
    ASSUME TransferTypeInv, NEW first \in Nat, NEW q \in Seq(Message), InOrderFrom(first, q),
           NEW e \in BOOLEAN, NEW f \in Frame, NEW fail,
           NEW R, NEW C, NEW S, NEW D, NEW E,
           Handled(e, f, fail, R, C, S, D, E)
    PROVE  /\ Given(q)' /\ UnderWay(first, q)'
           /\ f.more => Len(delivered') = Len(delivered)
           /\ ~f.more => /\ Len(delivered') = Len(delivered) + 1
                         /\ f.id = IdAt(first, Len(delivered) + 1)
<1> DEFINE r == Len(delivered)
           s == tx.sends
<1>1. /\ Sender(first, q, disturbed, tx) /\ Given(q)
    BY DEF InOrderFrom
<1>2. /\ disturbed => e
      /\ disturbed' = e
      /\ e \/ fail = {}
      /\ f.type = "TRANSFER" /\ f.more \in BOOLEAN
      /\ forth' = Tail(forth)
      /\ delivered' = IF f.more THEN delivered
                      ELSE Append(delivered, [message |-> f.message, payload |-> indicated(S, f)])
      /\ tx' = tx
    BY DEF Handled
<1>3. /\ S.received_payload =
            IF (rx.received_payload # <<>> \/ f.more) /\ "memory" \notin fail
            THEN rx.received_payload \o f.bytes ELSE rx.received_payload
      /\ rx'.received_payload = IF f.more THEN S.received_payload ELSE <<>>
    BY RestsReceiver
<1>4. r \in Nat /\ delivered \in Seq([message : Message, payload : Seq(Byte)])
    BY TypeParts DEF TransferTypeInv
<1>5. PICK k \in Nat : \E c \in Cursor :
         /\ Path(Cursor, Onward(first, q, s, e), Tail(forth), c, <<Len(q), 0>>)
         /\ Goes(first, q, s, e, f, <<r, k>>, c)
         /\ e \/ Gathered(q, k)
    BY LeadsToNext
<1>6. PICK c \in Cursor :
         /\ Path(Cursor, Onward(first, q, s, e), Tail(forth), c, <<Len(q), 0>>)
         /\ Goes(first, q, s, e, f, <<r, k>>, c)
         /\ e \/ Gathered(q, k)
    BY <1>5
<1> DEFINE a == <<r, k>>
<1>7. a[1] = r /\ a[2] = k
    OBVIOUS
<1>8. PICK i \in Nat, j \in Nat : c = <<i, j>> /\ c[1] = i /\ c[2] = j
    BY DEF Cursor
<1> HIDE DEF a
<1>9. /\ f.more => i = r
      /\ ~f.more => /\ i = r + 1 /\ r < Len(q)
                    /\ f.message = q[r + 1] /\ f.id = IdAt(first, r + 1)
      /\ ~e => /\ Piecewise(q, s, f, <<r, k>>)
               /\ j = IF f.more THEN k + 1 ELSE 0
    <2>1. Goes(first, q, s, e, f, a, c)
        BY <1>6 DEF a
    <2>2. CASE f.more
        BY <1>2, <1>7, <1>8, <2>1, <2>2, ZenonT(60) DEF Goes, a
    <2>3. CASE ~f.more
        BY <1>2, <1>7, <1>8, <2>1, <2>3, ZenonT(60) DEF Goes, a
    <2> QED BY <1>2, <2>2, <2>3
<1> DEFINE m == q[r + 1]
           p == split_of[s[m].payload]
<1>10. ASSUME ~e
       PROVE  /\ f.more => /\ k + 1 < Len(p) /\ r < Len(q)
                           /\ S.received_payload = named(m, Joined(BytesOf(p), k + 1))
              /\ ~f.more => indicated(S, f) = original(m)
    <2>1. Gathered(q, k) /\ Piecewise(q, s, f, <<r, k>>) /\ fail = {}
        BY <1>2, <1>6, <1>9, <1>10
    <2>2. r < Len(q) /\ Len(q) \in Nat
        BY <1>7, <2>1 DEF Piecewise, a
    <2>3. s[m].payload \in Payloads
        <3>1. s \in Seq(Send) /\ \A l \in 1 .. Len(q) : q[l] \in 1 .. Len(s)
            BY <1>1, SenderParts
        <3>2. m \in 1 .. Len(s)
            BY <1>4, <2>2, <3>1
        <3>3. s[m] \in Send
            BY <3>1, <3>2
        <3> QED BY <3>3 DEF Send
    <2>4. S.received_payload = IF rx.received_payload # <<>> \/ f.more
                               THEN rx.received_payload \o f.bytes ELSE rx.received_payload
        BY <1>3, <2>1
    <2>5. /\ f.more => /\ k + 1 < Len(p)
                       /\ S.received_payload = named(m, Joined(BytesOf(p), k + 1))
          /\ ~f.more => indicated(S, f) = original(m)
        BY <1>2, <1>4, <2>1, <2>3, <2>4, PieceGathered, SMTT(60)
    <2> QED BY <2>2, <2>5
<1>11. /\ r <= Len(q)
       /\ \A l \in 1 .. r : delivered[l].message = q[l]
                            /\ (disturbed \/ delivered[l].payload = original(q[l]))
    BY <1>1 DEF Given
<1>12. \A l : original(l)' = original(l)
    BY <1>2 DEF original
<1>13. CASE f.more
    <2>1. delivered' = delivered /\ Len(delivered') = r
        BY <1>2, <1>13
    <2>2. Given(q)'
        BY <1>2, <1>11, <1>12, <2>1 DEF Given
    <2>3. e \/ Gathered(q, j)'
        BY <1>2, <1>3, <1>9, <1>10, <1>13, <2>1 DEF Gathered
    <2>4. UnderWay(first, q)'
        BY <1>2, <1>6, <1>8, <1>9, <1>13, <2>1, <2>3 DEF UnderWay
    <2> QED BY <1>13, <2>1, <2>2, <2>4
<1>14. CASE ~f.more
    <2> DEFINE d == [message |-> f.message, payload |-> indicated(S, f)]
               X == [message : Message, payload : Seq(Byte)]
    <2>1. d.message = m /\ (e \/ d.payload = original(m))
        BY <1>9, <1>10, <1>14
    <2>2. delivered' = Append(delivered, d)
        BY <1>2, <1>14
    <2> HIDE DEF d
    <2>3. /\ Len(delivered') = r + 1 /\ delivered'[r + 1] = d
          /\ \A l \in 1 .. r : delivered'[l] = delivered[l]
        BY <1>4, <2>2
    <2>4. \A l \in 1 .. r + 1 : l \in 1 .. r \/ l = r + 1
        BY <1>4
    <2>5. r + 1 <= Len(q)
        BY <1>1, <1>4, <1>9, <1>14, SenderParts
    <2> HIDE DEF m
    <2>6. m = q[r + 1]
        BY DEF m
    <2> HIDE DEF r
    <2>7. \A l \in 1 .. r + 1 : /\ delivered'[l].message = q[l]
                                /\ e \/ delivered'[l].payload = original(q[l])
        BY <1>2, <1>11, <2>1, <2>3, <2>4, <2>6
    <2>8. Given(q)'
        BY <1>2, <1>12, <2>3, <2>5, <2>7 DEF Given
    <2>9. e \/ Gathered(q, 0)'
        BY <1>3, <1>14 DEF Gathered
    <2>10. UnderWay(first, q)'
        <3>1. e \/ j = 0
            BY <1>9, <1>14
        <3>2. CASE e
            BY <1>2, <1>6, <1>8, <1>9, <1>14, <2>3, <3>2 DEF UnderWay
        <3>3. CASE ~e
            BY <1>2, <1>6, <1>8, <1>9, <1>14, <2>3, <2>9, <3>1, <3>3 DEF UnderWay
        <3> QED BY <3>2, <3>3
    <2> QED BY <1>9, <1>14, <2>3, <2>8, <2>10 DEF r
<1> QED BY <1>2, <1>13, <1>14

\* Only what has been delivered is answered when it ends.
LEMMA ReceivedAnswered ==
    ASSUME TransferTypeInv, NEW first \in Nat, NEW q \in Seq(Message), InOrderFrom(first, q),
           NEW e \in BOOLEAN, NEW f \in Frame, NEW fail,
           NEW R, NEW C, NEW S, NEW D, NEW E,
           Handled(e, f, fail, R, C, S, D, E)
    PROVE  Answered(first, q)'
<1> DEFINE r == Len(delivered)
           n == Len(delivered')
           o == E.out
           B == back \o o
<1>1. /\ f.more => n = r
      /\ ~f.more => n = r + 1 /\ f.id = IdAt(first, r + 1)
    BY ReceivedGiven
<1>2. /\ r \in Nat /\ back \in Seq(Answer)
      /\ f.more \in BOOLEAN /\ tx' = tx
    BY TypeParts DEF TransferTypeInv, Handled
<1>3. /\ rx'.held \subseteq rx.held \cup {f.id}
      /\ f.more => rx'.held = rx.held
      /\ back' = B /\ o \in Seq(Answer) /\ Settles(o, f)
    BY RestsReceiver
<1>4. /\ \A id \in rx.held : \E i \in 1 .. r : id = IdAt(first, i)
      /\ \A j \in 1 .. Len(back) :
            back[j].type = "DISPOSITION" =>
               \E i \in 1 .. r : back[j].first = IdAt(first, i) /\ back[j].last = IdAt(first, i)
      /\ \A m \in 1 .. Len(tx.sends) :
            tx.sends[m].state = "OK" => \E i \in 1 .. r : q[i] = m
    BY DEF InOrderFrom, Answered
<1> HIDE DEF r, n
<1>5. /\ \A i \in 1 .. r : i \in 1 .. n
      /\ ~f.more => \E i \in 1 .. n : f.id = IdAt(first, i)
    <2>1. ~f.more => r + 1 \in 1 .. n
        BY <1>1, <1>2
    <2>2. \A i \in 1 .. r : i \in 1 .. n
        BY <1>1, <1>2
    <2> QED BY <1>1, <2>1, <2>2
<1>6. \A id \in rx'.held : \E i \in 1 .. n : id = IdAt(first, i)
    BY <1>2, <1>3, <1>4, <1>5
<1>7. ASSUME NEW j \in 1 .. Len(B), B[j].type = "DISPOSITION"
      PROVE  \E i \in 1 .. n : B[j].first = IdAt(first, i) /\ B[j].last = IdAt(first, i)
    <2>1. o \in Seq(Answer) /\ back \in Seq(Answer)
        BY <1>2, <1>3
    <2> HIDE DEF o
    <2>2. /\ \A i \in 1 .. Len(back) : B[i] = back[i]
          /\ \A k \in 1 .. Len(o) : B[Len(back) + k] = o[k]
          /\ \A i \in 1 .. Len(B) :
                i \in 1 .. Len(back) \/ \E k \in 1 .. Len(o) : i = Len(back) + k
        BY <2>1, Behind
    <2> HIDE DEF B
    <2>3. CASE j \in 1 .. Len(back)
        BY <1>4, <1>5, <1>7, <2>2, <2>3
    <2>4. CASE \E k \in 1 .. Len(o) : j = Len(back) + k
        <3>1. PICK k \in 1 .. Len(o) : B[j] = o[k]
            BY <2>2, <2>4
        <3>2. ~f.more /\ B[j].first = f.id /\ B[j].last = f.id
            BY <1>3, <1>7, <3>1 DEF Settles
        <3> QED BY <1>5, <3>2
    <2> QED BY <2>2, <2>3, <2>4
<1>8. \A m \in 1 .. Len(tx.sends) :
         tx.sends[m].state = "OK" => \E i \in 1 .. n : q[i] = m
    BY <1>4, <1>5
<1> HIDE DEF B
<1> QED BY <1>2, <1>3, <1>6, <1>7, <1>8 DEF Answered, n

\* As long as no message is split, the receiver counts what it has delivered.
LEMMA ReceivedWindows ==
    ASSUME TransferTypeInv, NEW first \in Nat, NEW q \in Seq(Message), InOrderFrom(first, q),
           NEW e \in BOOLEAN, NEW f \in Frame, NEW fail,
           NEW R, NEW C, NEW S, NEW D, NEW E,
           Handled(e, f, fail, R, C, S, D, E)
    PROVE  Windows(first, q)'
<1>1. /\ forth # <<>> /\ f = Head(forth) /\ f.type = "TRANSFER" /\ forth' = Tail(forth)
      /\ taken' = taken + 1 /\ f.more \in BOOLEAN
      /\ Received(f, fail, R, C, S, D, E) /\ rx_writes(E)
      /\ UNCHANGED <<tx, written, split, flows>>
    BY DEF Handled
<1>2. /\ forth \in Seq(Frame) /\ back \in Seq(Answer) /\ Len(delivered) \in Nat
      /\ rx \in RxIdle /\ tx \in TxIdle /\ written \in Nat /\ taken \in Nat /\ granted \in Nat
    BY TypeParts DEF TransferTypeInv
<1>3. Windows(first, q)
    BY DEF InOrderFrom
<1>4. CASE split
    BY <1>1, <1>4 DEF Windows
<1>5. CASE ~split
    <2>1. /\ written = Len(q) /\ taken = Len(delivered)
          /\ \A j \in 1 .. Len(forth) : forth[j].type = "TRANSFER" => ~forth[j].more
          /\ rx.next_incoming_id = (first + taken) % MOD
          /\ rx.incoming_window <= INCOMING_WINDOW
          /\ written + tx.remote_incoming_window <= granted
        BY <1>3, <1>5 DEF Windows
    <2> DEFINE a == written + tx.remote_incoming_window
    <2>2. PICK z \in Nat : /\ Path(Nat, Backward(first, taken, granted), back, a, z)
                           /\ z <= taken + rx.incoming_window
        BY <1>3, <1>5 DEF Windows
    <2>3. a \in Nat /\ rx.incoming_window \in Nat
        <3>1. tx.remote_incoming_window \in Nat
            BY <1>2, Numbers DEF TxIdle
        <3>2. rx.incoming_window \in Nat
            BY <1>2, Numbers DEF RxIdle
        <3> QED BY <1>2, <3>1, <3>2
    <2>4. a <= granted
        BY <2>1
    <2> HIDE DEF a
    <2>5. ~f.more
        <3>1. forth[1] = f /\ 1 \in 1 .. Len(forth)
            BY <1>1, <1>2, TailOf
        <3> QED BY <1>1, <2>1, <3>1
    <2> DEFINE t == taken + 1
    <2>6. t \in Nat /\ taken' = t /\ taken <= t
        BY <1>1, <1>2
    <2>7. Len(delivered') = t
        BY <2>1, <2>5, ReceivedGiven
    <2>8. rx'.next_incoming_id = (first + t) % MOD
        <3>1. (((first + taken) % MOD) + 1) % MOD = ((first + taken) + 1) % MOD
            <4> DEFINE x == first + taken
            <4>1. x \in Int /\ 1 \in Int /\ MOD \in Nat /\ MOD > 0
                BY <1>2, Numbers
            <4> HIDE DEF x
            <4>2. ((x % MOD) + 1) % MOD = (x + 1) % MOD
                BY <4>1, CountsOn
            <4> QED BY <4>2 DEF x
        <3>2. (first + taken) + 1 = first + t
            BY <1>2
        <3>3. rx'.next_incoming_id = (rx.next_incoming_id + 1) % MOD
            BY RestsReceiver
        <3> QED BY <2>1, <3>1, <3>2, <3>3
    <2>9. R.next_incoming_id = (first + t) % MOD
        <3>1. rx'.next_incoming_id = (rx.next_incoming_id + 1) % MOD
            BY RestsReceiver
        <3> QED BY <1>1, <2>8, <3>1 DEF Received
    <2>10. /\ R.incoming_window <= INCOMING_WINDOW
           /\ t + R.incoming_window = taken + rx.incoming_window
           /\ E \in RxRecord /\ E.out \in Seq(Answer)
        <3>1. R.incoming_window = rx.incoming_window - 1
            BY <1>1 DEF Received
        <3>2. INCOMING_WINDOW \in Nat
            BY TransfersAssumption DEF TransfersAssumption
        <3>3. E \in RxRecord /\ E.out \in Seq(Answer)
            BY <1>1 DEF Received, RxRecord
        <3>4. rx.incoming_window - 1 <= INCOMING_WINDOW
            BY <2>1, <2>3, <3>2
        <3>5. t + (rx.incoming_window - 1) = taken + rx.incoming_window
            <4> DEFINE w == rx.incoming_window
            <4>1. w \in Nat
                BY <2>3
            <4> HIDE DEF w
            <4>2. t + (w - 1) = taken + w
                BY <1>2, <4>1
            <4> QED BY <4>2 DEF w
        <3> QED BY <3>1, <3>3, <3>4, <3>5
    <2> HIDE DEF t
    <2>11. /\ granted' \in Nat /\ granted <= granted'
           /\ \A k \in 1 .. Len(E.out) : E.out[k].type # "DISPOSITION" =>
                 t + E.out[k].incoming_window <= granted'
        BY <1>1, <1>2, <2>6, <2>10, GrantedRises
    <2>12. PICK h \in Nat : h = granted'
        BY <2>11
    <2>13. granted <= h /\ Fit(E.out, t, h)
        BY <2>11, <2>12 DEF Fit
    <2>14. Path(Nat, Backward(first, t, h), back, a, z)
        BY <1>2, <2>2, <2>6, <2>13, BackwardGrows
    <2>15. Leads(first, t, h, back, a, <<>>, R.incoming_window)
        <3>1. back \o <<>> = back
            BY <1>2, ConcatEmptySeq
        <3>2. z <= t + R.incoming_window
            BY <2>2, <2>10
        <3> QED BY <2>14, <3>1, <3>2 DEF Leads
    <2>16. /\ E.incoming_window <= INCOMING_WINDOW
           /\ Leads(first, t, h, back, a, E.out, E.incoming_window)
        BY <1>1, <1>2, <2>6, <2>9, <2>10, <2>15, ReceivedLeads
    <2>17. PICK y \in Nat : /\ Path(Nat, Backward(first, t, h), back \o E.out, a, y)
                            /\ y <= t + E.incoming_window
        BY <2>13, <2>16 DEF Leads
    <2>18. rx'.incoming_window = E.incoming_window /\ back' = back \o E.out
        BY RestsReceiver
    <2>19. a <= h
        BY <1>2, <2>3, <2>4, <2>13
    <2>20. \A j \in 1 .. Len(forth') : forth'[j].type = "TRANSFER" => ~forth'[j].more
        <3> DEFINE F == Tail(forth)
        <3>1. /\ Len(forth) \in Nat /\ Len(F) = Len(forth) - 1
              /\ \A j \in 1 .. Len(forth) - 1 : F[j] = forth[j + 1]
            BY <1>1, <1>2, TailOf
        <3> HIDE DEF F
        <3>2. ASSUME NEW j \in 1 .. Len(F) PROVE F[j].type = "TRANSFER" => ~F[j].more
            <4>1. j + 1 \in 1 .. Len(forth) /\ j \in 1 .. Len(forth) - 1
                BY <3>1
            <4> QED BY <2>1, <3>1, <4>1
        <3>3. forth' = F
            BY <1>1 DEF F
        <3> QED BY <3>2, <3>3
    <2>21. /\ written' = Len(q) /\ taken' = Len(delivered')
           /\ rx'.next_incoming_id = (first + taken') % MOD
           /\ rx'.incoming_window <= INCOMING_WINDOW
           /\ written' + tx'.remote_incoming_window = a
        BY <1>1, <2>1, <2>6, <2>7, <2>8, <2>16, <2>18 DEF a
    <2>22. \E x \in Nat : /\ Path(Nat, Backward(first, taken', granted'), back', a, x)
                          /\ x <= taken' + rx'.incoming_window
        BY <2>6, <2>12, <2>17, <2>18
    <2> QED BY <2>12, <2>19, <2>20, <2>21, <2>22 DEF Windows
<1> QED BY <1>4, <1>5

\* The handler of a TRANSFER keeps the invariant.
LEMMA ReceiveKeeps ==
    ASSUME TransfersInv, NEW settle, NEW fail, rx_transfer_received(settle, fail)
    PROVE  TransfersInv'
<1>1. TransferTypeInv /\ Idle
    BY DEF TransfersInv
<1>2. PICK first \in Nat : \E q \in Seq(Message) : InOrderFrom(first, q)
    BY DEF TransfersInv
<1>3. PICK q \in Seq(Message) : InOrderFrom(first, q)
    BY <1>2
<1>4. PICK e \in BOOLEAN, f \in Frame : \E R, C, S, D, E \in RxRecord :
         Handled(e, f, fail, R, C, S, D, E)
    BY <1>1, HandlerSteps
<1>5. PICK R, C, S, D, E \in RxRecord : Handled(e, f, fail, R, C, S, D, E)
    BY <1>4
<1>6. tx' = tx /\ disturbed' = e /\ (disturbed => e)
    BY <1>5 DEF Handled
<1>7. Given(q)' /\ UnderWay(first, q)'
    BY <1>1, <1>3, <1>5, ReceivedGiven
<1>8. Answered(first, q)'
    BY <1>1, <1>3, <1>5, ReceivedAnswered
<1>9. Windows(first, q)'
    BY <1>1, <1>3, <1>5, ReceivedWindows
<1>10. Sender(first, q, e, tx)
    <2>1. Sender(first, q, disturbed, tx)
        BY <1>3 DEF InOrderFrom
    <2> QED BY <1>6, <2>1 DEF Sender
<1>11. InOrderFrom(first, q)'
    BY <1>6, <1>7, <1>8, <1>9, <1>10 DEF InOrderFrom
<1>12. Idle'
    BY <1>1, <1>6 DEF Idle
<1>13. TransferTypeInv'
    BY <1>1, ReceivedTypes
<1> QED BY <1>11, <1>12, <1>13 DEF TransfersInv

-----------------------------------------------------------------------------
(* The inductive invariant *)

\* It holds when sessions and links have been set up,
LEMMA TransfersInit ==
    ASSUME TransferInit
    PROVE  TransfersInv
<1> DEFINE q == <<>>
<1>1. PICK first \in {0, MOD - 1} :
         /\ tx.next_outgoing_id = first /\ tx.remote_incoming_window = INCOMING_WINDOW
         /\ tx.deliveries = {} /\ tx.sends = <<>> /\ tx.broken = {}
         /\ rx.next_incoming_id = first /\ rx.incoming_window = INCOMING_WINDOW
         /\ rx.received_payload = <<>> /\ rx.held = {}
    BY DEF TransferInit
<1>2. /\ forth = <<>> /\ back = <<link_flow_frame(rx)>> /\ delivered = <<>>
      /\ written = 0 /\ taken = 0 /\ granted = INCOMING_WINDOW /\ ~disturbed
    BY TransfersAssumption DEF TransferInit, disturbed, TransfersAssumption
<1>3. TransferTypeInv
    BY TransferInitTypes
<1>4. first \in Nat /\ first \in Int /\ first % MOD = first /\ first + 0 = first
    BY Numbers
<1>5. q \in Seq(Message) /\ Len(q) = 0
    OBVIOUS
<1> HIDE DEF q
<1>6. /\ Len(tx.sends) = 0 /\ DOMAIN tx.sends = {} /\ Len(delivered) = 0
      /\ waiting(tx) = {}
    BY <1>1, <1>2 DEF waiting
<1>7. Idle
    BY <1>6 DEF Idle
<1>8. Sending(tx)
    <2>1. tx \in TxIdle /\ Len(tx.sends) <= MaxMessages
        BY <1>3, TypeParts DEF TransferTypeInv
    <2> QED BY <2>1, IdleTx
<1>9. Sender(first, q, disturbed, tx)
    <2>1. \A i : i \notin 1 .. Len(q)
        BY <1>5
    <2>2. tx.next_outgoing_id = (first + Len(q)) % MOD
        BY <1>1, <1>4, <1>5
    <2> QED BY <1>1, <1>5, <1>6, <1>8, <2>1, <2>2 DEF Sender
<1>10. UnderWay(first, q)
    <2> DEFINE a == <<0, 0>>
               N == Onward(first, q, tx.sends, disturbed)
    <2>1. a \in Cursor
        BY DEF Cursor
    <2> HIDE DEF a, N
    <2>2. Path(Cursor, N, <<>>, a, a)
        BY <2>1, PathEmpty
    <2>3. Gathered(q, 0)
        BY <1>1 DEF Gathered
    <2> QED BY <1>2, <1>5, <1>6, <2>2, <2>3 DEF UnderWay, a, N
<1>11. Given(q)
    <2>1. \A j : j \notin 1 .. Len(delivered)
        BY <1>6
    <2> QED BY <1>5, <1>6, <2>1 DEF Given
<1> DEFINE x == link_flow_frame(rx)
<1>12. /\ Len(back) = 1 /\ back[1] = x /\ x.type = "LINK_FLOW"
       /\ x.next_incoming_id = first /\ x.incoming_window = INCOMING_WINDOW
    BY <1>1, <1>2 DEF link_flow_frame
<1>13. x \in Answer
    <2>1. back \in Seq(Answer)
        BY <1>3, TypeParts DEF TransferTypeInv
    <2> HIDE DEF x
    <2> QED BY <1>12, <2>1
<1> HIDE DEF x
<1>14. Answered(first, q)
    <2>1. \A j \in 1 .. Len(back) : back[j].type # "DISPOSITION"
        BY <1>12
    <2> QED BY <1>1, <1>6, <2>1 DEF Answered
<1>15. Windows(first, q)
    <2> DEFINE g == INCOMING_WINDOW
               N == Backward(first, taken, granted)
    <2>1. g \in Nat /\ 0 + g = g /\ g <= g
        BY TransfersAssumption DEF TransfersAssumption
    <2>2. <<x, g, g>> \in N
        <3>1. 0 \in 0 .. taken /\ x.next_incoming_id = (first + 0) % MOD
            BY <1>2, <1>4, <1>12
        <3>2. Allows(first, taken, granted, x, g, g)
            BY <1>2, <1>12, <2>1, <3>1 DEF Allows
        <3> QED BY <1>13, <2>1, <3>2, AllowsIs
    <2> HIDE DEF N
    <2>3. Path(Nat, N, <<x>>, g, g)
        BY <2>1, <2>2, PathOne
    <2>4. \E e \in Nat : Path(Nat, N, back, g, e) /\ e <= taken + rx.incoming_window
        BY <1>1, <1>2, <2>1, <2>3 DEF x
    <2>5. written + tx.remote_incoming_window = g
        BY <1>1, <1>2, <2>1
    <2>6. rx.next_incoming_id = (first + taken) % MOD /\ Len(forth) = 0
        BY <1>1, <1>2, <1>4
    <2> QED BY <1>1, <1>2, <1>5, <1>6, <2>1, <2>4, <2>5, <2>6 DEF Windows, N
<1>16. InOrderFrom(first, q)
    BY <1>9, <1>10, <1>11, <1>14, <1>15 DEF InOrderFrom
<1> QED BY <1>3, <1>4, <1>5, <1>7, <1>16 DEF TransfersInv

\* every step keeps it,
LEMMA TransfersStep ==
    ASSUME TransfersInv, [TransferNext]_transfer_vars
    PROVE  TransfersInv'
<1>1. ASSUME NEW payload \in Payloads, NEW B \in Breakable(Len(tx.sends) + 1, payload),
             messagesender_send_async(payload, B)
      PROVE  TransfersInv'
    BY <1>1, SendKeeps
<1>2. CASE send_flow
    BY <1>2, FlowSentKeeps
<1>3. CASE disposition_received
    BY <1>3, SettleKeeps
<1>4. ASSUME NEW B, FlowBreaks(B), flow_received(B)
      PROVE  TransfersInv'
    BY <1>4, FlowKeeps
<1>5. CASE rx_flow_received
    BY <1>5, FlowSeenKeeps
<1>6. ASSUME NEW settle, NEW fail, rx_transfer_received(settle, fail)
      PROVE  TransfersInv'
    BY <1>6, ReceiveKeeps
<1>7. ASSUME NEW id \in rx.held, messagereceiver_send_message_disposition(id)
      PROVE  TransfersInv'
    BY <1>7, DisposeKeeps
<1>8. CASE UNCHANGED transfer_vars
    <2>1. TransferTypeInv'
        <3>1. [TransferNext]_transfer_vars /\ TransferTypeInv
            BY DEF TransfersInv
        <3> QED BY <3>1, TransferStepTypes
    <2>2. UNCHANGED <<tx, rx, forth, back, delivered, written, taken, granted, split, faults>>
        BY <1>8 DEF transfer_vars
    <2>3. Idle'
        BY <2>2 DEF TransfersInv, Idle, disturbed
    <2>4. ASSUME NEW first \in Nat, NEW q \in Seq(Message), InOrderFrom(first, q)
          PROVE  InOrderFrom(first, q)'
        <3>1. disturbed' = disturbed
            BY <2>2 DEF disturbed
        <3>2. Sender(first, q, disturbed, tx)' /\ Windows(first, q)' /\ Answered(first, q)'
            BY <2>2, <2>4, <3>1 DEF InOrderFrom, Windows, Answered
        <3>3. \A k : Gathered(q, k) => Gathered(q, k)'
            BY <2>2 DEF Gathered
        <3>4. UnderWay(first, q)'
            BY <2>2, <2>4, <3>1, <3>3 DEF InOrderFrom, UnderWay
        <3>5. Given(q)'
            BY <2>2, <2>4, <3>1 DEF InOrderFrom, Given, original
        <3> QED BY <3>2, <3>4, <3>5 DEF InOrderFrom
    <2> QED BY <2>1, <2>3, <2>4 DEF TransfersInv
<1> QED BY <1>1, <1>2, <1>3, <1>4, <1>5, <1>6, <1>7, <1>8, TransferCases

\* and so it always holds.
LEMMA TransfersAlways == TransferSpec => []TransfersInv
<1>1. TransferInit => TransfersInv
    BY TransfersInit
<1>2. TransfersInv /\ [TransferNext]_transfer_vars => TransfersInv'
    BY TransfersStep
<1> QED BY <1>1, <1>2, PTL DEF TransferSpec

\* session.c: as long as no message is split, never more TRANSFER frames are
\* written than the receiving session has allowed, for every window, credit and
\* number of messages, whatever numbers wrap and FLOWs get lost.
THEOREM WindowIsKept == TransferSpec => []WindowKept
<1>1. TransfersInv => WindowKept
    <2> SUFFICES ASSUME TransfersInv, ~split PROVE written <= granted
        BY DEF WindowKept
    <2>1. PICK first \in Nat : \E q \in Seq(Message) : InOrderFrom(first, q)
        BY DEF TransfersInv
    <2>2. PICK q \in Seq(Message) : InOrderFrom(first, q)
        BY <2>1
    <2>3. written + tx.remote_incoming_window <= granted
        BY <2>2 DEF InOrderFrom, Windows
    <2>4. tx.remote_incoming_window \in Nat
        BY <2>2, SenderParts DEF InOrderFrom
    <2>5. written \in Nat /\ granted \in Nat
        BY TypeParts DEF TransfersInv, TransferTypeInv
    <2> QED BY <2>3, <2>4, <2>5
<1> QED BY <1>1, TransfersAlways, PTL

\* link.c and message_sender.c: what is delivered is what was sent, whole, in order
\* and once, as long as nothing fails; and whatever fails, on_message_send_complete
\* says OK only of a message that was delivered and ERROR only of one that was not.
THEOREM IntactDelivery == TransferSpec => []DeliveredIntact
<1>1. TransfersInv => DeliveredIntact
    <2> SUFFICES ASSUME TransfersInv PROVE DeliveredIntact
        OBVIOUS
    <2> DEFINE r == Len(delivered)
               N == Len(tx.sends)
    <2>1. PICK first \in Nat : \E q \in Seq(Message) : InOrderFrom(first, q)
        BY DEF TransfersInv
    <2>2. PICK q \in Seq(Message) : InOrderFrom(first, q)
        BY <2>1
    <2>3. /\ r \in Nat /\ DOMAIN delivered = 1 .. r
          /\ r <= Len(q) /\ Len(q) \in Nat /\ \A i \in 1 .. r : i \in 1 .. Len(q)
        <3>1. delivered \in Seq([message : Message, payload : Seq(Byte)])
            BY TypeParts DEF TransfersInv, TransferTypeInv
        <3>2. r \in Nat /\ DOMAIN delivered = 1 .. r
            BY <3>1
        <3>3. r <= Len(q)
            BY <2>2 DEF InOrderFrom, Given
        <3> QED BY <3>2, <3>3
    <2>4. \A i \in 1 .. r : /\ delivered[i].message = q[i]
                            /\ disturbed \/ delivered[i].payload = original(q[i])
        BY <2>2 DEF InOrderFrom, Given
    <2>5. /\ DOMAIN tx.sends = 1 .. N
          /\ \A i, j \in 1 .. Len(q) : q[i] = q[j] => i = j
          /\ ~disturbed => \A i, j \in 1 .. Len(q) : i < j => q[i] < q[j]
          /\ \A m \in DOMAIN tx.sends :
                tx.sends[m].state \in {"PENDING", "OK"} <=> \E i \in 1 .. Len(q) : q[i] = m
        BY <2>2, SenderParts DEF InOrderFrom, Sender
    <2>6. \A m \in 1 .. N : tx.sends[m].state = "OK" => \E i \in 1 .. r : q[i] = m
        BY <2>2 DEF InOrderFrom, Answered
    <2> HIDE DEF r, N
    <2>7. ASSUME NEW j \in 1 .. r, NEW k \in 1 .. r, j < k
          PROVE  IF disturbed THEN delivered[j].message # delivered[k].message
                 ELSE delivered[j].message < delivered[k].message
        BY <2>3, <2>4, <2>5, <2>7
    <2>8. ~disturbed => \A k \in 1 .. r : delivered[k].payload = original(delivered[k].message)
        BY <2>4
    <2>9. ASSUME NEW m \in 1 .. N, tx.sends[m].state = "OK" PROVE Arrived(m)
        BY <2>3, <2>4, <2>6, <2>9 DEF Arrived
    <2>10. ASSUME NEW m \in 1 .. N, tx.sends[m].state = "ERROR" PROVE ~Arrived(m)
        <3>1. tx.sends[m].state \notin {"PENDING", "OK"}
            BY <2>10
        <3>2. \A i \in 1 .. r : q[i] # m
            BY <2>3, <2>5, <3>1
        <3> QED BY <2>3, <2>4, <3>2 DEF Arrived
    <2> QED BY <2>3, <2>5, <2>7, <2>8, <2>9, <2>10 DEF DeliveredIntact
<1> QED BY <1>1, TransfersAlways, PTL
=============================================================================
