------------------------ MODULE MakerCommitmentProofs ------------------------
(* A request costs the maker at most one write and one signature, and gets   *)
(* one answer, its own, in its turn.                                         *)
EXTENDS MakerQuotingProofs

Waiting(s) == {inq[s][k] : k \in DOMAIN inq[s]}

\* Every request has one place: it waits on the one stream that carried it, once,
\* or is in hand, or has been dealt with.
OnePlace ==
    /\ routed["rfq"] \cap routed["soft"] = {}
    /\ \A s \in Streams :
          /\ Waiting(s) \subseteq routed[s]
          /\ \A k, l \in DOMAIN inq[s] : inq[s][k] = inq[s][l] => k = l
    /\ at # "select" => cur \in routed[branch] \ Waiting(branch)

\* What waits has cost nothing yet, and what is in hand has cost what the
\* handler's place says.
CostSoFar ==
    /\ \A i \in DOMAIN writes : writes[i].req \notin Waiting("rfq")
    /\ \A i \in DOMAIN signed : signed[i].req \notin Waiting("rfq")
    /\ at = "write" => \A i \in DOMAIN writes : writes[i].req # cur
    /\ at \in {"write", "receipt", "sign"} =>
          /\ branch = "rfq" /\ Warranted(cur)
          /\ \A i \in DOMAIN signed : signed[i].req # cur
    /\ at \in {"write", "receipt"} => cur.action = "Buy"

CommitmentInv == OnePlace /\ CostSoFar /\ OneCommitmentPerRequest

-----------------------------------------------------------------------------
(* Places.                                                                 *)

\* Reading takes one request off one stream and leaves the others where they are.
LEMMA ReadTakesOne ==
    ASSUME NEW s \in Streams, ChannelsOK, OnePlace, Reads(s)
    PROVE  /\ Head(inq[s]) \in Waiting(s)
           /\ Waiting(s)' = Waiting(s) \ {Head(inq[s])}
           /\ \A t \in Streams \ {s} : inq'[t] = inq[t]
           /\ \A k, l \in DOMAIN inq'[s] : inq'[s][k] = inq'[s][l] => k = l
<1> DEFINE q == inq[s]
<1>1. q \in Seq(Requests) /\ q # <<>> /\ inq' = [inq EXCEPT ![s] = Tail(q)]
    BY DEF ChannelsOK, Reads
<1>2. inq'[s] = Tail(q) /\ \A t \in Streams \ {s} : inq'[t] = inq[t]
    BY <1>1 DEF ChannelsOK
<1>3. /\ Len(q) \in Nat \ {0} /\ DOMAIN q = 1..Len(q)
      /\ Head(q) = q[1]
      /\ DOMAIN Tail(q) = 1..(Len(q) - 1)
      /\ \A k \in 1..(Len(q) - 1) : Tail(q)[k] = q[k + 1]
    BY <1>1, LenProperties, HeadTailProperties
<1>4. \A k, l \in DOMAIN q : q[k] = q[l] => k = l
    BY DEF OnePlace
<1>5. Waiting(s)' = {Tail(q)[k] : k \in DOMAIN Tail(q)}
    BY <1>2 DEF Waiting
<1>6. Waiting(s) = {q[k] : k \in DOMAIN q}
    BY DEF Waiting
<1> HIDE DEF q
<1>7. {Tail(q)[k] : k \in DOMAIN Tail(q)} = {q[k] : k \in DOMAIN q} \ {q[1]}
  <2>1. ASSUME NEW k \in DOMAIN Tail(q) PROVE Tail(q)[k] \in {q[l] : l \in DOMAIN q} \ {q[1]}
    <3>1. k + 1 \in DOMAIN q /\ k + 1 # 1 /\ 1 \in DOMAIN q /\ Tail(q)[k] = q[k + 1]
        BY <1>3, <2>1
    <3>2. QED
        BY <1>4, <3>1
  <2>2. ASSUME NEW l \in DOMAIN q, q[l] # q[1] PROVE q[l] \in {Tail(q)[k] : k \in DOMAIN Tail(q)}
    <3>1. l - 1 \in DOMAIN Tail(q) /\ Tail(q)[l - 1] = q[l]
        BY <1>3, <2>2
    <3>2. QED
        BY <3>1
  <2>3. QED
      BY <2>1, <2>2
<1>8. \A k, l \in DOMAIN Tail(q) : Tail(q)[k] = Tail(q)[l] => k = l
  <2>1. ASSUME NEW k \in DOMAIN Tail(q), NEW l \in DOMAIN Tail(q), Tail(q)[k] = Tail(q)[l] PROVE k = l
    <3>1. k + 1 \in DOMAIN q /\ l + 1 \in DOMAIN q /\ q[k + 1] = q[l + 1] /\ k \in Nat /\ l \in Nat
        BY <1>3, <2>1
    <3>2. k + 1 = l + 1
        BY <1>4, <3>1
    <3>3. QED
        BY <3>1, <3>2
  <2>2. QED
      BY <2>1
<1>9. Head(q) \in {q[k] : k \in DOMAIN q}
    BY <1>3
<1>10. QED
    BY <1>2, <1>3, <1>5, <1>6, <1>7, <1>8, <1>9 DEF q

\* The ways out of select! with a message: the request is in hand, or ignored.
LEMMA PickTakesOne ==
    ASSUME Pick
    PROVE  \E s \in Streams :
              /\ Reads(s)
              /\ UNCHANGED <<routed, writes, signed>>
              /\ \/ UNCHANGED <<at, branch, cur>>
                 \/ branch' = s /\ cur' = Head(inq[s]) /\ at' # "select"
<1>1. ASSUME NEW s \in Streams, Ignore(s) \/ Decline(s)
      PROVE  /\ Reads(s)
             /\ UNCHANGED <<routed, writes, signed>>
             /\ \/ UNCHANGED <<at, branch, cur>>
                \/ branch' = s /\ cur' = Head(inq[s]) /\ at' # "select"
    BY <1>1 DEF Ignore, Decline, Answer, locals, relayVars, chainVars
<1>2. CASE TakeBuy \/ TakeSell
    BY <1>2 DEF TakeBuy, TakeSell, relayVars, chainVars, Streams
<1>3. CASE TakeSoftQuote
    BY <1>3 DEF TakeSoftQuote, relayVars, chainVars, Streams
<1>4. QED
    BY <1>1, <1>2, <1>3 DEF Pick

LEMMA PlaceNext == TypeInv /\ OnePlace /\ [Next]_vars => OnePlace'
<1> SUFFICES ASSUME TypeInv, OnePlace, [Next]_vars PROVE OnePlace'
    OBVIOUS
<1>0. ChannelsOK /\ LocalsOK /\ routed \in [Streams -> SUBSET Requests]
    BY DEF TypeInv, TypeOK, LedgerOK
<1>1. ASSUME UNCHANGED <<routed, inq>>,
             at' = "select" \/ (at # "select" /\ UNCHANGED <<branch, cur>>)
      PROVE  OnePlace'
    BY <1>1 DEF OnePlace, Waiting
<1>2. ASSUME NEW s \in Streams, Reads(s), UNCHANGED routed,
             \/ UNCHANGED <<at, branch, cur>>
             \/ branch' = s /\ cur' = Head(inq[s]) /\ at' # "select"
      PROVE  OnePlace'
  <2>1. /\ Head(inq[s]) \in Waiting(s)
        /\ Waiting(s)' = Waiting(s) \ {Head(inq[s])}
        /\ \A t \in Streams \ {s} : inq'[t] = inq[t]
        /\ \A k, l \in DOMAIN inq'[s] : inq'[s][k] = inq'[s][l] => k = l
      BY <1>0, <1>2, ReadTakesOne
  <2>2. \A t \in Streams \ {s} : Waiting(t)' = Waiting(t)
      BY <2>1 DEF Waiting
  <2>3. \A t \in Streams : Waiting(t)' \subseteq routed'[t]
      BY <1>2, <2>1, <2>2 DEF OnePlace
  <2>4. \A t \in Streams : \A k, l \in DOMAIN inq'[t] : inq'[t][k] = inq'[t][l] => k = l
      BY <2>1 DEF OnePlace
  <2>5. at' # "select" => cur' \in routed'[branch'] \ Waiting(branch)'
      BY <1>2, <2>1 DEF OnePlace, Reads
  <2>6. QED
      BY <1>2, <2>3, <2>4, <2>5 DEF OnePlace
<1>3. ASSUME DropRun, UNCHANGED routed PROVE OnePlace'
    BY <1>3 DEF DropRun, BackToSelect, Empty, OnePlace, Waiting
<1>4. ASSUME NEW s \in Streams, NEW r \in Requests, Deliver(s, r) PROVE OnePlace'
  <2> DEFINE q == inq[s]
  <2>1. q \in Seq(Requests) /\ inq'[s] = Append(q, r) /\ \A t \in Streams \ {s} : inq'[t] = inq[t]
      BY <1>0, <1>4 DEF Deliver, ChannelsOK
  <2>2. routed'[s] = routed[s] \cup {r} /\ \A t \in Streams \ {s} : routed'[t] = routed[t]
      BY <1>0, <1>4 DEF Deliver
  <2>3. \A t \in Streams : r \notin routed[t]
      BY <1>4 DEF Deliver
  <2>4. /\ DOMAIN Append(q, r) = DOMAIN q \cup {Len(q) + 1}
        /\ Append(q, r)[Len(q) + 1] = r
        /\ \A k \in DOMAIN q : Append(q, r)[k] = q[k]
      BY <2>1, AppendProperties, LenProperties
  <2>5. /\ Waiting(s)' = Waiting(s) \cup {r}
        /\ \A t \in Streams \ {s} : Waiting(t)' = Waiting(t)
      BY <2>1, <2>4 DEF Waiting
  <2>6. \A k \in DOMAIN q : q[k] # r
      BY <2>3 DEF OnePlace, Waiting
  <2>7. \A k, l \in DOMAIN inq'[s] : inq'[s][k] = inq'[s][l] => k = l
      BY <2>1, <2>4, <2>6 DEF OnePlace
  <2>8. \A t \in Streams : \A k, l \in DOMAIN inq'[t] : inq'[t][k] = inq'[t][l] => k = l
      BY <2>1, <2>7 DEF OnePlace
  <2>9. \A t \in Streams : Waiting(t)' \subseteq routed'[t]
      BY <2>2, <2>5 DEF OnePlace
  <2>10. (routed["rfq"] \cap routed["soft"] = {})'
      BY <2>2, <2>3 DEF OnePlace, Streams
  <2>11. at' # "select" => cur' \in routed'[branch'] \ Waiting(branch)'
    <3>1. UNCHANGED <<at, cur, branch>> /\ branch \in Streams
        BY <1>0, <1>4 DEF Deliver, locals, LocalsOK
    <3>2. QED
        BY <2>2, <2>3, <2>5, <3>1 DEF OnePlace
  <2>12. QED
      BY <2>8, <2>9, <2>10, <2>11 DEF OnePlace
<1>5. CASE Pick
    BY <1>2, <1>5, PickTakesOne
<1>6. CASE Reconnects
  <2>1. CASE DropRun
      BY <1>3, <1>6, <2>1 DEF Reconnects, relayVars
  <2>2. CASE UNCHANGED <<locals, channels>>
    <3>1. UNCHANGED <<routed, inq, at, branch, cur>>
        BY <1>6, <2>2 DEF Reconnects, relayVars, locals, channels
    <3>2. QED
        BY <3>1 DEF OnePlace, Waiting
  <2>3. QED
      BY <1>6, <2>1, <2>2 DEF Reconnects
<1>7. ASSUME UNCHANGED <<routed, inq, at, branch, cur>> PROVE OnePlace'
    BY <1>7 DEF OnePlace, Waiting
<1>8. CASE Handle
    BY <1>1, <1>3, <1>8
    DEF Handle, AmountPanics, SendWrite, SendWriteFails, ReceiptOfWrite, ReceiptOfRevert,
        ReceiptMissing, Writing, AwaitsReceipt, SignOrder, BuildOffer, BuildQuote, Send,
        RunReturns, BackToSelect, Answer, channels, relayVars
<1>9. CASE SessionExpires
    BY <1>7, <1>9 DEF SessionExpires, locals, channels, relayVars
<1>10. CASE External
    BY <1>4, <1>7, <1>10
    DEF External, Transmit, Mine, Revert, Fill, Tick, locals, channels, relayVars
<1>11. CASE UNCHANGED vars
    BY <1>7, <1>11 DEF vars, locals, channels, relayVars
<1>12. QED
    BY <1>5, <1>6, <1>8, <1>9, <1>10, <1>11 DEF Next

-----------------------------------------------------------------------------
(* Costs.                                                                  *)

\* The relay forgets nothing, so what the maker may be bound by stays so.
LEMMA WarrantedStays ==
    ASSUME TypeInv, [Next]_vars, NEW r, Warranted(r)
    PROVE  Warranted(r)'
<1>1. CASE UNCHANGED routed
    BY <1>1 DEF Warranted
<1>2. ASSUME NEW s \in Streams, NEW d \in Requests, Deliver(s, d) PROVE Warranted(r)'
    BY <1>2 DEF Deliver, Warranted, TypeInv, TypeOK, LedgerOK, Streams
<1>3. QED
    BY <1>1, <1>2
    DEF Next, Pick, Handle, External, Ignore, Decline, TakeBuy, TakeSell, TakeSoftQuote,
        AmountPanics, SendWrite, SendWriteFails, ReceiptOfWrite, ReceiptOfRevert,
        ReceiptMissing, AwaitsReceipt, SignOrder, BuildOffer, BuildQuote, Send, RunReturns,
        Reconnects, SessionExpires, Transmit, Mine, Revert, Fill, Tick, relayVars, vars

SameCosts ==
    /\ UNCHANGED signed
    /\ DOMAIN writes' = DOMAIN writes
    /\ \A i \in DOMAIN writes : writes'[i].req = writes[i].req

\* A step that writes and signs nothing.
LEMMA CommitmentsStay ==
    ASSUME TypeInv, [Next]_vars, OneCommitmentPerRequest, SameCosts
    PROVE  OneCommitmentPerRequest'
BY WarrantedStays DEF OneCommitmentPerRequest, SameCosts

\* Such a step, if it also takes up no request.
LEMMA CostsStay ==
    ASSUME TypeInv, [Next]_vars, CostSoFar, SameCosts,
           Waiting("rfq")' \subseteq Waiting("rfq"),
           \/ at' \in {"select", "chain_id", "send"}
           \/ UNCHANGED <<at, branch, cur>>
           \/ at' = "sign" /\ at = "receipt" /\ UNCHANGED <<branch, cur>>
    PROVE  CostSoFar'
BY WarrantedStays DEF CostSoFar, SameCosts

LEMMA PickCosts ==
    ASSUME TypeInv, CommitmentInv, [Next]_vars, Pick
    PROVE  CostSoFar' /\ OneCommitmentPerRequest'
<1>0. ChannelsOK /\ OnePlace /\ CostSoFar /\ OneCommitmentPerRequest
    BY DEF TypeInv, TypeOK, CommitmentInv
<1>1. SameCosts
    BY PickTakesOne DEF SameCosts
<1>2. OneCommitmentPerRequest'
    BY <1>0, <1>1, CommitmentsStay
<1>3. PICK s \in Streams : Reads(s)
    BY PickTakesOne
<1>4. /\ Waiting(s)' = Waiting(s) \ {Head(inq[s])}
      /\ \A t \in Streams \ {s} : Waiting(t)' = Waiting(t)
    BY <1>0, <1>3, ReadTakesOne DEF Waiting
<1>5. Waiting("rfq")' \subseteq Waiting("rfq")
    BY <1>4 DEF Streams
<1>6. ASSUME at' \in {"select", "chain_id", "send"} \/ UNCHANGED <<at, branch, cur>>
      PROVE  CostSoFar'
    BY <1>0, <1>1, <1>5, <1>6, CostsStay
<1>7. CASE TakeBuy \/ TakeSell
  <2> DEFINE r == Head(inq["rfq"])
  <2>1. Reads("rfq") /\ UNCHANGED <<writes, signed, routed>>
      BY <1>7 DEF TakeBuy, TakeSell, chainVars, relayVars
  <2>2. r \in Waiting("rfq") /\ Waiting("rfq")' \subseteq Waiting("rfq")
      BY <1>0, <2>1, ReadTakesOne DEF Streams
  <2>3. /\ cur' = r /\ branch' = "rfq" /\ ValidRfq(r) /\ r.chain \in SupportedChains
        /\ \/ at' = "write" /\ r.action = "Buy"
           \/ at' = "sign"
      BY <1>7 DEF TakeBuy, TakeSell
  <2>4. Warranted(cur)'
      BY <1>0, <2>1, <2>2, <2>3 DEF OnePlace, Warranted, Streams
  <2>5. /\ \A i \in DOMAIN writes : writes[i].req # r
        /\ \A i \in DOMAIN signed : signed[i].req # r
      BY <1>0, <2>2 DEF CostSoFar
  <2>6. QED
      BY <1>0, <1>2, <2>1, <2>2, <2>3, <2>4, <2>5 DEF CostSoFar
<1>8. QED
    BY <1>2, <1>6, <1>7
    DEF Pick, Ignore, Decline, TakeSoftQuote, Answer, locals

LEMMA HandleCosts ==
    ASSUME TypeInv, CommitmentInv, [Next]_vars, Handle
    PROVE  CostSoFar' /\ OneCommitmentPerRequest'
<1>0. /\ ChannelsOK /\ OnePlace /\ CostSoFar /\ OneCommitmentPerRequest
      /\ writes \in Seq(Writes) /\ signed \in Seq(Orders)
    BY DEF TypeInv, TypeOK, LedgerOK, CommitmentInv
<1>1. UNCHANGED <<writes, signed>> => SameCosts
    BY DEF SameCosts
<1>2. ASSUME UNCHANGED <<writes, signed, inq>>,
             \/ at' \in {"select", "chain_id", "send"}
             \/ at' = "sign" /\ at = "receipt" /\ UNCHANGED <<branch, cur>>
      PROVE  CostSoFar' /\ OneCommitmentPerRequest'
    BY <1>0, <1>1, <1>2, CommitmentsStay, CostsStay DEF Waiting
<1>3. ASSUME DropRun, UNCHANGED <<writes, signed>>
      PROVE  CostSoFar' /\ OneCommitmentPerRequest'
  <2>1. Waiting("rfq")' = {} /\ at' = "select"
      BY <1>3 DEF DropRun, BackToSelect, Empty, Waiting, Streams
  <2>2. QED
      BY <1>0, <1>1, <1>3, <2>1, CommitmentsStay, CostsStay
<1>4. ASSUME at = "write", writes' = Append(writes, Write(cur)),
             at' \in {"receipt", "send"}, UNCHANGED <<branch, cur, inq, signed, routed>>
      PROVE  CostSoFar' /\ OneCommitmentPerRequest'
  <2>1. /\ Warranted(cur) /\ cur.action = "Buy" /\ branch = "rfq"
        /\ cur \notin Waiting("rfq")
        /\ \A i \in DOMAIN writes : writes[i].req # cur
        /\ \A i \in DOMAIN signed : signed[i].req # cur
      BY <1>0, <1>4 DEF CostSoFar, OnePlace
  <2>2. Write(cur) \in Writes /\ Write(cur).req = cur
      BY <1>4 DEF Write, Writes, TypeInv, InHandler
  <2>3. /\ DOMAIN writes' = DOMAIN writes \cup {Len(writes) + 1}
        /\ writes'[Len(writes) + 1] = Write(cur)
        /\ \A i \in DOMAIN writes : writes'[i] = writes[i]
      BY <1>0, <1>4, <2>2, AppendProperties, LenProperties
  <2>4. Waiting("rfq")' = Waiting("rfq") /\ \A r : Warranted(r)' <=> Warranted(r)
      BY <1>4 DEF Waiting, Warranted
  <2>5. CostSoFar'
      BY <1>0, <1>4, <2>1, <2>2, <2>3, <2>4 DEF CostSoFar
  <2>6. OneCommitmentPerRequest'
      BY <1>0, <1>4, <2>1, <2>2, <2>3, <2>4 DEF OneCommitmentPerRequest
  <2>7. QED
      BY <2>5, <2>6
<1>5. CASE SignOrder
  <2> DEFINE o == [req |-> cur, lot |-> lot, until |-> until]
  <2>1. /\ at = "sign" /\ at' = "chain_id" /\ signed' = Append(signed, o)
        /\ UNCHANGED <<branch, cur, inq, writes, routed>>
      BY <1>5 DEF SignOrder, channels, relayVars, chainVars
  <2>2. /\ Warranted(cur) /\ cur \notin Waiting("rfq")
        /\ \A i \in DOMAIN signed : signed[i].req # cur
      BY <1>0, <2>1 DEF CostSoFar, OnePlace
  <2>3. o \in Orders
      BY <2>1 DEF Orders, TypeInv, TypeOK, LocalsOK, InHandler
  <2>4. /\ DOMAIN signed' = DOMAIN signed \cup {Len(signed) + 1}
        /\ signed'[Len(signed) + 1].req = cur
        /\ \A i \in DOMAIN signed : signed'[i] = signed[i]
      BY <1>0, <2>1, <2>3, AppendProperties, LenProperties
  <2>5. Waiting("rfq")' = Waiting("rfq") /\ \A r : Warranted(r)' <=> Warranted(r)
      BY <2>1 DEF Waiting, Warranted
  <2>6. CostSoFar'
      BY <1>0, <2>1, <2>2, <2>4, <2>5 DEF CostSoFar
  <2>7. OneCommitmentPerRequest'
      BY <1>0, <2>1, <2>2, <2>4, <2>5 DEF OneCommitmentPerRequest
  <2>8. QED
      BY <2>6, <2>7
<1>6. CASE SendWrite \/ SendWriteFails
    BY <1>2, <1>4, <1>6
    DEF SendWrite, SendWriteFails, Writing, Answer, channels, relayVars
<1>7. CASE ReceiptOfWrite \/ ReceiptOfRevert \/ ReceiptMissing
    BY <1>2, <1>7
    DEF ReceiptOfWrite, ReceiptOfRevert, ReceiptMissing, AwaitsReceipt, Answer, channels,
        chainVars
<1>8. CASE BuildOffer \/ BuildQuote \/ Send
    BY <1>2, <1>8 DEF BuildOffer, BuildQuote, Send, BackToSelect, Answer, channels, chainVars
<1>9. CASE AmountPanics \/ RunReturns
    BY <1>3, <1>9 DEF AmountPanics, RunReturns, chainVars
<1>10. QED
    BY <1>5, <1>6, <1>7, <1>8, <1>9 DEF Handle

LEMMA SurroundingCosts ==
    ASSUME TypeInv, CommitmentInv, [Next]_vars,
           Reconnects \/ SessionExpires \/ External \/ UNCHANGED vars
    PROVE  CostSoFar' /\ OneCommitmentPerRequest'
<1>0. OnePlace /\ CostSoFar /\ OneCommitmentPerRequest
    BY DEF CommitmentInv
<1>1. ASSUME SameCosts, UNCHANGED <<at, branch, cur, inq>>
      PROVE  CostSoFar' /\ OneCommitmentPerRequest'
    BY <1>0, <1>1, CommitmentsStay, CostsStay DEF Waiting
<1>2. ASSUME DropRun, SameCosts PROVE CostSoFar' /\ OneCommitmentPerRequest'
  <2>1. Waiting("rfq")' = {} /\ at' = "select"
      BY <1>2 DEF DropRun, BackToSelect, Empty, Waiting, Streams
  <2>2. QED
      BY <1>0, <1>2, <2>1, CommitmentsStay, CostsStay
<1>3. UNCHANGED <<writes, signed>> => SameCosts
    BY DEF SameCosts
<1>4. CASE Reconnects
    BY <1>1, <1>2, <1>3, <1>4 DEF Reconnects, locals, channels, chainVars
<1>5. ASSUME NEW i \in DOMAIN writes, Mine(i) \/ Revert(i)
      PROVE  CostSoFar' /\ OneCommitmentPerRequest'
  <2>1. DOMAIN writes' = DOMAIN writes /\ UNCHANGED <<signed, at, branch, cur, inq>>
      BY <1>5 DEF Mine, Revert, locals, channels
  <2>2. SameCosts
      BY <2>1, WritesGrow DEF SameCosts
  <2>3. QED
      BY <1>1, <2>1, <2>2
<1>6. ASSUME NEW s \in Streams, NEW r \in Requests, Deliver(s, r)
      PROVE  CostSoFar' /\ OneCommitmentPerRequest'
  <2>1. /\ UNCHANGED <<writes, signed, at, branch, cur>>
        /\ \A t \in Streams : r \notin routed[t]
        /\ inq \in [Streams -> Seq(Requests)]
        /\ inq' = [inq EXCEPT ![s] = Append(@, r)]
      BY <1>6 DEF Deliver, locals, chainVars, TypeInv, TypeOK, ChannelsOK
  <2>2. Waiting("rfq")' \subseteq Waiting("rfq") \cup {r}
    <3>1. CASE s = "rfq"
      <4>1. inq["rfq"] \in Seq(Requests) /\ inq'["rfq"] = Append(inq["rfq"], r)
          BY <2>1, <3>1 DEF Streams
      <4>2. \A k \in DOMAIN inq'["rfq"] :
                inq'["rfq"][k] = r \/ (k \in DOMAIN inq["rfq"] /\ inq'["rfq"][k] = inq["rfq"][k])
          BY <4>1, AppendProperties, LenProperties
      <4>3. QED
          BY <4>2 DEF Waiting
    <3>2. CASE s # "rfq"
        BY <2>1, <3>2 DEF Waiting, Streams
    <3>3. QED
        BY <3>1, <3>2
  <2>3. /\ \A i \in DOMAIN writes : writes[i].req \in routed["rfq"]
        /\ \A i \in DOMAIN signed : signed[i].req \in routed["rfq"]
      BY <1>0 DEF OneCommitmentPerRequest, Warranted
  <2>4. CostSoFar'
      BY <1>0, <2>1, <2>2, <2>3, WarrantedStays DEF CostSoFar, Streams
  <2>5. QED
      BY <1>0, <1>3, <2>1, <2>4, CommitmentsStay
<1>7. ASSUME UNCHANGED <<writes, signed, at, branch, cur, inq>>
      PROVE  CostSoFar' /\ OneCommitmentPerRequest'
    BY <1>1, <1>3, <1>7
<1>8. CASE SessionExpires
    BY <1>7, <1>8 DEF SessionExpires, locals, channels, chainVars
<1>9. CASE External
    BY <1>5, <1>6, <1>7, <1>9
    DEF External, Transmit, Fill, Tick, locals, channels, chainVars
<1>10. CASE UNCHANGED vars
    BY <1>7, <1>10 DEF vars, locals, channels, chainVars
<1>11. QED
    BY <1>4, <1>8, <1>9, <1>10

-----------------------------------------------------------------------------
LEMMA CommitmentInit == Init => CommitmentInv
<1> SUFFICES ASSUME Init PROVE CommitmentInv
    OBVIOUS
<1>1. writes = <<>> /\ signed = <<>> /\ at = "select" /\ inq = Empty
      /\ routed = [s \in Streams |-> {}]
    BY DEF Init
<1>2. \A s \in Streams : DOMAIN inq[s] = {} /\ routed[s] = {}
    BY <1>1 DEF Empty
<1>3. OnePlace
    BY <1>1, <1>2 DEF OnePlace, Waiting, Streams
<1>4. CostSoFar /\ OneCommitmentPerRequest
    BY <1>1 DEF CostSoFar, OneCommitmentPerRequest
<1>5. QED
    BY <1>3, <1>4 DEF CommitmentInv

LEMMA CommitmentNext == TypeInv /\ CommitmentInv /\ [Next]_vars => CommitmentInv'
<1> SUFFICES ASSUME TypeInv, CommitmentInv, [Next]_vars PROVE CommitmentInv'
    OBVIOUS
<1>1. OnePlace'
    BY PlaceNext DEF CommitmentInv
<1>2. CostSoFar' /\ OneCommitmentPerRequest'
    BY PickCosts, HandleCosts, SurroundingCosts DEF Next
<1>3. QED
    BY <1>1, <1>2 DEF CommitmentInv

\* A request costs the maker at most one write and one signature, and only if it
\* is a well-formed RFQ for a supported chain, through any number of lost
\* answers of the node and reconnections (write_option is never tried again).
THEOREM OneCommitment == Spec => []OneCommitmentPerRequest
<1>1. Init => TypeInv /\ SessionInv /\ CommitmentInv
    BY TypeInit, SessionInitInv, CommitmentInit DEF Init
<1>2. TypeInv /\ SessionInv /\ CommitmentInv /\ [Next]_vars
          => TypeInv' /\ SessionInv' /\ CommitmentInv'
    BY TypeNext, StepOfSession, SessionNextInv, CommitmentNext
<1>3. CommitmentInv => OneCommitmentPerRequest
    BY DEF CommitmentInv
<1>4. QED
    BY <1>1, <1>2, <1>3, PTL DEF Spec

-----------------------------------------------------------------------------
(* What the maker answers with.                                            *)

\* The answer that is about to be sent is an answer to the request in hand, and an
\* offer is the order signed for it.
AnswerInv ==
    /\ at = "chain_id" /\ branch = "rfq" => signed[Len(signed)].req = cur
    /\ at = "send" => reply.ulid = cur.ulid
    /\ at = "send" /\ reply.kind = "offer" => branch = "rfq" /\ signed[reply.order].req = cur
    /\ at = "send" /\ branch = "soft" /\ ValidSoftQuote(cur) => reply.kind = "quote"

\* A handler answers what it was called with.
LEMMA AnswerNext == TypeInv /\ CommitmentInv /\ AnswerInv /\ [Next]_vars => AnswerInv'
<1> SUFFICES ASSUME TypeInv, CommitmentInv, AnswerInv, [Next]_vars PROVE AnswerInv'
    OBVIOUS
<1>0. /\ signed \in Seq(Orders) /\ LocalsOK /\ References
      /\ DOMAIN signed \subseteq DOMAIN signed'
      /\ \A i \in DOMAIN signed : signed'[i] = signed[i]
    BY SignedGrows DEF TypeInv, TypeOK, LedgerOK
<1>1. ASSUME at' \notin {"chain_id", "send"} PROVE AnswerInv'
    BY <1>1 DEF AnswerInv
<1>2. ASSUME UNCHANGED <<at, branch, cur, reply, signed>> PROVE AnswerInv'
    BY <1>2 DEF AnswerInv, ValidSoftQuote
<1>3. ASSUME NEW s \in Streams, Decline(s) PROVE AnswerInv'
  <2>1. /\ at' = "send" /\ branch' = s /\ cur' = Head(inq[s])
        /\ reply' = NoOffer(Head(inq[s])) /\ ~Valid(s, Head(inq[s]))
      BY <1>3 DEF Decline, Answer
  <2>2. s = "soft" => ~ValidSoftQuote(Head(inq[s]))
      BY <2>1 DEF Valid
  <2> QED
      BY <2>1, <2>2 DEF AnswerInv, NoOffer, ValidSoftQuote
<1>4. CASE TakeSoftQuote
    BY <1>4 DEF TakeSoftQuote, AnswerInv
<1>5. ASSUME branch = "rfq", branch' = branch, cur' = cur, Answer(NoOffer(cur)) PROVE AnswerInv'
    BY <1>5 DEF AnswerInv, Answer, NoOffer
<1>6. CASE SendWriteFails \/ ReceiptOfRevert \/ ReceiptMissing
  <2>1. branch = "rfq" /\ branch' = branch /\ cur' = cur /\ Answer(NoOffer(cur))
      BY <1>6 DEF SendWriteFails, Writing, ReceiptOfRevert, ReceiptMissing, AwaitsReceipt,
                  CommitmentInv, CostSoFar
  <2> QED
      BY <1>5, <2>1
<1>7. CASE SignOrder
  <2>1. [req |-> cur, lot |-> lot, until |-> until] \in Orders
      BY <1>7 DEF SignOrder, Orders, TypeInv, TypeOK, LocalsOK, InHandler
  <2>2. signed'[Len(signed')].req = cur
      BY <1>0, <1>7, <2>1, AppendProperties DEF SignOrder
  <2> QED
      BY <1>7, <2>2 DEF SignOrder, AnswerInv
<1>8. CASE BuildOffer
    BY <1>8 DEF BuildOffer, Answer, Offer, AnswerInv
<1>9. CASE BuildQuote
    BY <1>9 DEF BuildQuote, Answer, Quote, AnswerInv
<1>10. CASE Pick
    BY <1>1, <1>2, <1>3, <1>4, <1>10 DEF Pick, Ignore, TakeBuy, TakeSell, locals
<1>11. CASE Handle
    BY <1>1, <1>2, <1>6, <1>7, <1>8, <1>9, <1>11
    DEF Handle, AmountPanics, SendWrite, ReceiptOfWrite, Send, RunReturns, DropRun, BackToSelect
<1>12. CASE Reconnects
    BY <1>1, <1>2, <1>12 DEF Reconnects, DropRun, BackToSelect, locals
<1>13. CASE SessionExpires \/ External \/ UNCHANGED vars
    BY <1>2, <1>13
    DEF SessionExpires, External, Deliver, Transmit, Mine, Revert, Fill, Tick, vars, locals
<1> QED
    BY <1>10, <1>11, <1>12, <1>13 DEF Next

-----------------------------------------------------------------------------
(* Answers in the order of the requests.                                   *)

\* What is handed over from the queue to the handler, or from the handler to what
\* has been answered, keeps its place.
LEMMA TakenMoves ==
    ASSUME NEW S, NEW d \in Seq(S), NEW b \in Seq(S), NEW e \in S
    PROVE  (d \o <<>>) \o (<<e>> \o b) = (d \o <<e>>) \o b
<1>1. <<e>> \in Seq(S)
    OBVIOUS
<1>2. d \o <<>> = d
    BY ConcatEmptySeq
<1>3. (d \o <<e>>) \o b = d \o (<<e>> \o b)
    BY <1>1, ConcatAssociative
<1> QED
    BY <1>2, <1>3, Zenon

LEMMA SentMoves ==
    ASSUME NEW S, NEW d \in Seq(S), NEW b \in Seq(S), NEW e \in S
    PROVE  (d \o <<e>>) \o b = (Append(d, e) \o <<>>) \o b
<1>1. Append(d, e) \in Seq(S) /\ Append(d, e) = d \o <<e>>
    BY AppendIsConcat, AppendProperties
<1> DEFINE t == Append(d, e)
<1>2. t \o <<>> = t
  <2>1. t \in Seq(S)
      BY <1>1
  <2> HIDE DEF t
  <2> QED
      BY <2>1, ConcatEmptySeq
<1> QED
    BY <1>1, <1>2, Zenon

LEMMA ArrivedMoves ==
    ASSUME NEW S, NEW d \in Seq(S), NEW h \in Seq(S), NEW b \in Seq(S), NEW e \in S
    PROVE  ((d \o h) \o b) \o <<e>> = (d \o h) \o (b \o <<e>>)
<1> DEFINE t == d \o h
<1>1. t \in Seq(S) /\ <<e>> \in Seq(S)
    BY ConcatProperties
<1> HIDE DEF t
<1>2. (t \o b) \o <<e>> = t \o (b \o <<e>>)
    BY <1>1, ConcatAssociative
<1> QED
    BY <1>2 DEF t

\* The request of a stream that a handler has in hand.
BeingHandled(s) == IF at # "select" /\ branch = s THEN <<cur>> ELSE <<>>

\* done are the requests of the stream that this run has answered: with the one in
\* hand and those that wait they are all it was to answer, and what was said is
\* said to them, in this order, an offer with the order signed for the request.
AnsweredSoFar(s, done) ==
    /\ done \in Seq(Requests)
    /\ Answerable(got[s]) = (done \o BeingHandled(s)) \o Answerable(inq[s])
    /\ Len(said[s]) = Len(done)
    /\ \A k \in DOMAIN said[s] :
          /\ said[s][k].ulid = done[k].ulid
          /\ said[s][k].kind = "offer" =>
                /\ s = "rfq"
                /\ said[s][k].order \in DOMAIN signed
                /\ signed[said[s][k].order].req = done[k]

InOrder == \A s \in Streams : \E done : AnsweredSoFar(s, done)

\* The orders this run has handed out; the next it hands out is another.
HandedOut == {said["rfq"][k].order : k \in {l \in DOMAIN said["rfq"] : said["rfq"][l].kind = "offer"}}

OwnOrders ==
    /\ HandedOut \subseteq DOMAIN signed
    /\ at = "chain_id" /\ branch = "rfq" => Len(signed) \notin HandedOut
    /\ at = "send" /\ reply.kind = "offer" => reply.order \notin HandedOut
    /\ \A k, l \in DOMAIN said["rfq"] :
          /\ said["rfq"][k].kind = "offer" /\ said["rfq"][l].kind = "offer"
          /\ said["rfq"][l].order = said["rfq"][k].order
          => l = k

\* A handler takes up the request it is called with.
Takes(s) ==
    /\ Reads(s)
    /\ Head(inq[s]).chain \in SupportedChains
    /\ branch' = s /\ cur' = Head(inq[s]) /\ at' # "select"
    /\ UNCHANGED <<got, said>>

GoesOn ==
    /\ UNCHANGED <<inq, got, said>>
    /\ \A s \in Streams : BeingHandled(s)' = BeingHandled(s)

LEMMA AnswerKinds ==
    ASSUME [Next]_vars
    PROVE  \/ GoesOn
           \/ DropRun
           \/ Send
           \/ \E s \in Streams : Ignore(s) \/ Takes(s)
           \/ \E s \in Streams, r \in Requests : Deliver(s, r)
<1>1. ASSUME UNCHANGED <<inq, got, said, branch, cur>>, (at = "select") <=> (at' = "select")
      PROVE  GoesOn
    BY <1>1 DEF GoesOn, BeingHandled
<1>2. ASSUME NEW s \in Streams, Decline(s) PROVE Takes(s)
    BY <1>2 DEF Decline, Answer, NoOffer, Takes
<1>3. CASE TakeBuy
    BY <1>3 DEF TakeBuy, Takes, Streams
<1>4. CASE TakeSell
    BY <1>4 DEF TakeSell, Takes, Streams
<1>5. CASE TakeSoftQuote
    BY <1>5 DEF TakeSoftQuote, Takes, Streams
<1>6. CASE Pick
    BY <1>2, <1>3, <1>4, <1>5, <1>6 DEF Pick, Streams
<1>7. CASE Handle
    BY <1>1, <1>7
    DEF Handle, AmountPanics, SendWrite, SendWriteFails, Writing, ReceiptOfWrite, ReceiptOfRevert,
        ReceiptMissing, AwaitsReceipt, SignOrder, BuildOffer, BuildQuote, RunReturns, Answer,
        channels
<1>8. CASE Reconnects
    BY <1>1, <1>8 DEF Reconnects, locals, channels
<1>9. CASE SessionExpires \/ External \/ UNCHANGED vars
    BY <1>1, <1>9
    DEF SessionExpires, External, Transmit, Mine, Revert, Fill, Tick, vars, locals, channels
<1> QED
    BY <1>6, <1>7, <1>8, <1>9 DEF Next

LEMMA AnswerableKept ==
    /\ \A q : Answerable(q) = Kept(q, Supported)
    /\ \A q \in Seq(Requests) : Answerable(q) \in Seq(Requests)
<1>1. \A q : Answerable(q) = Kept(q, Supported)
    BY DEF Answerable, Kept
<1> QED
    BY <1>1, KeptType

LEMMA HandledType ==
    OnePlace /\ TypeInv => \A s \in Streams : BeingHandled(s) \in Seq(Requests)
<1> SUFFICES ASSUME OnePlace, TypeInv, NEW s \in Streams PROVE BeingHandled(s) \in Seq(Requests)
    OBVIOUS
<1>1. at # "select" => cur \in Requests
    BY DEF OnePlace, TypeInv, TypeOK, LocalsOK, LedgerOK
<1> QED
    BY <1>1, EmptySeq DEF BeingHandled

\* What was said stays said, with the orders it hands out.
LEMMA SaidStays ==
    ASSUME TypeInv, [Next]_vars, NEW s \in Streams, NEW done, AnsweredSoFar(s, done),
           said'[s] = said[s],
           Answerable(got[s])' = (done \o BeingHandled(s)') \o Answerable(inq[s])'
    PROVE  AnsweredSoFar(s, done)'
BY SignedGrows DEF AnsweredSoFar

LEMMA InOrderNext ==
    TypeInv /\ OnePlace /\ OnePlace' /\ TypeInv' /\ AnswerInv /\ InOrder /\ [Next]_vars => InOrder'
<1> SUFFICES ASSUME TypeInv, OnePlace, OnePlace', TypeInv', AnswerInv, InOrder, [Next]_vars,
                    NEW s \in Streams
             PROVE  \E done : AnsweredSoFar(s, done)'
    BY DEF InOrder
<1>0. /\ ChannelsOK /\ inq[s] \in Seq(Requests) /\ got[s] \in Seq(Requests)
      /\ said \in [Streams -> Seq(Replies)] /\ reply \in Replies /\ branch \in Streams
      /\ Answerable(inq[s]) \in Seq(Requests) /\ Answerable(got[s]) \in Seq(Requests)
    BY AnswerableKept DEF TypeInv, TypeOK, ChannelsOK, LocalsOK
<1>1. PICK done : AnsweredSoFar(s, done)
    BY DEF InOrder
<1>2. /\ done \in Seq(Requests)
      /\ Answerable(got[s]) = (done \o BeingHandled(s)) \o Answerable(inq[s])
    BY <1>1 DEF AnsweredSoFar
<1>3. ASSUME inq'[s] = inq[s], got'[s] = got[s], said'[s] = said[s],
             BeingHandled(s)' = BeingHandled(s)
      PROVE  \E d : AnsweredSoFar(s, d)'
  <2>1. AnsweredSoFar(s, done)'
      BY <1>1, <1>2, <1>3, SaidStays
  <2> QED
      BY <2>1
<1>4. CASE GoesOn
    BY <1>3, <1>4 DEF GoesOn
<1>5. CASE DropRun
  <2>1. inq'[s] = <<>> /\ got'[s] = <<>> /\ said'[s] = <<>> /\ BeingHandled(s)' = <<>>
      BY <1>5 DEF DropRun, BackToSelect, Empty, BeingHandled
  <2>2. Kept(<<>>, Supported) = <<>>
      BY KeptEmpty
  <2>3. Answerable(got[s])' = <<>> /\ Answerable(inq[s])' = <<>>
      BY <2>1, <2>2, AnswerableKept
  <2>4. <<>> \in Seq(Requests) /\ <<>> \o <<>> = <<>> /\ DOMAIN <<>> = {}
      BY EmptySeq, ConcatEmptySeq
  <2>5. AnsweredSoFar(s, <<>>)'
      BY <2>1, <2>3, <2>4 DEF AnsweredSoFar
  <2> QED
      BY <2>5
<1>6. ASSUME NEW t \in Streams, Ignore(t) PROVE \E d : AnsweredSoFar(s, d)'
  <2>1. /\ Reads(t) /\ UNCHANGED <<got, said, at, branch, cur>>
        /\ Head(inq[t]).chain \notin SupportedChains
      BY <1>6 DEF Ignore, locals
  <2>2. BeingHandled(s)' = BeingHandled(s)
      BY <2>1 DEF BeingHandled
  <2>3. CASE s # t
      BY <1>0, <1>3, <2>1, <2>2, <2>3 DEF Reads, ChannelsOK
  <2>4. CASE s = t
    <3>1. inq[s] # <<>> /\ inq'[s] = Tail(inq[s]) /\ Head(inq[s]) \notin Supported
        BY <1>0, <2>1, <2>4 DEF Reads, ChannelsOK, Supported
    <3>2. Kept(inq[s], Supported) = Kept(Tail(inq[s]), Supported)
        BY <1>0, <3>1, KeptTail
    <3>3. Answerable(inq[s])' = Answerable(inq[s])
        BY <3>1, <3>2, AnswerableKept
    <3>4. AnsweredSoFar(s, done)'
        BY <1>1, <1>2, <2>1, <2>2, <3>3, SaidStays
    <3> QED
        BY <3>4
  <2> QED
      BY <2>3, <2>4
<1>7. ASSUME NEW t \in Streams, Takes(t) PROVE \E d : AnsweredSoFar(s, d)'
  <2>1. /\ Reads(t) /\ at = "select" /\ at' # "select" /\ branch' = t /\ cur' = Head(inq[t])
        /\ UNCHANGED <<got, said>>
        /\ Head(inq[t]).chain \in SupportedChains
      BY <1>7 DEF Takes, Reads
  <2>2. BeingHandled(s) = <<>> /\ BeingHandled(s)' = IF s = t THEN <<Head(inq[t])>> ELSE <<>>
      BY <2>1 DEF BeingHandled
  <2>3. CASE s # t
      BY <1>0, <1>3, <2>1, <2>2, <2>3 DEF Reads, ChannelsOK
  <2>4. CASE s = t
    <3> DEFINE r == Head(inq[s])
               rest == Kept(Tail(inq[s]), Supported)
    <3>1. inq[s] # <<>> /\ inq'[s] = Tail(inq[s])
        BY <1>0, <2>1, <2>4 DEF Reads, ChannelsOK
    <3>2. r \in Requests /\ Tail(inq[s]) \in Seq(Requests)
        BY <1>0, <3>1, HeadTailProperties
    <3>3. r \in Supported
        BY <2>1, <2>4, <3>2 DEF Supported
    <3>4. Kept(inq[s], Supported) = <<r>> \o rest
        BY <1>0, <3>1, <3>3, KeptTail
    <3>5. Answerable(inq[s])' = rest /\ Answerable(inq[s]) = <<r>> \o rest
        BY <3>1, <3>4, AnswerableKept
    <3>6. rest \in Seq(Requests)
        BY <3>2, KeptType
    <3> HIDE DEF r, rest
    <3>7. (done \o <<>>) \o (<<r>> \o rest) = (done \o <<r>>) \o rest
        BY <1>2, <3>2, <3>6, TakenMoves
    <3>8. Answerable(got[s])' = (done \o BeingHandled(s)') \o Answerable(inq[s])'
        BY <1>2, <2>1, <2>2, <2>4, <3>5, <3>7 DEF r
    <3>9. AnsweredSoFar(s, done)'
        BY <1>1, <2>1, <3>8, SaidStays
    <3> QED
        BY <3>9
  <2> QED
      BY <2>3, <2>4
<1>8. CASE Send
  <2>1. /\ at = "send" /\ at' = "select" /\ UNCHANGED <<inq, got, signed>>
        /\ said' = [said EXCEPT ![branch] = Append(@, reply)]
      BY <1>8 DEF Send, BackToSelect
  <2>2. BeingHandled(s)' = <<>> /\ BeingHandled(s) = IF branch = s THEN <<cur>> ELSE <<>>
      BY <2>1 DEF BeingHandled
  <2>3. CASE s # branch
      BY <1>0, <1>3, <2>1, <2>2, <2>3
  <2>4. CASE s = branch
    <3> DEFINE q == said[s]
    <3>0. PICK next : next = Append(done, cur)
        OBVIOUS
    <3>1. cur \in Requests
        BY <2>1 DEF OnePlace, TypeInv, TypeOK, LocalsOK, LedgerOK
    <3>2. q \in Seq(Replies) /\ said'[s] = Append(q, reply)
        BY <1>0, <2>1, <2>4
    <3>3. (done \o <<cur>>) \o Answerable(inq[s]) = (next \o <<>>) \o Answerable(inq[s])
      <4> DEFINE b == Answerable(inq[s])
      <4>1. b \in Seq(Requests)
          BY <1>0
      <4> HIDE DEF b
      <4>2. (done \o <<cur>>) \o b = (next \o <<>>) \o b
          BY <1>2, <3>0, <3>1, <4>1, SentMoves
      <4> QED
          BY <4>2 DEF b
    <3>4. Answerable(got[s])' = (next \o BeingHandled(s)') \o Answerable(inq[s])'
        BY <1>2, <2>1, <2>2, <2>4, <3>3
    <3>5. reply.ulid = cur.ulid
        BY <2>1 DEF AnswerInv
    <3>6. reply.kind = "offer" =>
              s = "rfq" /\ reply.order \in DOMAIN signed /\ signed[reply.order].req = cur
        BY <2>1, <2>4 DEF AnswerInv, TypeInv, References, OfferRef
    <3>7. /\ next \in Seq(Requests) /\ Len(next) = Len(done) + 1
          /\ next[Len(done) + 1] = cur
          /\ \A k \in 1..Len(done) : next[k] = done[k]
        BY <1>2, <3>0, <3>1, AppendProperties
    <3>8. /\ Append(q, reply) \in Seq(Replies) /\ Len(Append(q, reply)) = Len(q) + 1
          /\ Append(q, reply)[Len(q) + 1] = reply
          /\ \A k \in 1..Len(q) : Append(q, reply)[k] = q[k]
        BY <1>0, <3>2, AppendProperties
    <3>9. /\ Len(q) = Len(done) /\ Len(q) \in Nat
          /\ DOMAIN q = 1..Len(q) /\ DOMAIN said'[s] = 1..(Len(q) + 1)
        BY <1>1, <3>2, <3>8, LenProperties DEF AnsweredSoFar
    <3>10. \A k \in 1..Len(q) :
              /\ q[k].ulid = done[k].ulid
              /\ q[k].kind = "offer" =>
                    /\ s = "rfq" /\ q[k].order \in DOMAIN signed
                    /\ signed[q[k].order].req = done[k]
        BY <1>1, <3>9 DEF AnsweredSoFar
    <3>11. Len(said'[s]) = Len(next)
        BY <3>2, <3>7, <3>8, <3>9
    <3>12. ASSUME NEW k \in DOMAIN said'[s]
           PROVE  /\ said'[s][k].ulid = next[k].ulid
                  /\ said'[s][k].kind = "offer" =>
                        /\ s = "rfq" /\ said'[s][k].order \in DOMAIN signed'
                        /\ signed'[said'[s][k].order].req = next[k]
      <4>1. k \in 1..(Len(q) + 1)
          BY <3>9
      <4> HIDE DEF q
      <4>2. CASE k = Len(q) + 1
        <5>1. said'[s][k] = reply /\ next[k] = cur
            BY <3>2, <3>7, <3>8, <3>9, <4>2
        <5> QED
            BY <2>1, <3>5, <3>6, <5>1
      <4>3. CASE k # Len(q) + 1
        <5>1. k \in 1..Len(q)
            BY <3>9, <4>1, <4>3
        <5>2. said'[s][k] = q[k] /\ next[k] = done[k]
            BY <3>2, <3>7, <3>8, <3>9, <5>1
        <5> QED
            BY <2>1, <3>10, <5>1, <5>2
      <4> QED
          BY <4>2, <4>3
    <3> HIDE DEF q
    <3>13. AnsweredSoFar(s, next)'
        BY <3>4, <3>7, <3>11, <3>12 DEF AnsweredSoFar
    <3> QED
        BY <3>13
  <2> QED
      BY <2>3, <2>4
<1>9. ASSUME NEW t \in Streams, NEW r \in Requests, Deliver(t, r)
      PROVE  \E d : AnsweredSoFar(s, d)'
  <2>1. /\ UNCHANGED <<at, branch, cur, said>>
        /\ inq' = [inq EXCEPT ![t] = Append(@, r)]
        /\ got' = [got EXCEPT ![t] = Append(@, r)]
      BY <1>9 DEF Deliver, locals
  <2>2. BeingHandled(s)' = BeingHandled(s) /\ BeingHandled(s) \in Seq(Requests)
      BY <2>1, HandledType DEF BeingHandled
  <2>3. CASE s # t
      BY <1>0, <1>3, <2>1, <2>2, <2>3 DEF ChannelsOK
  <2>4. CASE s = t
    <3> DEFINE A == Answerable(got[s])
               B == Answerable(inq[s])
    <3>1. inq'[s] = Append(inq[s], r) /\ got'[s] = Append(got[s], r)
        BY <1>0, <2>1, <2>4 DEF ChannelsOK
    <3>2. /\ Kept(Append(inq[s], r), Supported) =
                IF r \in Supported THEN Append(Kept(inq[s], Supported), r) ELSE Kept(inq[s], Supported)
          /\ Kept(Append(got[s], r), Supported) =
                IF r \in Supported THEN Append(Kept(got[s], Supported), r) ELSE Kept(got[s], Supported)
        BY <1>0, KeptAppend
    <3>3. /\ A' = IF r \in Supported THEN Append(A, r) ELSE A
          /\ B' = IF r \in Supported THEN Append(B, r) ELSE B
        BY <3>1, <3>2, AnswerableKept
    <3>4. A \in Seq(Requests) /\ B \in Seq(Requests) /\ A = (done \o BeingHandled(s)) \o B
        BY <1>0, <1>2
    <3> HIDE DEF A, B
    <3>5. Append(A, r) = A \o <<r>> /\ Append(B, r) = B \o <<r>>
        BY <3>4, AppendIsConcat
    <3>6. A \o <<r>> = (done \o BeingHandled(s)) \o (B \o <<r>>)
      <4>1. PICK h : h = BeingHandled(s)
          OBVIOUS
      <4>2. PICK b : b = B
          OBVIOUS
      <4>3. PICK d : d = done
          OBVIOUS
      <4>4. d \in Seq(Requests) /\ h \in Seq(Requests) /\ b \in Seq(Requests)
          BY <1>2, <2>2, <3>4, <4>1, <4>2, <4>3
      <4>5. ((d \o h) \o b) \o <<r>> = (d \o h) \o (b \o <<r>>)
          BY <4>4, ArrivedMoves
      <4> QED
          BY <3>4, <4>1, <4>2, <4>3, <4>5
    <3>8. A' = (done \o BeingHandled(s)') \o B'
        BY <2>2, <3>3, <3>4, <3>5, <3>6, Zenon
    <3>7. AnsweredSoFar(s, done)'
        BY <1>1, <2>1, <3>8, SaidStays DEF A, B
    <3> QED
        BY <3>7
  <2> QED
      BY <2>3, <2>4
<1> QED
    BY <1>4, <1>5, <1>6, <1>7, <1>8, <1>9, AnswerKinds

LEMMA OwnOrdersNext ==
    TypeInv /\ CommitmentInv /\ OwnOrders /\ [Next]_vars => OwnOrders'
<1> SUFFICES ASSUME TypeInv, CommitmentInv, OwnOrders, [Next]_vars PROVE OwnOrders'
    OBVIOUS
<1>0. /\ said \in [Streams -> Seq(Replies)] /\ signed \in Seq(Orders) /\ References
      /\ reply \in Replies /\ branch \in Streams /\ "rfq" \in Streams
      /\ DOMAIN signed \subseteq DOMAIN signed'
    BY SignedGrows DEF TypeInv, TypeOK, ChannelsOK, LocalsOK, LedgerOK, Streams
<1>1. ASSUME said'["rfq"] = said["rfq"], at' \notin {"chain_id", "send"} PROVE OwnOrders'
    BY <1>0, <1>1 DEF OwnOrders, HandedOut
<1>2. ASSUME said'["rfq"] = said["rfq"], at' = "send", reply'.kind # "offer" PROVE OwnOrders'
    BY <1>0, <1>2 DEF OwnOrders, HandedOut
<1>3. ASSUME UNCHANGED <<said, signed, at, branch, reply>> PROVE OwnOrders'
    BY <1>3 DEF OwnOrders, HandedOut
<1>4. ASSUME UNCHANGED <<said, signed>>, at' = "chain_id", branch' = "soft" PROVE OwnOrders'
    BY <1>4 DEF OwnOrders, HandedOut
<1>5. CASE Pick
    BY <1>1, <1>2, <1>3, <1>4, <1>5
    DEF Pick, Ignore, Decline, TakeBuy, TakeSell, TakeSoftQuote, Answer, NoOffer, locals
<1>6. CASE SendWriteFails \/ ReceiptOfRevert \/ ReceiptMissing \/ BuildQuote
    BY <1>2, <1>6 DEF SendWriteFails, ReceiptOfRevert, ReceiptMissing, AwaitsReceipt, BuildQuote,
                      Answer, NoOffer, Quote, channels
<1>7. CASE SignOrder
  <2>1. [req |-> cur, lot |-> lot, until |-> until] \in Orders
      BY <1>7 DEF SignOrder, Orders, TypeInv, TypeOK, LocalsOK, InHandler
  <2>2. Len(signed') \notin DOMAIN signed
    <3>1. Len(signed') = Len(signed) + 1 /\ DOMAIN signed = 1..Len(signed) /\ Len(signed) \in Nat
        BY <1>0, <1>7, <2>1, AppendProperties, LenProperties DEF SignOrder
    <3> QED
        BY <3>1
  <2>3. UNCHANGED said /\ at' = "chain_id" /\ HandedOut' = HandedOut
      BY <1>7 DEF SignOrder, channels, HandedOut
  <2> QED
      BY <1>0, <2>2, <2>3 DEF OwnOrders
<1>8. CASE BuildOffer
    BY <1>8 DEF BuildOffer, Answer, Offer, OwnOrders, HandedOut, channels
<1>9. CASE Send
  <2>1. /\ at = "send" /\ at' = "select" /\ UNCHANGED signed
        /\ said' = [said EXCEPT ![branch] = Append(@, reply)]
      BY <1>9 DEF Send, BackToSelect
  <2>2. CASE branch # "rfq"
      BY <1>0, <1>1, <2>1, <2>2
  <2>3. CASE branch = "rfq"
    <3> DEFINE q == said["rfq"]
    <3>1. q \in Seq(Replies) /\ said'["rfq"] = Append(q, reply)
        BY <1>0, <2>1, <2>3
    <3>2. /\ Len(q) + 1 \notin DOMAIN q
          /\ Append(q, reply)[Len(q) + 1] = reply
          /\ \A k \in DOMAIN q : Append(q, reply)[k] = q[k]
          /\ \A k \in DOMAIN Append(q, reply) : k \in DOMAIN q \/ k = Len(q) + 1
      <4> HIDE DEF q
      <4> QED
          BY <1>0, <3>1, Pushed
    <3>3. reply.kind = "offer" => reply.order \in DOMAIN signed /\ reply.order \notin HandedOut
        BY <1>0, <2>1 DEF References, OfferRef, OwnOrders
    <3>4. \A k \in DOMAIN q : q[k].kind = "offer" => q[k].order \in HandedOut
        BY DEF HandedOut
    <3>5. \A k, l \in DOMAIN q :
              q[k].kind = "offer" /\ q[l].kind = "offer" /\ q[l].order = q[k].order => l = k
        BY DEF OwnOrders
    <3>6. HandedOut \subseteq DOMAIN signed
        BY DEF OwnOrders
    <3> DEFINE p == Append(q, reply)
    <3>7. said'["rfq"] = p
        BY <3>1
    <3>8. HandedOut' = {p[k].order : k \in {l \in DOMAIN p : p[l].kind = "offer"}}
        BY <3>7 DEF HandedOut
    <3> HIDE DEF q, p
    <3>9. \A k \in DOMAIN p : p[k].kind = "offer" => p[k].order \in DOMAIN signed
        BY <3>2, <3>3, <3>4, <3>6 DEF p
    <3>10. \A k, l \in DOMAIN p :
              p[k].kind = "offer" /\ p[l].kind = "offer" /\ p[l].order = p[k].order => l = k
        BY <3>2, <3>3, <3>4, <3>5 DEF p
    <3> QED
        BY <2>1, <3>7, <3>8, <3>9, <3>10 DEF OwnOrders
  <2> QED
      BY <2>2, <2>3
<1>10. ASSUME DropRun PROVE OwnOrders'
  <2>1. said'["rfq"] = <<>> /\ at' = "select" /\ DOMAIN <<>> = {}
      BY <1>0, <1>10 DEF DropRun, BackToSelect, Empty
  <2> QED
      BY <2>1 DEF OwnOrders, HandedOut
<1>11. CASE Handle
    BY <1>0, <1>1, <1>6, <1>7, <1>8, <1>9, <1>10, <1>11
    DEF Handle, AmountPanics, SendWrite, ReceiptOfWrite, AwaitsReceipt, RunReturns, channels
<1>12. CASE Reconnects
    BY <1>3, <1>10, <1>12 DEF Reconnects, locals, channels
<1>13. CASE SessionExpires \/ External \/ UNCHANGED vars
    BY <1>3, <1>13
    DEF SessionExpires, External, Deliver, Transmit, Mine, Revert, Fill, Tick, vars, locals,
        channels
<1> QED
    BY <1>5, <1>11, <1>12, <1>13 DEF Next

LEMMA IsConcat ==
    ASSUME NEW V, NEW u \in Seq(V), NEW v \in Seq(V), NEW w \in Seq(V),
           Len(w) = Len(u) + Len(v),
           \A i \in 1..(Len(u) + Len(v)) : w[i] = IF i <= Len(u) THEN u[i] ELSE v[i - Len(u)]
    PROVE  w = u \o v
<1>1. /\ u \o v \in Seq(V) /\ Len(u \o v) = Len(u) + Len(v)
      /\ \A i \in 1..(Len(u) + Len(v)) :
            (u \o v)[i] = IF i <= Len(u) THEN u[i] ELSE v[i - Len(u)]
    BY ConcatProperties
<1>2. PICK c : c = u \o v
    OBVIOUS
<1>3. PICK n : n = Len(u) + Len(v)
    OBVIOUS
<1>4. c \in Seq(V) /\ Len(c) = n /\ Len(w) = n /\ \A i \in 1..n : w[i] = c[i]
    BY <1>1, <1>2, <1>3
<1>5. w \in [1..n -> V] /\ c \in [1..n -> V]
    BY <1>4, LenProperties
<1>6. w = c
    BY <1>4, <1>5
<1> QED
    BY <1>2, <1>6

\* The ulids of what was answered, of what is in hand and of what waits are those
\* of all that the run is to answer.
LEMMA UlidsConcat ==
    ASSUME NEW S, NEW x \in Seq(S), NEW y \in Seq(S)
    PROVE  Ulids(x \o y) = Ulids(x) \o Ulids(y)
<1>1. PICK V : V = {e.ulid : e \in S}
    OBVIOUS
<1>2. ASSUME NEW z \in Seq(S)
      PROVE  /\ Ulids(z) \in Seq(V) /\ Len(Ulids(z)) = Len(z) /\ Len(z) \in Nat
             /\ \A i \in 1..Len(z) : Ulids(z)[i] = z[i].ulid
  <2>1. DOMAIN z = 1..Len(z) /\ Len(z) \in Nat /\ \A i \in 1..Len(z) : z[i] \in S
      BY LenProperties, ElementOfSeq
  <2>2. Ulids(z) = [i \in 1..Len(z) |-> z[i].ulid]
      BY <2>1 DEF Ulids
  <2>3. \A i \in 1..Len(z) : z[i].ulid \in V
      BY <1>1, <2>1
  <2>4. Ulids(z) \in [1..Len(z) -> V]
      BY <2>2, <2>3
  <2>5. Ulids(z) \in Seq(V)
      BY <2>1, <2>4, SeqDef
  <2>6. Len(Ulids(z)) = Len(z)
      BY <2>1, <2>2, <2>5, LenProperties
  <2> QED
      BY <2>1, <2>2, <2>5, <2>6
<1>3. PICK c : c = x \o y
    OBVIOUS
<1>4. /\ c \in Seq(S) /\ Len(c) = Len(x) + Len(y)
      /\ \A i \in 1..(Len(x) + Len(y)) : c[i] = IF i <= Len(x) THEN x[i] ELSE y[i - Len(x)]
    BY <1>3, ConcatProperties
<1>5. /\ Len(x) \in Nat /\ Len(y) \in Nat
      /\ \A i \in 1..Len(x) : Ulids(x)[i] = x[i].ulid
      /\ \A i \in 1..Len(y) : Ulids(y)[i] = y[i].ulid
      /\ \A i \in 1..(Len(x) + Len(y)) : Ulids(c)[i] = c[i].ulid
    BY <1>2, <1>4
<1>6. ASSUME NEW i \in 1..(Len(x) + Len(y))
      PROVE  Ulids(c)[i] = IF i <= Len(x) THEN Ulids(x)[i] ELSE Ulids(y)[i - Len(x)]
  <2>1. CASE i <= Len(x)
      BY <1>4, <1>5, <2>1
  <2>2. CASE ~(i <= Len(x))
    <3>1. i - Len(x) \in 1..Len(y)
        BY <1>5, <2>2
    <3> QED
        BY <1>4, <1>5, <2>2, <3>1
  <2> QED
      BY <2>1, <2>2
<1>7. PICK u : u = Ulids(x)
    OBVIOUS
<1>8. PICK v : v = Ulids(y)
    OBVIOUS
<1>9. /\ u \in Seq(V) /\ v \in Seq(V) /\ Ulids(c) \in Seq(V)
      /\ Len(u) = Len(x) /\ Len(v) = Len(y) /\ Len(Ulids(c)) = Len(u) + Len(v)
    BY <1>2, <1>4, <1>7, <1>8
<1>10. PICK w : w = Ulids(c)
    OBVIOUS
<1>11. \A i \in 1..(Len(u) + Len(v)) : w[i] = IF i <= Len(u) THEN u[i] ELSE v[i - Len(u)]
    BY <1>6, <1>7, <1>8, <1>9, <1>10
<1>12. w \in Seq(V) /\ Len(w) = Len(u) + Len(v)
    BY <1>9, <1>10
<1>13. w = u \o v
    BY <1>9, <1>11, <1>12, IsConcat
<1> QED
    BY <1>3, <1>7, <1>8, <1>10, <1>13

LEMMA InOrderMeans == TypeInv /\ OnePlace /\ InOrder => AnswersInOrder
<1> SUFFICES ASSUME TypeInv, OnePlace, InOrder, NEW s \in Streams
             PROVE  Ulids(Answerable(got[s])) =
                        Ulids(said[s])
                        \o (IF at # "select" /\ branch = s THEN <<cur.ulid>> ELSE <<>>)
                        \o Ulids(Answerable(inq[s]))
    BY DEF AnswersInOrder
<1>1. PICK done : AnsweredSoFar(s, done)
    BY DEF InOrder
<1> DEFINE h == BeingHandled(s)
           b == Answerable(inq[s])
<1>2. /\ done \in Seq(Requests) /\ h \in Seq(Requests) /\ b \in Seq(Requests)
      /\ Answerable(got[s]) = (done \o h) \o b
      /\ inq[s] \in Seq(Requests) /\ said[s] \in Seq(Replies)
    BY <1>1, HandledType, AnswerableKept DEF AnsweredSoFar, TypeInv, TypeOK, ChannelsOK
<1>3. Ulids(h) = IF at # "select" /\ branch = s THEN <<cur.ulid>> ELSE <<>>
    BY DEF Ulids, BeingHandled
<1>4. Ulids(said[s]) = Ulids(done)
  <2>1. DOMAIN said[s] = 1..Len(said[s]) /\ DOMAIN done = 1..Len(done)
      BY <1>2, LenProperties
  <2>2. DOMAIN said[s] = DOMAIN done /\ \A k \in DOMAIN said[s] : said[s][k].ulid = done[k].ulid
      BY <1>1, <2>1 DEF AnsweredSoFar
  <2> QED
      BY <2>2 DEF Ulids
<1> HIDE DEF h, b
<1>5. done \o h \in Seq(Requests)
    BY <1>2, ConcatProperties
<1>6. Ulids((done \o h) \o b) = Ulids(done \o h) \o Ulids(b)
  <2> DEFINE t == done \o h
  <2>1. t \in Seq(Requests)
      BY <1>5
  <2> HIDE DEF t
  <2>2. Ulids(t \o b) = Ulids(t) \o Ulids(b)
      BY <1>2, <2>1, UlidsConcat
  <2> QED
      BY <2>2 DEF t
<1>7. Ulids(done \o h) = Ulids(done) \o Ulids(h)
    BY <1>2, UlidsConcat
<1> QED
    BY <1>2, <1>3, <1>4, <1>6, <1>7 DEF b

LEMMA OffersMean == TypeInv /\ OnePlace /\ InOrder /\ OwnOrders => OffersAnswerTheirRequest
<1> SUFFICES ASSUME TypeInv, OnePlace, InOrder, OwnOrders PROVE OffersAnswerTheirRequest
    OBVIOUS
<1>1. ASSUME NEW s \in Streams, NEW k \in DOMAIN said[s], said[s][k].kind = "offer"
      PROVE  /\ s = "rfq"
             /\ said[s][k].order \in DOMAIN signed
             /\ signed[said[s][k].order].req = Answerable(got[s])[k]
  <2>1. PICK done : AnsweredSoFar(s, done)
      BY DEF InOrder
  <2> DEFINE h == BeingHandled(s)
             b == Answerable(inq[s])
  <2>2. /\ done \in Seq(Requests) /\ h \in Seq(Requests) /\ b \in Seq(Requests)
        /\ Answerable(got[s]) = (done \o h) \o b
        /\ said[s] \in Seq(Replies) /\ Len(said[s]) = Len(done)
      BY <2>1, HandledType, AnswerableKept DEF AnsweredSoFar, TypeInv, TypeOK, ChannelsOK
  <2>3. k \in 1..Len(done) /\ Len(done) \in Nat
      BY <2>2, LenProperties
  <2> HIDE DEF h, b
  <2>4. ((done \o h) \o b)[k] = done[k]
    <3>1. /\ done \o h \in Seq(Requests) /\ Len(done \o h) = Len(done) + Len(h)
          /\ Len(h) \in Nat /\ Len(b) \in Nat
          /\ \A i \in 1..(Len(done) + Len(h)) :
                (done \o h)[i] = IF i <= Len(done) THEN done[i] ELSE h[i - Len(done)]
        BY <2>2, ConcatProperties, LenProperties
    <3>2. (done \o h)[k] = done[k]
        BY <2>3, <3>1
    <3> DEFINE t == done \o h
    <3>3. t \in Seq(Requests) /\ k \in 1..Len(t) /\ Len(t) \in Nat
        BY <2>3, <3>1
    <3> HIDE DEF t
    <3>4. \A i \in 1..(Len(t) + Len(b)) : (t \o b)[i] = IF i <= Len(t) THEN t[i] ELSE b[i - Len(t)]
        BY <2>2, <3>3, ConcatProperties
    <3>5. (t \o b)[k] = t[k]
        BY <3>1, <3>3, <3>4
    <3> QED
        BY <3>2, <3>5 DEF t
  <2>5. /\ s = "rfq" /\ said[s][k].order \in DOMAIN signed
        /\ signed[said[s][k].order].req = done[k]
      BY <1>1, <2>1 DEF AnsweredSoFar
  <2> QED
      BY <2>2, <2>4, <2>5
<1>2. \A k, l \in DOMAIN said["rfq"] :
          said["rfq"][k].kind = "offer" /\ said["rfq"][l].kind = "offer"
          /\ said["rfq"][l].order = said["rfq"][k].order => l = k
    BY DEF OwnOrders
<1>3. "rfq" \in Streams /\ "soft" \in Streams
    BY DEF Streams
<1>4. \A k \in DOMAIN said["rfq"] : said["rfq"][k].kind = "offer" =>
          /\ said["rfq"][k].order \in DOMAIN signed
          /\ signed[said["rfq"][k].order].req = Answerable(got["rfq"])[k]
    BY <1>1, <1>3
<1>5. \A k \in DOMAIN said["soft"] : said["soft"][k].kind # "offer"
    BY <1>1, <1>3
<1> QED
    BY <1>2, <1>4, <1>5 DEF OffersAnswerTheirRequest

ReplyInv == AnswerInv /\ InOrder /\ OwnOrders

LEMMA ReplyInit == Init => ReplyInv
<1> SUFFICES ASSUME Init PROVE ReplyInv
    OBVIOUS
<1>1. at = "select" /\ inq = Empty /\ got = Empty /\ said = Empty
    BY DEF Init
<1>2. ASSUME NEW s \in Streams PROVE AnsweredSoFar(s, <<>>)
  <2>1. inq[s] = <<>> /\ got[s] = <<>> /\ said[s] = <<>> /\ BeingHandled(s) = <<>>
      BY <1>1 DEF Empty, BeingHandled
  <2>2. Answerable(<<>>) = <<>>
      BY AnswerableKept, KeptEmpty
  <2>3. <<>> \in Seq(Requests) /\ <<>> \o <<>> = <<>> /\ DOMAIN <<>> = {}
      BY EmptySeq, ConcatEmptySeq
  <2> QED
      BY <2>1, <2>2, <2>3 DEF AnsweredSoFar
<1>3. InOrder
    BY <1>2 DEF InOrder
<1>4. AnswerInv /\ OwnOrders
    BY <1>1 DEF AnswerInv, OwnOrders, HandedOut, Empty, Streams
<1> QED
    BY <1>3, <1>4 DEF ReplyInv

LEMMA ReplyInvariant == Spec => [](TypeInv /\ CommitmentInv /\ ReplyInv)
<1>1. Init => TypeInv /\ SessionInv /\ CommitmentInv /\ ReplyInv
    BY TypeInit, SessionInitInv, CommitmentInit, ReplyInit DEF Init
<1>2. TypeInv /\ SessionInv /\ CommitmentInv /\ [Next]_vars
          => TypeInv' /\ SessionInv' /\ CommitmentInv'
    BY TypeNext, StepOfSession, SessionNextInv, CommitmentNext
<1>3. TypeInv /\ SessionInv /\ CommitmentInv /\ ReplyInv /\ [Next]_vars => ReplyInv'
    BY <1>2, AnswerNext, InOrderNext, OwnOrdersNext DEF ReplyInv, CommitmentInv
<1> QED
    BY <1>1, <1>2, <1>3, PTL DEF Spec

\* On each stream the maker answers what it is to answer once, in the order of
\* arrival, and nothing else: the two branches of the select loop share the
\* locals of a handler, not their answers (maker.rs, run).
THEOREM AnswersAreInOrder == Spec => []AnswersInOrder
<1>1. TypeInv /\ CommitmentInv /\ ReplyInv => AnswersInOrder
    BY InOrderMeans DEF ReplyInv, CommitmentInv
<1> QED
    BY <1>1, ReplyInvariant, PTL

\* Whatever is delivered on whichever stream, an offer carries the order signed
\* for the request it answers and for no other answer, and a Soft Quote gets none
\* (handle_rfq_request with sign_order).
THEOREM OffersAreForTheirRequest == Spec => []OffersAnswerTheirRequest
<1>1. TypeInv /\ CommitmentInv /\ ReplyInv => OffersAnswerTheirRequest
    BY OffersMean DEF ReplyInv, CommitmentInv
<1> QED
    BY <1>1, ReplyInvariant, PTL
=============================================================================
