--------------------------- MODULE WebMakerProofs ---------------------------
(* Proofs about the TypeScript maker: its types, that every order has a     *)
(* write of its own, that every write finds its collateral approved, that   *)
(* it implements QuoteDesk, and that it can honour what it has offered.     *)
EXTENDS WebMaker, FoldLemmas

\* The transaction the maker waits for is the last one of the account, and it is
\* the one it has sent for the request in hand.
Sent(kind) ==
    /\ tx = Len(txs) /\ tx \in DOMAIN txs
    /\ txs[tx].kind = kind
    /\ txs[tx].req = cur

InHand ==
    /\ pc \in Handling => cur \in Requests /\ cur.option \in Options
    /\ pc = "approving" => Sent("approve")
    /\ pc = "write" => Sent("approve") /\ txs[tx].status = "mined"
    /\ pc = "writing" => Sent("write")
    /\ pc = "order" => Sent("write") /\ txs[tx].status = "mined"
    /\ pc = "granting" => Sent("grant")
    /\ \A i \in DOMAIN txs : txs[i].req.option \in Options

TypeInv == TypeOK /\ InHand

LEMMA TypeInit == Init => TypeInv
<1> SUFFICES ASSUME Init PROVE TypeInv
    OBVIOUS
<1>1. Len(signed) = 0 /\ Len(txs) = 0 /\ DOMAIN txs = {} /\ 0 \in 0..0
    BY DEF Init
<1>2. /\ signed \in Seq(Orders) /\ txs \in Seq(Txs) /\ inbox \in Seq(Requests)
    BY EmptySeq DEF Init
<1>3. TypeOK
    BY <1>1, <1>2 DEF Init, TypeOK, ProgramPoints, Login
<1>4. InHand
    BY <1>1 DEF Init, InHand, Handling
<1>5. QED
    BY <1>3, <1>4 DEF TypeInv

\* What the message read next is.
LEMMA ReadsType ==
    ASSUME TypeOK, Reads
    PROVE  /\ cur' \in Requests
           /\ inbox' \in Seq(Requests)
           /\ ~Malformed(Head(inbox)) => cur'.option \in Options
<1>1. Head(inbox) \in Requests /\ Tail(inbox) \in Seq(Requests)
    BY HeadTailProperties DEF TypeOK, Reads
<1>2. ~Malformed(Head(inbox)) => Head(inbox).option \in Options
    BY <1>1, WebRequestAssumption DEF Malformed
<1>3. QED
    BY <1>1, <1>2 DEF Reads

LEMMA CollateralType ==
    \A r \in Requests : r.option \in Options => r.amount \in Nat /\ Collateral(r) \in Nat
<1> SUFFICES ASSUME NEW r \in Requests, r.option \in Options
             PROVE  r.amount \in Nat /\ Collateral(r) \in Nat
    OBVIOUS
<1>1. r.amount \in Nat /\ Underlying[r.option] \in Nat
    BY WebRequestAssumption, WebAssumption
<1>2. \A a, b \in Nat : a * b \in Nat
    OBVIOUS
<1>3. QED
    BY <1>1, <1>2 DEF Collateral

LEMMA TakeFromBalance ==
    ASSUME NEW f \in [Options -> Nat], NEW o, NEW n \in Nat, f[o] >= n
    PROVE  [f EXCEPT ![o] = @ - n] \in [Options -> Nat]
<1>1. CASE o \in Options
    BY <1>1
<1>2. CASE o \notin Options
    BY <1>2
<1>3. QED
    BY <1>1, <1>2

\* A transaction that is sent is the last one, and it is pending.
LEMMA SendType ==
    ASSUME TypeInv, NEW kind \in {"approve", "write", "grant"}, SendTx(kind)
    PROVE  /\ txs' \in Seq(Txs)
           /\ Len(txs') = Len(txs) + 1 /\ Len(txs) \in Nat
           /\ DOMAIN txs = 1..Len(txs) /\ DOMAIN txs' = 1..(Len(txs) + 1)
           /\ \A i \in DOMAIN txs : txs'[i] = txs[i]
           /\ txs'[Len(txs) + 1] = [kind |-> kind, req |-> cur, status |-> "pending"]
           /\ cur \in Requests /\ cur.option \in Options
<1>1. cur \in Requests /\ cur.option \in Options
    BY DEF SendTx, TypeInv, InHand, Handling
<1>2. [kind |-> kind, req |-> cur, status |-> "pending"] \in Txs
    BY <1>1 DEF Txs
<1>3. txs \in Seq(Txs)
    BY DEF TypeInv, TypeOK
<1>4. QED
    BY <1>1, <1>2, <1>3, AppendProperties, LenProperties DEF SendTx

\* A transaction that is mined or reverts was pending; its kind and its request,
\* and all other transactions, stay what they are.
LEMMA ConfirmType ==
    ASSUME TypeInv, NEW i \in DOMAIN txs, Mine(i) \/ Revert(i)
    PROVE  /\ txs' \in Seq(Txs)
           /\ Len(txs') = Len(txs) /\ DOMAIN txs' = DOMAIN txs
           /\ txs[i] \in Txs /\ txs[i].status = "pending"
           /\ \A j \in DOMAIN txs : txs'[j].kind = txs[j].kind /\ txs'[j].req = txs[j].req
           /\ \A j \in DOMAIN txs : j # i => txs'[j] = txs[j]
           /\ txs'[i].status = IF Mine(i) THEN "mined" ELSE "reverted"
<1>1. txs \in Seq(Txs) /\ i \in 1..Len(txs) /\ txs[i] \in Txs
    BY LenProperties, ElementOfSeq DEF TypeInv, TypeOK
<1>2. PICK st \in {"mined", "reverted"} :
          /\ txs' = [txs EXCEPT ![i] = [txs[i] EXCEPT !.status = st]]
          /\ st = IF Mine(i) THEN "mined" ELSE "reverted"
    BY DEF Mine, Revert
<1>3. [txs[i] EXCEPT !.status = st] \in Txs
    BY <1>1 DEF Txs
<1>4. txs' \in Seq(Txs) /\ Len(txs') = Len(txs)
    BY <1>1, <1>2, <1>3, ExceptSeq
<1>5. txs[i].status = "pending"
    BY DEF Mine, Revert, NextTx
<1>6. /\ DOMAIN txs' = DOMAIN txs
      /\ \A j \in DOMAIN txs : j # i => txs'[j] = txs[j]
      /\ txs'[i] = [txs[i] EXCEPT !.status = st]
    BY <1>1, <1>2
<1>7. txs'[i].kind = txs[i].kind /\ txs'[i].req = txs[i].req /\ txs'[i].status = st
    BY <1>1, <1>6 DEF Txs
<1>8. QED
    BY <1>1, <1>2, <1>4, <1>5, <1>6, <1>7

-----------------------------------------------------------------------------
(* Types.                                                                  *)

\* What a step that signs nothing and sends nothing keeps.
LEMMA FrameType ==
    ASSUME TypeOK, UNCHANGED <<signed, txs>>,
           pc' \in ProgramPoints, inbox' \in Seq(Requests), cur' \in Requests \cup {NoRequest},
           reply' \in 0..Len(signed), tx' \in 0..Len(txs), sending' \subseteq 0..Len(signed),
           UNCHANGED <<relayVars, allowance, operator, balance, filled, now>>
    PROVE  TypeOK'
BY DEF TypeOK, relayVars

LEMMA TypeNext == TypeInv /\ [Next]_vars => TypeOK'
<1> SUFFICES ASSUME TypeInv, [Next]_vars PROVE TypeOK'
    OBVIOUS
<1> USE DEF TypeInv
<1>0. /\ Len(signed) \in Nat /\ Len(txs) \in Nat
      /\ DOMAIN signed = 1..Len(signed) /\ DOMAIN txs = 1..Len(txs)
      /\ 0 \in 0..Len(signed) /\ 0 \in 0..Len(txs)
    BY LenProperties DEF TypeOK
<1>1. CASE UNCHANGED vars
    BY <1>1 DEF vars, locals, relayVars, chainVars, TypeOK
<1>2. CASE LoginStep \/ Listen \/ StreamEnds \/ Approved \/ Written \/ NotGranted \/ Throws
  <2>1. pc' \in ProgramPoints
      BY <1>2 DEF LoginStep, Listen, StreamEnds, Approved, Written, NotGranted, Throws, Login,
         AfterLogin, ProgramPoints, Handling
  <2>2. UNCHANGED <<inbox, locals, sending, signed, relayVars, chainVars>>
      BY <1>2 DEF LoginStep, Listen, StreamEnds, Approved, Written, NotGranted, Throws
  <2>3. QED
      BY <2>1, <2>2 DEF TypeOK, locals, relayVars, chainVars
<1>3. CASE ReadMalformed \/ ReadSell \/ ReadBuy
  <2>1. Reads /\ UNCHANGED tx /\ reply' \in {0, reply} /\ pc' \in ProgramPoints
      BY <1>3 DEF ReadMalformed, ReadSell, ReadBuy, Undefined, ProgramPoints, Handling
  <2>2. cur' \in Requests /\ inbox' \in Seq(Requests)
      BY <2>1, ReadsType
  <2>3. QED
      BY <1>0, <2>1, <2>2 DEF Reads, TypeOK, relayVars, chainVars
<1>4. CASE FetchOption \/ Reverted
  <2>1. /\ UNCHANGED <<inbox, cur, tx, sending, signed, relayVars, chainVars>>
        /\ reply' \in {0, reply} /\ pc' \in ProgramPoints
      BY <1>4 DEF FetchOption, Reverted, Undefined, ProgramPoints, Handling
  <2>2. QED
      BY <1>0, <2>1 DEF TypeOK, relayVars, chainVars
<1>5. ASSUME NEW kind \in {"approve", "write", "grant"}, SendTx(kind) PROVE TypeOK'
  <2>1. txs' \in Seq(Txs) /\ Len(txs') \in Nat /\ tx' \in 0..Len(txs')
      BY <1>5, SendType DEF SendTx
  <2>2. pc' \in ProgramPoints
      BY <1>5 DEF SendTx, Awaiting, ProgramPoints, Handling
  <2>3. QED
      BY <1>5, <2>1, <2>2 DEF SendTx, TypeOK, relayVars
<1>6. CASE SignOrder
  <2> DEFINE o == [req |-> cur, lot |-> tx, until |-> now + OfferWindow]
  <2>1. o \in Orders
      BY <1>6, WebAssumption DEF SignOrder, Orders, TypeOK, InHand, Handling
  <2>2. signed' \in Seq(Orders) /\ Len(signed') = Len(signed) + 1
      BY <1>6, <2>1, AppendProperties DEF SignOrder, TypeOK
  <2>3. DOMAIN signed' = 1..Len(signed')
      BY <2>2, LenProperties
  <2>4. /\ sending' \subseteq 0..Len(signed') /\ reply' \in 0..Len(signed')
        /\ published' \subseteq DOMAIN signed' /\ filled' \subseteq DOMAIN signed'
      BY <1>0, <1>6, <2>2, <2>3 DEF SignOrder, TypeOK, relayVars, chainVars
  <2>5. QED
      BY <1>6, <2>2, <2>4 DEF SignOrder, TypeOK, relayVars, chainVars, ProgramPoints, Handling
<1>7. CASE Granted
    BY <1>7 DEF Granted, TypeOK, locals, relayVars, chainVars, ProgramPoints
<1>8. CASE Restart
    BY <1>0, <1>8, EmptySeq DEF Restart, TypeOK, relayVars, chainVars, ProgramPoints, Login
<1>9. ASSUME NEW r \in Requests, Deliver(r) PROVE TypeOK'
  <2>1. Append(inbox, r) \in Seq(Requests)
      BY AppendProperties DEF TypeOK
  <2>2. QED
      BY <1>9, <2>1 DEF Deliver, TypeOK, locals, chainVars
<1>10. ASSUME NEW k \in sending, Publish(k) \/ Lose(k) PROVE TypeOK'
  <2>1. k \in 0..Len(signed)
      BY DEF TypeOK
  <2>2. published' \subseteq DOMAIN signed /\ sending' \subseteq 0..Len(signed)
    <3>1. CASE Publish(k)
        BY <1>0, <2>1, <3>1 DEF Publish, TypeOK
    <3>2. CASE Lose(k)
        BY <3>2 DEF Lose, TypeOK, relayVars
    <3>3. QED
        BY <1>10, <3>1, <3>2
  <2>3. UNCHANGED <<pc, inbox, locals, signed, routed, chainVars>>
      BY <1>10 DEF Publish, Lose, relayVars
  <2>4. QED
      BY <2>2, <2>3 DEF TypeOK, locals, chainVars
<1>11. ASSUME NEW i \in DOMAIN txs, Mine(i) PROVE TypeOK'
  <2>1. /\ txs' \in Seq(Txs) /\ Len(txs') = Len(txs) /\ txs[i] \in Txs
      BY <1>11, ConfirmType
  <2>2. txs[i].req \in Requests /\ txs[i].req.option \in Options
      BY <2>1 DEF Txs, InHand
  <2>3. txs[i].req.amount \in Nat /\ Collateral(txs[i].req) \in Nat
      BY <2>2, CollateralType
  <2>4. allowance \in Nat /\ operator \in BOOLEAN /\ balance \in [Options -> Nat]
      BY DEF TypeOK
  <2>5. [balance EXCEPT ![txs[i].req.option] = @ + txs[i].req.amount] \in [Options -> Nat]
      BY <2>2, <2>3, <2>4
  <2>6. allowance' \in Nat /\ operator' \in BOOLEAN /\ balance' \in [Options -> Nat]
    <3> HIDE DEF TypeInv
    <3> DEFINE b == [balance EXCEPT ![txs[i].req.option] = @ + txs[i].req.amount]
               c == Collateral(txs[i].req)
    <3>1. \/ allowance' = c /\ UNCHANGED <<operator, balance>>
          \/ allowance >= c /\ allowance' = allowance - c /\ balance' = b /\ UNCHANGED operator
          \/ operator' = TRUE /\ UNCHANGED <<allowance, balance>>
        BY ONLY <1>11 DEF Mine
    <3>2. c \in Nat /\ b \in [Options -> Nat]
        BY <2>3, <2>5
    <3> HIDE DEF b, c
    <3>3. allowance' \in Nat
        BY ONLY <2>4, <3>1, <3>2
    <3>4. balance' \in [Options -> Nat]
        BY ONLY <2>4, <3>1, <3>2, Zenon
    <3>5. operator' \in BOOLEAN
        BY ONLY <2>4, <3>1, Zenon
    <3>6. QED
        BY ONLY <3>3, <3>4, <3>5
  <2>7. QED
      BY <1>11, <2>1, <2>6 DEF Mine, TypeOK, locals, relayVars
<1>12. ASSUME NEW i \in DOMAIN txs, Revert(i) PROVE TypeOK'
  <2>1. txs' \in Seq(Txs) /\ Len(txs') = Len(txs)
      BY <1>12, ConfirmType
  <2>2. QED
      BY <1>12, <2>1 DEF Revert, TypeOK, locals, relayVars
<1>13. ASSUME NEW k \in published, Fill(k) PROVE TypeOK'
  <2>1. k \in DOMAIN signed /\ signed[k] \in Orders
      BY <1>0, ElementOfSeq DEF TypeOK
  <2>2. signed[k].req.amount \in Nat
      BY <2>1, WebRequestAssumption DEF Orders
  <2>3. balance' \in [Options -> Nat]
      BY <1>13, <2>2, TakeFromBalance DEF Fill, TypeOK
  <2>4. QED
      BY <1>13, <2>1, <2>3 DEF Fill, TypeOK, locals, relayVars
<1>14. CASE Tick
    BY <1>14 DEF Tick, TypeOK, locals, relayVars
<1>15. QED
    BY <1>1, <1>2, <1>3, <1>4, <1>5, <1>6, <1>7, <1>8, <1>9, <1>10, <1>11, <1>12, <1>13, <1>14
    DEF Next, Program, Handle, External

LEMMA InHandNext == TypeInv /\ [Next]_vars => InHand'
<1> SUFFICES ASSUME TypeInv, [Next]_vars PROVE InHand'
    OBVIOUS
<1> USE DEF TypeInv
<1>1. ASSUME UNCHANGED <<pc, cur, tx, txs>> PROVE InHand'
    BY <1>1 DEF InHand, Sent
<1>2. ASSUME UNCHANGED txs, pc' \notin Handling PROVE InHand'
    BY <1>2 DEF InHand, Handling
<1>3. CASE ReadSell \/ ReadBuy
  <2>1. Reads /\ ~Malformed(Head(inbox)) /\ pc' \in {"grant", "option"}
      BY <1>3 DEF ReadSell, ReadBuy, Undefined
  <2>2. cur' \in Requests /\ cur'.option \in Options
      BY <2>1, ReadsType
  <2>3. QED
      BY <2>1, <2>2 DEF Reads, InHand, chainVars
<1>4. CASE FetchOption \/ Reverted
    BY <1>4 DEF FetchOption, Reverted, Undefined, InHand, Handling, chainVars
<1>5. ASSUME NEW kind \in {"approve", "write", "grant"}, SendTx(kind) PROVE InHand'
  <2>1. pc' = Awaiting[kind] /\ UNCHANGED cur /\ tx' = Len(txs')
      BY <1>5 DEF SendTx
  <2>2. Sent(kind)' /\ \A i \in DOMAIN txs' : txs'[i].req.option \in Options
      BY <1>5, <2>1, SendType DEF Sent, InHand
  <2>3. QED
      BY <1>5, <2>1, <2>2, SendType DEF InHand, Awaiting
<1>6. CASE Approved \/ Written
    BY <1>6 DEF Approved, Written, InHand, Sent, Handling, locals, chainVars
<1>7. CASE SignOrder
    BY <1>7 DEF SignOrder, InHand, Handling, chainVars
<1>8. ASSUME NEW i \in DOMAIN txs, Mine(i) \/ Revert(i) PROVE InHand'
  <2>1. UNCHANGED <<pc, cur, tx>>
      BY <1>8 DEF Mine, Revert, locals
  <2>2. \A kind : Sent(kind) => Sent(kind)'
      BY <1>8, <2>1, ConfirmType DEF Sent
  <2>3. Sent("approve") /\ txs[tx].status = "mined" => txs'[tx'].status = "mined"
      BY <1>8, <2>1, ConfirmType DEF Sent
  <2>4. Sent("write") /\ txs[tx].status = "mined" => txs'[tx'].status = "mined"
      BY <1>8, <2>1, ConfirmType DEF Sent
  <2>5. \A j \in DOMAIN txs' : txs'[j].req.option \in Options
      BY <1>8, ConfirmType DEF InHand
  <2>6. QED
      BY <2>1, <2>2, <2>3, <2>4, <2>5 DEF InHand
<1>9. CASE LoginStep \/ Listen \/ StreamEnds \/ ReadMalformed \/ Granted \/ NotGranted
           \/ Throws \/ Restart
  <2>1. UNCHANGED txs /\ pc' \notin Handling
      BY <1>9 DEF LoginStep, Listen, StreamEnds, ReadMalformed, Reads, Granted, NotGranted,
         Throws, Restart, Login, AfterLogin, Handling, chainVars
  <2>2. QED
      BY <1>2, <2>1
<1>10. QED
    BY <1>1, <1>3, <1>4, <1>5, <1>6, <1>7, <1>8, <1>9
    DEF Next, Program, Handle, External, Deliver, Publish, Lose, Fill, Tick, vars, locals, chainVars

LEMMA TypeInvariant == Spec => []TypeInv
<1>1. TypeInv /\ [Next]_vars => TypeInv'
    BY TypeNext, InHandNext DEF TypeInv
<1>2. QED
    BY <1>1, TypeInit, PTL DEF Spec

\* The maker's variables keep their types: no allowance and no balance goes below
\* zero, and a response carries no order that was never signed.
THEOREM WebTypeCorrect == Spec => []TypeOK
<1>1. TypeInv => TypeOK
    BY DEF TypeInv
<1>2. QED
    BY <1>1, TypeInvariant, PTL

-----------------------------------------------------------------------------
(* Every order has a write of its own.                                     *)

\* The write in hand backs no order yet.
LotInv ==
    /\ OfferHasOwnLot
    /\ pc \in {"writing", "order"} => \A k \in DOMAIN signed : signed[k].lot # tx

\* A transaction that was mined stays what it is.
LEMMA TxsGrow ==
    TypeInv /\ [Next]_vars =>
        /\ DOMAIN txs \subseteq DOMAIN txs'
        /\ \A i \in DOMAIN txs : txs[i].status = "mined" => txs'[i] = txs[i]
<1> SUFFICES ASSUME TypeInv, [Next]_vars
             PROVE  /\ DOMAIN txs \subseteq DOMAIN txs'
                    /\ \A i \in DOMAIN txs : txs[i].status = "mined" => txs'[i] = txs[i]
    OBVIOUS
<1>1. CASE UNCHANGED txs
    BY <1>1
<1>2. ASSUME NEW kind \in {"approve", "write", "grant"}, SendTx(kind)
      PROVE  /\ DOMAIN txs \subseteq DOMAIN txs'
             /\ \A i \in DOMAIN txs : txs'[i] = txs[i]
    BY <1>2, SendType
<1>3. ASSUME NEW i \in DOMAIN txs, Mine(i) \/ Revert(i)
      PROVE  /\ DOMAIN txs \subseteq DOMAIN txs'
             /\ \A j \in DOMAIN txs : txs[j].status = "mined" => txs'[j] = txs[j]
    BY <1>3, ConfirmType
<1>4. QED
    BY <1>1, <1>2, <1>3
    DEF Next, Program, Handle, External, LoginStep, Listen, StreamEnds, ReadMalformed, ReadSell,
        ReadBuy, Reads, FetchOption, Approved, Written, Reverted, SignOrder, Granted, NotGranted,
        Throws, Restart, Deliver, Publish, Lose, Fill, Tick, vars, chainVars

LEMMA LotNext == TypeInv /\ LotInv /\ [Next]_vars => LotInv'
<1> SUFFICES ASSUME TypeInv, LotInv, [Next]_vars PROVE LotInv'
    OBVIOUS
<1>1. ASSUME UNCHANGED signed PROVE OfferHasOwnLot'
    BY <1>1, TxsGrow DEF LotInv, OfferHasOwnLot
<1>2. ASSUME UNCHANGED signed, pc' \notin {"writing", "order"} PROVE LotInv'
    BY <1>1, <1>2 DEF LotInv
<1>3. ASSUME UNCHANGED <<signed, pc, tx>> PROVE LotInv'
    BY <1>1, <1>3 DEF LotInv
<1>4. CASE SendTx("write")
  <2>1. UNCHANGED signed /\ tx' = Len(txs')
      BY <1>4 DEF SendTx
  <2>2. tx' \notin DOMAIN txs
      BY <1>4, <2>1, SendType
  <2>3. QED
      BY <1>1, <2>1, <2>2 DEF LotInv, OfferHasOwnLot
<1>5. CASE Written
    BY <1>1, <1>5 DEF Written, LotInv, locals
<1>6. CASE SignOrder
  <2> DEFINE o == [req |-> cur, lot |-> tx, until |-> now + OfferWindow]
  <2>1. o \in Orders /\ signed \in Seq(Orders) /\ signed' = Append(signed, o)
      BY <1>6, WebAssumption DEF SignOrder, Orders, TypeInv, TypeOK, InHand, Handling
  <2>2. /\ DOMAIN signed' = DOMAIN signed \cup {Len(signed) + 1}
        /\ Len(signed) + 1 \notin DOMAIN signed
        /\ signed'[Len(signed) + 1] = o
        /\ \A k \in DOMAIN signed : signed'[k] = signed[k]
      BY <2>1, AppendProperties, LenProperties
  <2>3. UNCHANGED <<txs, tx, cur>> /\ pc' = "grant" /\ pc = "order"
      BY <1>6 DEF SignOrder, chainVars
  <2>4. tx \in DOMAIN txs /\ txs[tx] = [kind |-> "write", req |-> cur, status |-> "mined"]
    <3>1. /\ tx \in DOMAIN txs /\ txs[tx].kind = "write" /\ txs[tx].req = cur
          /\ txs[tx].status = "mined"
        BY <2>3 DEF TypeInv, InHand, Sent
    <3>2. txs[tx] \in Txs
        BY <3>1, LenProperties, ElementOfSeq DEF TypeInv, TypeOK
    <3>3. QED
        BY <3>1, <3>2 DEF Txs
  <2>5. \A k \in DOMAIN signed : signed[k].lot # tx
      BY <2>3 DEF LotInv
  <2>6. QED
      BY <2>2, <2>3, <2>4, <2>5 DEF LotInv, OfferHasOwnLot
<1>7. CASE SendTx("approve") \/ SendTx("grant")
    BY <1>2, <1>7 DEF SendTx, Awaiting
<1>8. CASE LoginStep
    BY <1>2, <1>8 DEF LoginStep, Login, AfterLogin
<1>9. QED
    BY <1>2, <1>3, <1>4, <1>5, <1>6, <1>7, <1>8
    DEF Next, Program, Handle, External, Listen, StreamEnds, ReadMalformed, ReadSell,
        ReadBuy, Reads, Undefined, FetchOption, Approved, Reverted, Granted, NotGranted,
        Throws, Restart, Deliver, Publish, Lose, Mine, Revert, Fill, Tick, vars, locals, chainVars

\* Whatever transactions revert, receipts fail to come and processes are started
\* again, every order is backed by a write of its own, mined before it was signed
\* (constructQuoteResponse waits for the receipt of its write).
THEOREM WebOffersHaveOwnLots == Spec => []OfferHasOwnLot
<1>1. Init => LotInv
    BY DEF Init, LotInv, OfferHasOwnLot
<1>2. LotInv => OfferHasOwnLot
    BY DEF LotInv
<1>3. QED
    BY <1>1, <1>2, LotNext, TypeInvariant, PTL DEF Spec

-----------------------------------------------------------------------------
(* Every write finds its collateral approved.                              *)

\* Transactions leave the queue in order of nonce; a write was sent right after
\* the approval of its collateral was mined; and the approval that was mined last
\* is what the engine may take.
ApprovalInv ==
    /\ \A i, j \in DOMAIN txs : i < j /\ txs[i].status = "pending" => txs[j].status = "pending"
    /\ \A i \in DOMAIN txs : txs[i].kind = "write" =>
          /\ i - 1 \in DOMAIN txs
          /\ txs[i - 1] = [kind |-> "approve", req |-> txs[i].req, status |-> "mined"]
    /\ \A i \in DOMAIN txs :
          /\ txs[i].kind = "approve" /\ txs[i].status = "mined"
          /\ \A j \in DOMAIN txs : i < j => txs[j].status = "pending"
          => allowance = Collateral(txs[i].req)

LEMMA ApprovalNext == TypeInv /\ ApprovalInv /\ [Next]_vars => ApprovalInv'
<1> SUFFICES ASSUME TypeInv, ApprovalInv, [Next]_vars PROVE ApprovalInv'
    OBVIOUS
<1>0. Len(txs) \in Nat /\ DOMAIN txs = 1..Len(txs)
    BY LenProperties DEF TypeInv, TypeOK
<1>1. CASE UNCHANGED <<txs, allowance>>
    BY <1>1 DEF ApprovalInv, Collateral
<1>2. ASSUME NEW kind \in {"approve", "write", "grant"}, SendTx(kind) PROVE ApprovalInv'
  <2> DEFINE n == Len(txs) + 1
  <2>1. /\ DOMAIN txs' = 1..n /\ txs'[n] = [kind |-> kind, req |-> cur, status |-> "pending"]
        /\ \A i \in DOMAIN txs : txs'[i] = txs[i]
        /\ UNCHANGED allowance
      BY <1>2, SendType DEF SendTx
  <2>2. txs'[n].status = "pending" /\ txs'[n].req = cur /\ txs'[n].kind = kind
      BY <2>1
  <2>3. kind = "write" => /\ n - 1 \in DOMAIN txs
                          /\ txs[n - 1] = [kind |-> "approve", req |-> cur, status |-> "mined"]
    <3>1. SUFFICES ASSUME kind = "write"
                   PROVE  /\ n - 1 \in DOMAIN txs
                          /\ txs[n - 1] = [kind |-> "approve", req |-> cur, status |-> "mined"]
        OBVIOUS
    <3>2. Sent("approve") /\ txs[tx].status = "mined"
        BY <1>2, <3>1 DEF SendTx, TypeInv, InHand
    <3>3. tx = n - 1 /\ tx \in DOMAIN txs
        BY <1>0, <3>2 DEF Sent
    <3>4. txs[tx] \in Txs
        BY <3>3, <1>0, ElementOfSeq DEF TypeInv, TypeOK
    <3>5. QED
        BY <3>2, <3>3, <3>4 DEF Sent, Txs
  <2>4. \A i, j \in DOMAIN txs' :
            i < j /\ txs'[i].status = "pending" => txs'[j].status = "pending"
      BY <1>0, <2>1, <2>2 DEF ApprovalInv
  <2>5. \A i \in DOMAIN txs' : txs'[i].kind = "write" =>
            /\ i - 1 \in DOMAIN txs'
            /\ txs'[i - 1] = [kind |-> "approve", req |-> txs'[i].req, status |-> "mined"]
    <3>1. TAKE i \in DOMAIN txs'
    <3>2. CASE i = n
        BY <1>0, <2>1, <2>2, <2>3, <3>2
    <3>3. CASE i \in DOMAIN txs
        BY <1>0, <2>1, <3>3 DEF ApprovalInv
    <3>4. QED
        BY <1>0, <2>1, <3>2, <3>3
  <2>6. ASSUME NEW i \in DOMAIN txs', txs'[i].kind = "approve", txs'[i].status = "mined",
               \A j \in DOMAIN txs' : i < j => txs'[j].status = "pending"
        PROVE  allowance' = Collateral(txs'[i].req)
    <3>1. i \in DOMAIN txs /\ txs'[i] = txs[i]
        BY <1>0, <2>1, <2>2, <2>6
    <3>2. \A j \in DOMAIN txs : i < j => txs[j].status = "pending"
        BY <1>0, <2>1, <2>6
    <3>3. QED
        BY <2>1, <2>6, <3>1, <3>2 DEF ApprovalInv
  <2>7. QED
      BY <2>4, <2>5, <2>6 DEF ApprovalInv, Collateral
<1>3. ASSUME NEW k \in DOMAIN txs, Mine(k) \/ Revert(k) PROVE ApprovalInv'
  <2>1. /\ DOMAIN txs' = DOMAIN txs /\ txs[k].status = "pending"
        /\ \A j \in DOMAIN txs : txs'[j].kind = txs[j].kind /\ txs'[j].req = txs[j].req
        /\ \A j \in DOMAIN txs : j # k => txs'[j] = txs[j]
        /\ txs'[k].status = IF Mine(k) THEN "mined" ELSE "reverted"
      BY <1>3, ConfirmType
  <2>2. \A j \in 1..(k - 1) : txs[j].status # "pending"
      BY <1>3 DEF Mine, Revert, NextTx
  <2>3. \A j \in DOMAIN txs : j < k => txs'[j].status # "pending"
      BY <1>0, <2>1, <2>2
  <2>4. \A j \in DOMAIN txs : k < j => txs[j].status = "pending"
      BY <2>1 DEF ApprovalInv
  <2>5. \A i, j \in DOMAIN txs' :
            i < j /\ txs'[i].status = "pending" => txs'[j].status = "pending"
      BY <1>0, <2>1, <2>3, <2>4
  <2>6. \A i \in DOMAIN txs' : txs'[i].kind = "write" =>
            /\ i - 1 \in DOMAIN txs'
            /\ txs'[i - 1] = [kind |-> "approve", req |-> txs'[i].req, status |-> "mined"]
    <3>1. SUFFICES ASSUME NEW i \in DOMAIN txs, txs[i].kind = "write"
                   PROVE  /\ i - 1 \in DOMAIN txs
                          /\ txs'[i - 1] = [kind |-> "approve", req |-> txs[i].req, status |-> "mined"]
        BY <2>1
    <3>2. /\ i - 1 \in DOMAIN txs
          /\ txs[i - 1] = [kind |-> "approve", req |-> txs[i].req, status |-> "mined"]
        BY <3>1 DEF ApprovalInv
    <3>3. txs[i - 1].status = "mined"
        BY <3>2
    <3>4. i - 1 # k
        BY <2>1, <3>3
    <3>5. QED
        BY <2>1, <3>2, <3>4
  <2>7. ASSUME NEW i \in DOMAIN txs', txs'[i].kind = "approve", txs'[i].status = "mined",
               \A j \in DOMAIN txs' : i < j => txs'[j].status = "pending"
        PROVE  allowance' = Collateral(txs'[i].req)
    <3>1. i = k
        BY <1>0, <2>1, <2>4, <2>7
    <3>2. Mine(k) /\ txs[k].kind = "approve" /\ txs'[i].req = txs[k].req
        BY <2>1, <2>7, <3>1
    <3>3. QED
        BY <3>2 DEF Mine
  <2>8. QED
      BY <2>5, <2>6, <2>7 DEF ApprovalInv, Collateral
<1>4. QED
    BY <1>1, <1>2, <1>3
    DEF Next, Program, Handle, External, LoginStep, Listen, StreamEnds, ReadMalformed, ReadSell,
        ReadBuy, Reads, FetchOption, Approved, Written, Reverted, SignOrder, Granted, NotGranted,
        Throws, Restart, Deliver, Publish, Lose, Fill, Tick, vars, chainVars

LEMMA ApprovalMeans == TypeInv /\ ApprovalInv => WriteIsApproved
<1> SUFFICES ASSUME TypeInv, ApprovalInv, NEW i \in DOMAIN txs, NextTx(i), txs[i].kind = "write"
             PROVE  allowance >= Collateral(txs[i].req)
    BY DEF WriteIsApproved
<1>1. Len(txs) \in Nat /\ DOMAIN txs = 1..Len(txs) /\ txs[i].status = "pending"
    BY LenProperties DEF TypeInv, TypeOK, NextTx
<1>2. i - 1 \in DOMAIN txs /\ txs[i - 1] = [kind |-> "approve", req |-> txs[i].req, status |-> "mined"]
    BY DEF ApprovalInv
<1>3. txs[i - 1].kind = "approve" /\ txs[i - 1].status = "mined" /\ txs[i - 1].req = txs[i].req
    BY <1>2
<1>4. \A j \in DOMAIN txs : i - 1 < j => txs[j].status = "pending"
  <2>1. \A j \in DOMAIN txs : i - 1 < j => j = i \/ i < j
      BY <1>1
  <2>2. QED
      BY <1>1, <2>1 DEF ApprovalInv
<1>5. allowance = Collateral(txs[i].req)
    BY <1>2, <1>3, <1>4 DEF ApprovalInv
<1>6. allowance \in Nat
    BY DEF TypeInv, TypeOK
<1>7. QED
    BY <1>5, <1>6

\* With any requests, collateral ratios, reverts and restarts, a write whose turn
\* has come finds at least its collateral approved: the transactions of another
\* request, or of the process before, do not come in between.
THEOREM WritesAreApproved == Spec => []WriteIsApproved
<1>1. Init => ApprovalInv
    BY DEF Init, ApprovalInv
<1>2. QED
    BY <1>1, ApprovalNext, ApprovalMeans, TypeInvariant, PTL DEF Spec

-----------------------------------------------------------------------------
(* This maker implements the abstract desk, too.                           *)

LEMMA LotSets ==
    ASSUME OfferHasOwnLot, filled \subseteq DOMAIN signed
    PROVE  /\ Promised \subseteq Mined
           /\ Sold \subseteq Promised
           /\ \A k \in DOMAIN signed \ filled : signed[k].lot \in Promised \ Sold
<1>1. ASSUME NEW l \in Promised PROVE l \in Mined
  <2>1. PICK k \in DOMAIN signed : l = signed[k].lot
      BY <1>1 DEF Promised
  <2>2. l \in DOMAIN txs
        /\ txs[l] = [kind |-> "write", req |-> signed[k].req, status |-> "mined"]
      BY <2>1 DEF OfferHasOwnLot
  <2>3. txs[l].kind = "write" /\ txs[l].status = "mined"
      BY <2>2
  <2>4. QED
      BY <2>2, <2>3 DEF Mined
<1>2. Sold \subseteq Promised
    BY DEF Promised, Sold
<1>3. ASSUME NEW k \in DOMAIN signed \ filled PROVE signed[k].lot \in Promised \ Sold
  <2>1. \A l \in filled : signed[l].lot # signed[k].lot
      BY <1>3 DEF OfferHasOwnLot
  <2>2. QED
      BY <2>1, <1>3 DEF Promised, Sold
<1>4. QED
    BY <1>1, <1>2, <1>3

DeskInv == TypeInv /\ LotInv

LEMMA DeskStep == DeskInv /\ [Next]_vars => [Desk!DeskNext]_(Desk!deskVars)
<1> SUFFICES ASSUME DeskInv, [Next]_vars PROVE [Desk!DeskNext]_(Desk!deskVars)
    OBVIOUS
<1>0. TypeInv /\ LotInv /\ OfferHasOwnLot /\ filled \subseteq DOMAIN signed
    BY DEF DeskInv, LotInv, TypeInv, TypeOK
<1>1. ASSUME UNCHANGED <<Mined, Promised, Sold>> PROVE [Desk!DeskNext]_(Desk!deskVars)
    BY <1>1 DEF Desk!deskVars
<1>2. ASSUME UNCHANGED <<signed, filled>> PROVE UNCHANGED <<Promised, Sold>>
    BY <1>2 DEF Promised, Sold
<1>3. CASE UNCHANGED <<signed, filled, txs>>
    BY <1>1, <1>2, <1>3 DEF Mined
<1>4. ASSUME NEW kind \in {"approve", "write", "grant"}, SendTx(kind)
      PROVE  [Desk!DeskNext]_(Desk!deskVars)
  <2>1. txs'[Len(txs) + 1].status = "pending"
      BY <1>0, <1>4, SendType
  <2>2. Mined' = Mined
      BY <1>0, <1>4, <2>1, SendType DEF Mined
  <2>3. QED
      BY <1>1, <1>2, <1>4, <2>2 DEF SendTx
<1>5. ASSUME NEW i \in DOMAIN txs, Mine(i) \/ Revert(i) PROVE [Desk!DeskNext]_(Desk!deskVars)
  <2>1. /\ DOMAIN txs' = DOMAIN txs /\ txs[i].status = "pending"
        /\ \A j \in DOMAIN txs : txs'[j].kind = txs[j].kind
        /\ \A j \in DOMAIN txs : j # i => txs'[j] = txs[j]
        /\ txs'[i].status = IF Mine(i) THEN "mined" ELSE "reverted"
      BY <1>0, <1>5, ConfirmType
  <2>2. UNCHANGED <<Promised, Sold>>
      BY <1>2, <1>5 DEF Mine, Revert
  <2>3. CASE Mine(i) /\ txs[i].kind = "write"
    <3>1. Mined' = Mined \cup {i} /\ i \notin Mined
        BY <2>1, <2>3 DEF Mined
    <3>2. Desk!Acquire
        BY <1>0, <2>2, <3>1, LotSets DEF Desk!Acquire
    <3>3. QED
        BY <3>2 DEF Desk!DeskNext
  <2>4. CASE ~(Mine(i) /\ txs[i].kind = "write")
    <3>1. Mined' = Mined
        BY <2>1, <2>4 DEF Mined
    <3>2. QED
        BY <1>1, <2>2, <3>1
  <2>5. QED
      BY <2>3, <2>4
<1>6. CASE SignOrder
  <2> DEFINE o == [req |-> cur, lot |-> tx, until |-> now + OfferWindow]
  <2>1. o \in Orders /\ signed \in Seq(Orders) /\ signed' = Append(signed, o)
      BY <1>0, <1>6, WebAssumption DEF SignOrder, Orders, TypeInv, TypeOK, InHand, Handling
  <2>2. /\ DOMAIN signed' = DOMAIN signed \cup {Len(signed) + 1}
        /\ Len(signed) + 1 \notin DOMAIN signed
        /\ signed'[Len(signed) + 1] = o
        /\ \A k \in DOMAIN signed : signed'[k] = signed[k]
      BY <2>1, AppendProperties, LenProperties
  <2>3. UNCHANGED <<txs, filled>> /\ pc = "order"
      BY <1>6 DEF SignOrder, chainVars
  <2>4. UNCHANGED <<Mined, Sold>> /\ Promised' = Promised \cup {tx}
      BY <1>0, <2>2, <2>3 DEF Mined, Sold, Promised
  <2>5. tx \in Mined \ Promised
      BY <1>0, <2>3 DEF LotInv, TypeInv, InHand, Sent, Mined, Promised
  <2>6. Desk!Commit
      BY <1>0, <2>4, <2>5, LotSets DEF Desk!Commit
  <2>7. QED
      BY <2>6 DEF Desk!DeskNext
<1>7. ASSUME NEW k \in published, Fill(k) PROVE [Desk!DeskNext]_(Desk!deskVars)
  <2>1. k \in DOMAIN signed /\ k \notin filled /\ filled' = filled \cup {k}
      BY <1>0, <1>7 DEF Fill, Live, TypeInv, TypeOK
  <2>2. UNCHANGED <<Mined, Promised>> /\ Sold' = Sold \cup {signed[k].lot}
      BY <1>7, <2>1 DEF Fill, Mined, Promised, Sold
  <2>3. signed[k].lot \in Promised \ Sold
      BY <1>0, <2>1, LotSets
  <2>4. Desk!HandOver
      BY <2>2, <2>3 DEF Desk!HandOver
  <2>5. QED
      BY <2>4 DEF Desk!DeskNext
<1>8. QED
    BY <1>3, <1>4, <1>5, <1>6, <1>7
    DEF Next, Program, Handle, External, LoginStep, Listen, StreamEnds, ReadMalformed, ReadSell,
        ReadBuy, Reads, FetchOption, Approved, Written, Reverted, Granted, NotGranted,
        Throws, Restart, Deliver, Publish, Lose, Tick, vars, chainVars

\* The TypeScript maker, through reverts, exceptions and restarts, does nothing to
\* its lots that the abstract desk does not: the same desk the Rust maker implements.
THEOREM WebMakerImplementsDesk == Spec => ImplementsDesk
<1>1. Init => Desk!DeskInit
    BY DEF Init, Desk!DeskInit, Mined, Promised, Sold
<1>2. Init => DeskInv
    BY TypeInit DEF Init, DeskInv, LotInv, OfferHasOwnLot
<1>3. DeskInv /\ [Next]_vars => DeskInv'
    BY TypeNext, InHandNext, LotNext DEF DeskInv, TypeInv
<1>4. QED
    BY <1>1, <1>2, <1>3, DeskStep, PTL DEF Spec, ImplementsDesk, Desk!DeskSpec
-----------------------------------------------------------------------------
(* What takers have received can be honoured.                              *)

\* Seaport may move the options once a grant is mined, and no response goes out
\* before one is.
GrantInv ==
    /\ \A i \in DOMAIN txs : txs[i].kind = "grant" /\ txs[i].status = "mined" => operator
    /\ sending # {} => operator
    /\ published # {} => operator

WriteAmounts == [i \in DOMAIN txs |-> txs[i].req.amount]

\* The mined lots of an option type that no fill has taken.
Unsold(o) == {i \in Mined \ Sold : txs[i].req.option = o}

\* The maker still holds the lots it has not sold.
Stocked == \A o \in Options : balance[o] >= SumFunctionOnSet(WriteAmounts, Unsold(o))

LEMMA GrantNext == TypeInv /\ GrantInv /\ [Next]_vars => GrantInv'
<1> SUFFICES ASSUME TypeInv, GrantInv, [Next]_vars PROVE GrantInv'
    OBVIOUS
<1>1. ASSUME UNCHANGED <<txs, operator>>, sending' \subseteq sending, published' = published
      PROVE  GrantInv'
    BY <1>1 DEF GrantInv
<1>2. ASSUME NEW kind \in {"approve", "write", "grant"}, SendTx(kind) PROVE GrantInv'
  <2>1. \A i \in DOMAIN txs' : txs'[i].status = "mined" => i \in DOMAIN txs /\ txs'[i] = txs[i]
      BY <1>2, SendType
  <2> QED
      BY <1>2, <2>1 DEF SendTx, GrantInv, relayVars
<1>3. CASE Granted
  <2>1. tx \in DOMAIN txs /\ txs[tx].kind = "grant" /\ txs[tx].status = "mined"
      BY <1>3 DEF Granted, TypeInv, InHand, Sent
  <2> QED
      BY <1>3, <2>1 DEF Granted, GrantInv, relayVars, chainVars
<1>4. ASSUME NEW i \in DOMAIN txs, Mine(i) \/ Revert(i) PROVE GrantInv'
  <2>1. /\ DOMAIN txs' = DOMAIN txs
        /\ \A j \in DOMAIN txs : txs'[j].kind = txs[j].kind
        /\ \A j \in DOMAIN txs : j # i => txs'[j] = txs[j]
        /\ txs'[i].status = IF Mine(i) THEN "mined" ELSE "reverted"
      BY <1>4, ConfirmType
  <2>2. operator => operator'
      BY <1>4 DEF Mine, Revert
  <2>3. Mine(i) /\ txs[i].kind = "grant" => operator'
      BY DEF Mine
  <2>4. UNCHANGED <<sending, published>>
      BY <1>4 DEF Mine, Revert, relayVars
  <2> QED
      BY <2>1, <2>2, <2>3, <2>4 DEF GrantInv
<1>5. ASSUME NEW k \in sending, Publish(k) \/ Lose(k) PROVE GrantInv'
    BY <1>5 DEF Publish, Lose, GrantInv, relayVars, chainVars
<1> QED
    BY <1>1, <1>2, <1>3, <1>4, <1>5
    DEF Next, Program, Handle, External, LoginStep, Listen, StreamEnds, ReadMalformed, ReadSell,
        ReadBuy, Reads, Undefined, FetchOption, Approved, Written, Reverted, SignOrder, NotGranted,
        Throws, Restart, Deliver, Fill, Tick, vars, relayVars, chainVars

LEMMA UnsoldFinite ==
    ASSUME TypeInv, NEW o
    PROVE  /\ IsFiniteSet(Unsold(o))
           /\ Unsold(o) \subseteq DOMAIN txs
           /\ \A i \in DOMAIN txs : WriteAmounts[i] \in Nat /\ WriteAmounts[i] = txs[i].req.amount
<1>1. txs \in Seq(Txs)
    BY DEF TypeInv, TypeOK
<1>2. Len(txs) \in Nat /\ DOMAIN txs = 1..Len(txs)
    BY <1>1, LenProperties
<1>3. IsFiniteSet(DOMAIN txs)
    BY <1>2, FS_Interval
<1>4. Unsold(o) \subseteq DOMAIN txs
    BY DEF Unsold, Mined
<1>5. ASSUME NEW i \in DOMAIN txs PROVE txs[i].req.amount \in Nat
  <2>1. txs[i] \in Txs
      BY <1>1, <1>2, ElementOfSeq
  <2> QED
      BY <2>1, WebRequestAssumption DEF Txs
<1>6. IsFiniteSet(Unsold(o))
    BY <1>3, <1>4, FS_Subset
<1>7. ASSUME NEW i \in DOMAIN txs PROVE WriteAmounts[i] = txs[i].req.amount
    BY DEF WriteAmounts
<1> QED
    BY <1>4, <1>5, <1>6, <1>7

\* A step that mines and sells no lot and takes nothing from the maker.
LEMMA StockStays ==
    ASSUME TypeInv, Stocked,
           \A i \in DOMAIN txs : i \in DOMAIN txs' /\ txs'[i].req = txs[i].req,
           UNCHANGED <<balance, Mined, Sold>>
    PROVE  Stocked'
<1> SUFFICES ASSUME NEW o \in Options
             PROVE  balance'[o] >= SumFunctionOnSet(WriteAmounts, Unsold(o))'
    BY DEF Stocked
<1> DEFINE U == Unsold(o)
<1>1. U' = U
    BY DEF Unsold, Mined
<1>2. /\ IsFiniteSet(U) /\ U \subseteq DOMAIN txs
      /\ \A i \in U : WriteAmounts[i] \in Nat /\ WriteAmounts[i] = txs[i].req.amount
    BY UnsoldFinite
<1>3. \A i \in DOMAIN txs' : WriteAmounts'[i] = txs'[i].req.amount
    BY DEF WriteAmounts
<1>4. \A i \in U : WriteAmounts[i] \in Nat /\ WriteAmounts'[i] = WriteAmounts[i]
    BY <1>2, <1>3
<1>5. balance[o] >= SumFunctionOnSet(WriteAmounts, U) /\ balance' = balance
    BY DEF Stocked
<1>6. SumFunctionOnSet(WriteAmounts, Unsold(o))' = SumFunctionOnSet(WriteAmounts', U')
    OBVIOUS
<1> HIDE DEF U
<1>7. SumFunctionOnSet(WriteAmounts, U) = SumFunctionOnSet(WriteAmounts', U)
    BY <1>2, <1>4, SumSame
<1> QED
    BY <1>1, <1>5, <1>6, <1>7

\* A lot that is mined is paid into the balance.
LEMMA StockMined ==
    ASSUME DeskInv, Stocked, NEW i \in DOMAIN txs, Mine(i)
    PROVE  Stocked'
<1>0. TypeInv /\ OfferHasOwnLot /\ filled \subseteq DOMAIN signed /\ balance \in [Options -> Nat]
    BY DEF DeskInv, LotInv, TypeInv, TypeOK
<1>1. /\ DOMAIN txs' = DOMAIN txs
      /\ txs[i] \in Txs /\ txs[i].status = "pending"
      /\ \A j \in DOMAIN txs : txs'[j].kind = txs[j].kind /\ txs'[j].req = txs[j].req
      /\ \A j \in DOMAIN txs : j # i => txs'[j] = txs[j]
      /\ txs'[i].status = "mined"
    BY <1>0, ConfirmType
<1>2. Sold' = Sold
    BY DEF Mine, Sold
<1>3. CASE txs[i].kind # "write"
  <2>1. UNCHANGED <<balance, Mined>>
      BY <1>1, <1>3 DEF Mine, Mined
  <2> QED
      BY <1>0, <1>1, <1>2, <2>1, StockStays
<1>4. CASE txs[i].kind = "write"
  <2> SUFFICES ASSUME NEW o \in Options
               PROVE  balance'[o] >= SumFunctionOnSet(WriteAmounts, Unsold(o))'
      BY DEF Stocked
  <2> DEFINE U == Unsold(o)
             S == SumFunctionOnSet(WriteAmounts, U)
             n == txs[i].req.amount
  <2>1. Mined' = Mined \cup {i} /\ i \notin Mined
      BY <1>1, <1>4 DEF Mined
  <2>2. i \notin Sold
      BY <1>0, <2>1, LotSets
  <2>3. /\ IsFiniteSet(U) /\ U \subseteq DOMAIN txs
        /\ \A j \in DOMAIN txs : WriteAmounts[j] \in Nat /\ WriteAmounts[j] = txs[j].req.amount
      BY <1>0, UnsoldFinite
  <2>4. WriteAmounts' = WriteAmounts
      BY <1>1 DEF WriteAmounts
  <2>5. i \notin U /\ U' = IF txs[i].req.option = o THEN U \cup {i} ELSE U
      BY <1>1, <1>2, <2>1, <2>2 DEF Unsold, Mined
  <2>6. balance'[o] = IF txs[i].req.option = o THEN balance[o] + n ELSE balance[o]
      BY <1>0, <1>4 DEF Mine
  <2>7. balance[o] >= S /\ balance[o] \in Nat
      BY <1>0 DEF Stocked
  <2>8. SumFunctionOnSet(WriteAmounts, Unsold(o))' = SumFunctionOnSet(WriteAmounts, U')
      BY <2>4 DEF U
  <2> HIDE DEF U
  <2>9. S \in Nat
      BY <2>3, SumType
  <2>10. SumFunctionOnSet(WriteAmounts, U \cup {i}) = WriteAmounts[i] + S
      BY <2>3, <2>5, SumAdd
  <2>11. WriteAmounts[i] = n /\ n \in Nat
      BY <2>3
  <2> HIDE DEF n, S
  <2>12. CASE txs[i].req.option = o
      BY <2>5, <2>6, <2>7, <2>8, <2>9, <2>10, <2>11, <2>12
  <2>13. CASE txs[i].req.option # o
      BY <2>5, <2>6, <2>7, <2>8, <2>13 DEF S
  <2> QED
      BY <2>12, <2>13
<1> QED
    BY <1>3, <1>4

\* A fill takes the lot of its order.
LEMMA StockFilled ==
    ASSUME DeskInv, Stocked, NEW k \in published, Fill(k)
    PROVE  Stocked'
<1> SUFFICES ASSUME NEW o \in Options
             PROVE  balance'[o] >= SumFunctionOnSet(WriteAmounts, Unsold(o))'
    BY DEF Stocked
<1>0. /\ TypeInv /\ OfferHasOwnLot /\ filled \subseteq DOMAIN signed
      /\ balance \in [Options -> Nat] /\ published \subseteq DOMAIN signed
    BY DEF DeskInv, LotInv, TypeInv, TypeOK
<1> DEFINE U == Unsold(o)
           S == SumFunctionOnSet(WriteAmounts, U)
           r == signed[k].req
           l == signed[k].lot
<1>1. k \in DOMAIN signed \ filled /\ filled' = filled \cup {k}
    BY <1>0 DEF Fill, Live
<1>2. UNCHANGED <<signed, txs, Mined, WriteAmounts>>
    BY DEF Fill, Mined, WriteAmounts
<1>3. /\ l \in DOMAIN txs
      /\ txs[l] = [kind |-> "write", req |-> r, status |-> "mined"]
    BY <1>0, <1>1 DEF OfferHasOwnLot
<1>4. l \in DOMAIN txs /\ txs[l].req = r
    BY <1>3
<1>5. l \in Promised \ Sold /\ Sold' = Sold \cup {l} /\ Promised \subseteq Mined
    BY <1>0, <1>1, <1>2, LotSets DEF Sold
<1>6. U' = U \ {l} /\ (l \in U <=> r.option = o)
    BY <1>2, <1>4, <1>5 DEF Unsold
<1>7. /\ IsFiniteSet(U) /\ U \subseteq DOMAIN txs
      /\ \A j \in DOMAIN txs : WriteAmounts[j] \in Nat /\ WriteAmounts[j] = txs[j].req.amount
    BY <1>0, UnsoldFinite
<1>8. WriteAmounts[l] = r.amount /\ r.amount \in Nat
    BY <1>4, <1>7
<1>9. balance[o] >= S /\ balance[o] \in Nat
    BY <1>0 DEF Stocked
<1>10. SumFunctionOnSet(WriteAmounts, Unsold(o))' = SumFunctionOnSet(WriteAmounts, U')
    BY <1>2 DEF U
<1>11. balance'[o] = IF r.option = o THEN balance[o] - r.amount ELSE balance[o]
    BY <1>0 DEF Fill
<1> HIDE DEF U, l, r
<1>12. CASE r.option = o
  <2>1. S = WriteAmounts[l] + SumFunctionOnSet(WriteAmounts, U \ {l})
      BY <1>6, <1>7, <1>12, SumRemove
  <2>2. IsFiniteSet(U \ {l}) /\ \A j \in U \ {l} : WriteAmounts[j] \in Nat
      BY <1>7, FS_Subset
  <2>3. SumFunctionOnSet(WriteAmounts, U \ {l}) \in Nat
      BY <2>2, SumType
  <2> QED
      BY <1>6, <1>8, <1>9, <1>10, <1>11, <1>12, <2>1, <2>3
<1>13. CASE r.option # o
  <2>1. U' = U
      BY <1>6, <1>13
  <2> QED
      BY <1>9, <1>10, <1>11, <1>13, <2>1
<1> QED
    BY <1>12, <1>13

LEMMA StockNext == DeskInv /\ DeskInv' /\ Stocked /\ [Next]_vars => Stocked'
<1> SUFFICES ASSUME DeskInv, DeskInv', Stocked, [Next]_vars PROVE Stocked'
    OBVIOUS
<1>0. TypeInv /\ filled \subseteq DOMAIN signed
    BY DEF DeskInv, TypeInv, TypeOK
<1>1. CASE UNCHANGED <<signed, filled, txs, balance>>
    BY <1>0, <1>1, StockStays DEF Mined, Sold
<1>2. ASSUME NEW kind \in {"approve", "write", "grant"}, SendTx(kind) PROVE Stocked'
  <2>1. /\ DOMAIN txs \subseteq DOMAIN txs'
        /\ \A i \in DOMAIN txs : txs'[i] = txs[i]
        /\ \A i \in DOMAIN txs' \ DOMAIN txs : txs'[i].status = "pending"
      BY <1>0, <1>2, SendType
  <2>2. Mined' = Mined
      BY <2>1 DEF Mined
  <2>3. UNCHANGED <<balance, Sold>>
      BY <1>2 DEF SendTx, Sold
  <2> QED
      BY <1>0, <2>1, <2>2, <2>3, StockStays
<1>3. ASSUME NEW i \in DOMAIN txs, Revert(i) PROVE Stocked'
  <2>1. /\ DOMAIN txs' = DOMAIN txs
        /\ \A j \in DOMAIN txs : txs'[j].kind = txs[j].kind /\ txs'[j].req = txs[j].req
        /\ \A j \in DOMAIN txs : j # i => txs'[j] = txs[j]
        /\ txs[i] \in Txs /\ txs[i].status = "pending"
      BY <1>0, <1>3, ConfirmType
  <2>2. txs'[i].status = "reverted"
      BY <1>3, <2>1 DEF Revert, Txs
  <2>3. Mined' = Mined
      BY <2>2, <2>1 DEF Mined
  <2>4. UNCHANGED <<balance, Sold>>
      BY <1>3 DEF Revert, Sold
  <2> QED
      BY <1>0, <2>1, <2>3, <2>4, StockStays
<1>4. CASE SignOrder
  <2>1. UNCHANGED <<txs, filled, balance>>
      BY <1>4 DEF SignOrder, chainVars
  <2>2. \A k \in DOMAIN signed : signed'[k] = signed[k]
    <3> DEFINE d == [req |-> cur, lot |-> tx, until |-> now + OfferWindow]
    <3>1. d \in Orders /\ signed \in Seq(Orders) /\ signed' = Append(signed, d)
        BY <1>0, <1>4, WebAssumption
        DEF SignOrder, Orders, TypeInv, TypeOK, InHand, Handling
    <3> HIDE DEF d
    <3> QED
        BY <3>1, AppendProperties, LenProperties
  <2>3. Sold' = Sold
      BY <1>0, <2>1, <2>2 DEF Sold
  <2> QED
      BY <1>0, <2>1, <2>3, StockStays DEF Mined
<1> QED
    BY <1>1, <1>2, <1>3, <1>4, StockMined, StockFilled
    DEF Next, Program, Handle, External, LoginStep, Listen, StreamEnds, ReadMalformed, ReadSell,
        ReadBuy, Reads, FetchOption, Approved, Written, Reverted, Granted, NotGranted,
        Throws, Restart, Deliver, Publish, Lose, Tick, vars, chainVars

LEMMA StockHonoursOffers == DeskInv /\ GrantInv /\ Stocked => OffersCanBeHonoured
<1> SUFFICES ASSUME DeskInv, Stocked, NEW o \in Options
             PROVE  balance[o] >= SumFunctionOnSet(Amounts, Outstanding(o))
    BY DEF OffersCanBeHonoured, GrantInv
<1>0. /\ TypeInv /\ OfferHasOwnLot /\ filled \subseteq DOMAIN signed
      /\ signed \in Seq(Orders) /\ published \subseteq DOMAIN signed /\ balance[o] \in Nat
    BY DEF DeskInv, LotInv, TypeInv, TypeOK
<1> DEFINE A == Outstanding(o)
           U == Unsold(o)
           j == [k \in A |-> signed[k].lot]
<1>1. /\ Len(signed) \in Nat /\ DOMAIN signed = 1..Len(signed)
      /\ A \subseteq DOMAIN signed
    BY <1>0, LenProperties DEF Outstanding
<1>2. IsFiniteSet(A)
  <2>1. IsFiniteSet(DOMAIN signed)
      BY <1>1, FS_Interval
  <2> QED
      BY <1>1, <2>1, FS_Subset
<1>3. ASSUME NEW k \in A PROVE Amounts[k] = signed[k].req.amount /\ Amounts[k] \in Nat
  <2>1. k \in DOMAIN signed
      BY <1>1
  <2>2. signed[k] \in Orders
      BY <1>0, <1>1, <2>1, ElementOfSeq
  <2>3. signed[k].req.amount \in Nat
      BY <2>2, WebRequestAssumption DEF Orders
  <2> QED
      BY <2>1, <2>3 DEF Amounts
<1>4. /\ IsFiniteSet(U) /\ U \subseteq DOMAIN txs
      /\ \A i \in DOMAIN txs : WriteAmounts[i] \in Nat /\ WriteAmounts[i] = txs[i].req.amount
    BY <1>0, UnsoldFinite
<1>5. ASSUME NEW k \in A
      PROVE  /\ signed[k].lot \in U
             /\ WriteAmounts[signed[k].lot] = Amounts[k]
  <2>1. k \in DOMAIN signed \ filled /\ signed[k].req.option = o
      BY <1>0, <1>5 DEF Outstanding
  <2>2. signed[k].lot \in Mined \ Sold
      BY <1>0, <2>1, LotSets
  <2>3. /\ signed[k].lot \in DOMAIN txs
        /\ txs[signed[k].lot] = [kind |-> "write", req |-> signed[k].req, status |-> "mined"]
      BY <1>0, <2>1 DEF OfferHasOwnLot
  <2>4. txs[signed[k].lot].req = signed[k].req /\ signed[k].lot \in DOMAIN txs
      BY <2>3
  <2>5. signed[k].lot \in U
      BY <2>1, <2>2, <2>4 DEF Unsold
  <2>6. Amounts[k] = signed[k].req.amount
      BY <1>3, <1>5
  <2>7. WriteAmounts[signed[k].lot] = txs[signed[k].lot].req.amount
      BY <1>4, <2>4
  <2> HIDE DEF U
  <2> QED
      BY <2>4, <2>5, <2>6, <2>7
<1>6. \A x, y \in A : signed[x].lot = signed[y].lot => x = y
    BY <1>0, <1>1 DEF OfferHasOwnLot
<1>7. balance[o] >= SumFunctionOnSet(WriteAmounts, U)
    BY DEF Stocked
<1> HIDE DEF A, U
<1>8. j \in [A -> U] /\ \A x, y \in A : j[x] = j[y] => x = y
    BY <1>5, <1>6
<1>9. \A x \in A : j[x] \in U /\ Amounts[x] \in Nat /\ Amounts[x] <= WriteAmounts[j[x]]
    BY <1>3, <1>5
<1>10. \A y \in U : WriteAmounts[y] \in Nat
    BY <1>4
<1> HIDE DEF j
<1>11. SumFunctionOnSet(Amounts, A) <= SumFunctionOnSet(WriteAmounts, U)
    BY <1>2, <1>4, <1>8, <1>9, <1>10, SumInjection
<1>12. SumFunctionOnSet(Amounts, A) \in Nat /\ SumFunctionOnSet(WriteAmounts, U) \in Nat
    BY <1>2, <1>3, <1>4, SumType
<1> QED
    BY <1>0, <1>7, <1>11, <1>12 DEF A

\* Whatever is reverted, lost or thrown, and however often the maker is started
\* again: once a response carries an order Seaport may move the maker's options,
\* and the options of all the orders that takers hold unfilled are there
\* (respondToRfqs signs after the write is mined and answers after the grant is).
THEOREM WebOffersHonoured == Spec => []OffersCanBeHonoured
<1>1. Init => DeskInv /\ GrantInv
    BY TypeInit DEF Init, DeskInv, LotInv, OfferHasOwnLot, GrantInv
<1>2. Init => Stocked
  <2> SUFFICES ASSUME Init, NEW o \in Options
               PROVE  balance[o] >= SumFunctionOnSet(WriteAmounts, Unsold(o))
      BY DEF Stocked
  <2>1. Unsold(o) = {}
      BY DEF Init, Unsold, Mined
  <2>2. SumFunctionOnSet(WriteAmounts, {}) = 0
      BY SumEmpty
  <2> QED
      BY <2>1, <2>2 DEF Init
<1>3. DeskInv /\ GrantInv /\ Stocked /\ [Next]_vars => DeskInv' /\ GrantInv' /\ Stocked'
    BY TypeNext, InHandNext, LotNext, GrantNext, StockNext DEF DeskInv, TypeInv
<1> QED
    BY <1>1, <1>2, <1>3, StockHonoursOffers, PTL DEF Spec
=============================================================================
