----------------------- MODULE MakerQuotingProperties -----------------------
(* Properties of the maker that need sums and filtered sequences.          *)
EXTENDS MakerQuoting, SequencesExt

Amounts == [i \in DOMAIN signed |-> signed[i].req.amount]

\* The offers of an option type that are still to be filled.
Outstanding(o) == {i \in BuyOrders \ filled : signed[i].req.option = o}

\* The maker holds enough of every option type to honour, together, all the
\* orders it has signed over it and that are not filled yet: no fill of one takes
\* what another offers, in any order of fills, writes and reconnections.
OffersAreCovered ==
    \A o \in Options : balance[o] >= SumFunctionOnSet(Amounts, Outstanding(o))

\* The requests of a stream that the maker answers.
Supported == {r \in Requests : r.chain \in SupportedChains}

Answerable(rs) ==
    FoldLeft(LAMBDA kept, r : IF r \in Supported THEN Append(kept, r) ELSE kept, <<>>, rs)

Ulids(ms) == [k \in DOMAIN ms |-> ms[k].ulid]

\* On each stream of a run, every request for a supported chain gets one answer
\* with its ulid, on the stream it came by and in the order of arrival; what has
\* no answer yet is being handled or waits to be read.  Nothing is answered
\* twice, left out or overtaken, however the two streams interleave.
AnswersInOrder ==
    \A s \in Streams :
        Ulids(Answerable(got[s])) =
            Ulids(said[s])
            \o (IF at # "select" /\ branch = s THEN <<cur.ulid>> ELSE <<>>)
            \o Ulids(Answerable(inq[s]))

\* An offer carries the order signed for the very request it answers, and no
\* order is handed out under two answers; the Soft Quote stream hands out none.
OffersAnswerTheirRequest ==
    LET IsOffer(s, k) == said[s][k].kind = "offer"
    IN  /\ \A k \in DOMAIN said["rfq"] : IsOffer("rfq", k) =>
              /\ said["rfq"][k].order \in DOMAIN signed
              /\ signed[said["rfq"][k].order].req = Answerable(got["rfq"])[k]
              /\ \A l \in DOMAIN said["rfq"] :
                    IsOffer("rfq", l) /\ said["rfq"][l].order = said["rfq"][k].order => l = k
        /\ \A k \in DOMAIN said["soft"] : ~IsOffer("soft", k)

\* A request that was delivered leaves the maker's hands: it is answered, ignored
\* for its chain, or dropped with the run.  Neither stream starves the other.
InHand(s, r) ==
    \/ \E k \in DOMAIN inq[s] : inq[s][k] = r
    \/ at # "select" /\ branch = s /\ cur = r

EveryRequestLeaves ==
    \A s \in Streams, r \in Requests : InHand(s, r) ~> ~InHand(s, r)
=============================================================================
