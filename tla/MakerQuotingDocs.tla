-------------------------- MODULE MakerQuotingDocs --------------------------
(* Statements of the documentation about the maker, which its code does not *)
(* meet.                                                                    *)
EXTENDS MakerQuotingProperties

CONSTANT DocumentedWindow   \* 30 minutes, in time units

ASSUME WindowAssumption == DocumentedWindow \in Nat

\* README.md:101-103: makers are responsible for having the requisite assets
\* when a taker fills their signed offer.
RequisiteAssets == \A i \in published : Live(i) => Holds(i)

\* README.md:800: the chain_id of a response must match the request's.
ChainIdMatches ==
    \A k \in DOMAIN said["rfq"] : said["rfq"][k].chain = Answerable(got["rfq"])[k].chain

\* rfq_request.rs:167: "Offer is only valid for 30 minutes", which start_time
\* (OfferWindow before until) and end_time are to bound.
ValidFor30Minutes ==
    \A i \in published \ filled :
        now < signed[i].until - OfferWindow + DocumentedWindow => Live(i)
=============================================================================
