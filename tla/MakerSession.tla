---------------------------- MODULE MakerSession ----------------------------
(***************************************************************************)
(* The connection life cycle of the maker (examples/maker/maker.rs): the   *)
(* loop of main, which connects to a node, calls run, and on every return  *)
(* of run sleeps and starts again; and the part of run and setup that      *)
(* obtains a session from Valorem and opens the two quote streams with it. *)
(* Serving requests on the open streams is the module MakerQuoting.        *)
(*                                                                         *)
(* The Auth service of Valorem is external: it is reduced to the set of    *)
(* sessions it takes for authenticated.  A name in Sessions that the maker *)
(* no longer holds stands for any session it has not seen yet.             *)
(***************************************************************************)
EXTENDS Naturals

CONSTANTS
    Sessions,       \* the session cookies a Nonce response can carry
    NoSession,      \* what the maker holds before a Nonce response
    ApproveTokens   \* settings.approve_tokens

ASSUME SessionAssumption ==
    /\ NoSession \notin Sessions
    /\ ApproveTokens \in BOOLEAN

VARIABLES
    pc,             \* the await the maker is at
    cookie,         \* session_cookie, a local of setup and of run
    streams,        \* the session each open stream was opened with
    authenticated,  \* external: the sessions the service has authenticated
    tlsValid        \* whether tonic accepts settings.tls_config

sessionVars == <<pc, cookie, streams, authenticated, tlsValid>>

Streams == {"rfq", "soft"}

\* The calls to connect_to_valorem and where each of them leads.
AfterDial == [dial_auth |-> "nonce", dial_verify |-> "chain_id", dial_streams |-> "signer"]

Dials == DOMAIN AfterDial

\* The points of run, and of setup below it, whose failure makes run return
\* None.  approve_tokens is not one of them: it unwraps what it gets.
Fallible == Dials \cup {"nonce", "chain_id", "verify", "authenticate",
                        "signer", "open_soft", "open_rfq", "serve"}

ProgramPoints == Fallible \cup {"node", "approve", "sleep", "dead"}

SessionTypeOK ==
    /\ pc \in ProgramPoints
    /\ cookie \in Sessions \cup {NoSession}
    /\ streams \in [Streams -> Sessions \cup {NoSession}]
    /\ authenticated \subseteq Sessions
    /\ tlsValid \in BOOLEAN

NoStreams == [s \in Streams |-> NoSession]

SessionInit ==
    /\ pc = "node"
    /\ cookie = NoSession
    /\ streams = NoStreams
    /\ authenticated = {}
    /\ tlsValid \in BOOLEAN

-----------------------------------------------------------------------------
(* Obtaining an authenticated session: main, then setup.                   *)

ConnectNode ==
    /\ pc = "node"
    /\ pc' = "dial_auth"
    /\ UNCHANGED <<cookie, streams, authenticated, tlsValid>>

Dial ==
    /\ pc \in Dials
    /\ tlsValid
    /\ pc' = AfterDial[pc]
    /\ UNCHANGED <<cookie, streams, authenticated, tlsValid>>

\* Mutant: a Nonce response without a set-cookie header is accepted.
NonceWithoutCookie ==
    /\ pc = "nonce"
    /\ cookie' \in Sessions \cup {NoSession}
    /\ pc' = "dial_verify"
    /\ UNCHANGED <<streams, authenticated, tlsValid>>

\* The first client carries no cookie: the service answers with a session
\* that nobody has verified.
Nonce ==
    /\ pc = "nonce"
    /\ \E s \in Sessions :
          /\ cookie' = s
          /\ authenticated' = authenticated \ {s}
    /\ pc' = "dial_verify"
    /\ UNCHANGED <<streams, tlsValid>>

FetchChainId ==
    /\ pc = "chain_id"
    /\ pc' = "verify"
    /\ UNCHANGED <<cookie, streams, authenticated, tlsValid>>

Verify ==
    /\ pc = "verify"
    /\ authenticated' = authenticated \cup {cookie}
    /\ pc' = "authenticate"
    /\ UNCHANGED <<cookie, streams, tlsValid>>

Authenticate ==
    /\ pc = "authenticate"
    /\ cookie \in authenticated
    /\ pc' = "dial_streams"
    /\ UNCHANGED <<cookie, streams, authenticated, tlsValid>>

-----------------------------------------------------------------------------
(* Opening the streams: run.                                               *)

CreateSigner ==
    /\ pc = "signer"
    /\ pc' = IF ApproveTokens THEN "approve" ELSE "open_soft"
    /\ UNCHANGED <<cookie, streams, authenticated, tlsValid>>

Approve ==
    /\ pc = "approve"
    /\ pc' = "open_soft"
    /\ UNCHANGED <<cookie, streams, authenticated, tlsValid>>

OpenSoft ==
    /\ pc = "open_soft"
    /\ cookie \in authenticated
    /\ streams' = [streams EXCEPT !["soft"] = cookie]
    /\ pc' = "open_rfq"
    /\ UNCHANGED <<cookie, authenticated, tlsValid>>

OpenRfq ==
    /\ pc = "open_rfq"
    /\ cookie \in authenticated
    /\ streams' = [streams EXCEPT !["rfq"] = cookie]
    /\ pc' = "serve"
    /\ UNCHANGED <<cookie, authenticated, tlsValid>>

-----------------------------------------------------------------------------
(* Failures.                                                               *)

\* Mutant: the streams outlive the run that opened them.
ReturnNoneKeepsStreams ==
    /\ pc' = "sleep"
    /\ cookie' = NoSession
    /\ UNCHANGED streams

\* run returns None: its locals, the cookie and both streams, are dropped.
ReturnNone ==
    /\ pc' = "sleep"
    /\ cookie' = NoSession
    /\ streams' = NoStreams

\* Mutant: a stream that ends is opened again with the session at hand, without
\* a new login.
RunFailsReopens ==
    /\ pc \in Fallible
    /\ pc \in Dials => tlsValid
    /\ IF pc \in {"open_soft", "open_rfq", "serve"}
       THEN pc' = "open_soft" /\ streams' = NoStreams /\ UNCHANGED cookie
       ELSE ReturnNone
    /\ UNCHANGED <<authenticated, tlsValid>>

\* Any call may fail: the connection is lost, a timeout of 10 s expires, the
\* service or the node refuses.  While serving, a stream ends.
RunFails ==
    /\ pc \in Fallible
    /\ pc \in Dials => tlsValid
    /\ ReturnNone
    /\ UNCHANGED <<authenticated, tlsValid>>

\* The service has taken the verification, its answer is lost.
VerifyAnswerLost ==
    /\ pc = "verify"
    /\ authenticated' = authenticated \cup {cookie}
    /\ ReturnNone
    /\ UNCHANGED tlsValid

\* The process dies: the node cannot be reached, the TLS configuration is not
\* accepted, an approval transaction is not taken, or a handler panics.
Panic ==
    /\ \/ pc \in {"node", "approve", "serve"}
       \/ pc \in Dials /\ ~tlsValid
    /\ pc' = "dead"
    /\ cookie' = NoSession
    /\ streams' = NoStreams
    /\ UNCHANGED <<authenticated, tlsValid>>

Retry ==
    /\ pc = "sleep"
    /\ pc' = "node"
    /\ UNCHANGED <<cookie, streams, authenticated, tlsValid>>

Halted ==
    /\ pc = "dead"
    /\ UNCHANGED sessionVars

\* External: the service forgets a session, the maker's own or another.
Expire(s) ==
    /\ s \in authenticated
    /\ authenticated' = authenticated \ {s}
    /\ UNCHANGED <<pc, cookie, streams, tlsValid>>

-----------------------------------------------------------------------------
Login == Nonce \/ FetchChainId \/ Verify \/ Authenticate

Open == CreateSigner \/ Approve \/ OpenSoft \/ OpenRfq

\* The maker's own steps, ends of calls of one kind or the other.
SessionStep ==
    \/ ConnectNode
    \/ Dial
    \/ Login
    \/ Open
    \/ RunFails
    \/ VerifyAnswerLost
    \/ Panic
    \/ Retry

SessionNext ==
    \/ SessionStep
    \/ Halted
    \/ \E s \in Sessions : Expire(s)

SessionSpec == SessionInit /\ [][SessionNext]_sessionVars

\* Every call ends, by a timeout if by nothing else, and sleep(10 s) ends.  The
\* network, the node and the service are not down forever: a call made again
\* and again succeeds sometimes.  From some time on a session outlives the login
\* it is for; once the maker serves it may be forgotten at any time.
OutlivesLogin ==
    (pc # "serve" /\ cookie \in authenticated)
        => (cookie \in authenticated' \/ cookie' # cookie)

SessionFairness ==
    /\ <>[][OutlivesLogin]_sessionVars
    /\ WF_sessionVars(pc \notin {"approve", "serve"} /\ SessionStep)
    /\ \A d \in Dials : SF_sessionVars(pc = d /\ Dial)
    /\ SF_sessionVars(Nonce)
    /\ SF_sessionVars(FetchChainId)
    /\ SF_sessionVars(Verify)
    /\ SF_sessionVars(Authenticate)
    /\ SF_sessionVars(CreateSigner)
    /\ SF_sessionVars(OpenSoft)
    /\ SF_sessionVars(OpenRfq)

-----------------------------------------------------------------------------
(* Properties.                                                             *)

\* Every stream that is open was opened with the session this run of the
\* maker has logged in with, never with one of an earlier run, and serving
\* starts with both streams open (run opens the Soft Quote stream first, then
\* the RFQ stream, and drops both with its locals on every failure).
StreamsOfThisRun ==
    /\ \A s \in Streams : streams[s] \in {NoSession, cookie}
    /\ pc = "serve" => /\ cookie # NoSession
                       /\ \A s \in Streams : streams[s] = cookie

\* A maker that has lost its streams, or whose session the service has
\* forgotten, is serving again later, unless the process has died: the loop of
\* main logs in anew after every failure and never keeps using a session the
\* service no longer knows.
KeepsComingBack == []<>(pc \in {"serve", "dead"})
=============================================================================
