---------------------------- MODULE DaApiProofs ----------------------------
(***************************************************************************)
(* Proofs about DaApi, for any number of batches, sizes, limits, provider  *)
(* configurations and restarts.                                            *)
(***************************************************************************)
EXTENDS DaApi, TLAPS

Backends == {"primary", "anytrust"}
Request == [phase : {"idle", "verifying"} \cup Backends,
            declined : SUBSET [via : Backends, said : Response]]

\* A request that is with a backend was verified; one that is with AnyTrust
\* was declined by the primary endpoint, and no other was declined by any.
RequestOK(r, b, passed, c) ==
  /\ r.phase \in Backends => b \in passed /\ c.endpoint_url # ""
  /\ r.phase # "anytrust" => r.declined = {}
  /\ r.phase = "anytrust" => /\ c.anytrust_fallback_url # ""
                             /\ {d.via : d \in r.declined} = {"primary"}
  /\ \A d \in r.declined : Asked(d)

\* The inductive invariant.
IInv ==
  /\ request \in [Batches -> Request]
  /\ \A b \in Batches : RequestOK(request[b], b, verified, da_config)
  /\ \A cert \in issued : cert.batch \in verified /\ Justified(cert)

-----------------------------------------------------------------------------
LEMMA IdleOK ==
  /\ Idle \in Request
  /\ \A b, passed, c : RequestOK(Idle, b, passed, c)
  BY DEF Idle, Request, RequestOK, Backends

\* A step that replaces the request for b by one that is right keeps the
\* invariant, if all certificates stay or become right.
LEMMA RequestStep ==
  ASSUME IInv, NEW b \in Batches, NEW r \in Request,
         request' = [request EXCEPT ![b] = r],
         RequestOK(r, b, verified', da_config),
         UNCHANGED <<da_config, size>>, verified \subseteq verified',
         \A cert \in issued' \ issued : cert.batch \in verified' /\ Justified(cert)
  PROVE  IInv'
<1>1. request' \in [Batches -> Request]
  BY DEF IInv
<1>2. ASSUME NEW c \in Batches
      PROVE  RequestOK(request'[c], c, verified', da_config)
  <2>1. CASE c = b
    BY <2>1 DEF IInv
  <2>2. CASE c # b
    BY <2>2 DEF IInv, RequestOK
  <2> QED
    BY <2>1, <2>2
<1>3. ASSUME NEW cert \in issued'
      PROVE  cert.batch \in verified' /\ Justified(cert)'
  BY DEF IInv, Justified, WritersBefore
<1> QED
  BY <1>1, <1>2, <1>3 DEF IInv

\* The end of a request keeps it.
LEMMA EndStep ==
  ASSUME IInv, NEW b \in Batches, EndRequest(b),
         UNCHANGED <<da_config, size, issued>>, verified \subseteq verified'
  PROVE  IInv'
  BY IdleOK, RequestStep DEF EndRequest

\* Signing keeps it, if the batch was verified and the writers before this one
\* were passed over for a reason.
LEMMA SignStep ==
  ASSUME IInv, NEW b \in Batches, NEW via, NEW declined, Sign(via, b, declined),
         UNCHANGED <<da_config, size>>, verified \subseteq verified',
         b \in verified', Justified(Certificate(via, b, declined))
  PROVE  IInv'
<1>1. \A cert \in issued' \ issued : cert.batch \in verified' /\ Justified(cert)
  <2>1. Certificate(via, b, declined).batch = b
    BY DEF Certificate
  <2> QED
    BY <2>1 DEF Sign
<1> QED
  BY <1>1, IdleOK, RequestStep DEF Sign, EndRequest

-----------------------------------------------------------------------------
\* A new request, and the verdict on it.
LEMMA StoreIInv ==
  ASSUME IInv, NEW b \in Batches, Store(b)
  PROVE  IInv'
<1> DEFINE r == [request[b] EXCEPT !.phase = "verifying"]
<1>1. request' = [request EXCEPT ![b] = r]
  BY DEF Store, Goto
<1>2. request[b] \in Request /\ request[b].declined = {}
  BY DEF IInv, RequestOK, Store
<1>3. r \in Request /\ r.phase = "verifying" /\ r.declined = {}
  BY <1>2 DEF Request
<1>4. RequestOK(r, b, verified', da_config)
  BY <1>3 DEF RequestOK, Backends
<1> HIDE DEF r
<1> QED
  BY <1>1, <1>3, <1>4, RequestStep DEF Store

LEMMA VerdictIInv ==
  ASSUME IInv, NEW b \in Batches, Verdict(b)
  PROVE  IInv'
<1>1. CASE EndRequest(b) /\ UNCHANGED <<verified, issued>>
  BY <1>1, EndStep DEF Verdict
<1>2. CASE verified' = verified \cup {b} /\ da_config.endpoint_url = "" /\ Sign("calldata", b, {})
  <2>1. Justified(Certificate("calldata", b, {}))
    BY <1>2 DEF Justified, Certificate, WritersBefore
  <2> QED
    BY <1>2, <2>1, SignStep DEF Verdict
<1>3. CASE /\ verified' = verified \cup {b} /\ da_config.endpoint_url # ""
           /\ Goto(b, "primary") /\ UNCHANGED issued
  <2> DEFINE r == [request[b] EXCEPT !.phase = "primary"]
  <2>1. request' = [request EXCEPT ![b] = r]
    BY <1>3 DEF Goto
  <2>2. request[b] \in Request /\ request[b].declined = {}
    BY DEF IInv, RequestOK, Verdict
  <2>3. r \in Request /\ r.phase = "primary" /\ r.declined = {}
    BY <2>2 DEF Request, Backends
  <2>4. RequestOK(r, b, verified', da_config)
    BY <1>3, <2>3 DEF RequestOK
  <2> HIDE DEF r
  <2> QED
    BY <1>3, <2>1, <2>3, <2>4, RequestStep DEF Verdict
<1> QED
  BY <1>1, <1>2, <1>3 DEF Verdict

\* What a request that is with a backend has behind it.
LEMMA WithBackend ==
  ASSUME IInv, NEW b \in Batches, request[b].phase \in Backends
  PROVE  /\ b \in verified /\ da_config.endpoint_url # ""
         /\ {d.via : d \in request[b].declined} = WritersBefore(request[b].phase)
         /\ \A d \in request[b].declined : Asked(d)
<1>1. RequestOK(request[b], b, verified, da_config)
  BY DEF IInv
<1> QED
  BY <1>1 DEF RequestOK, WritersBefore, Backends

LEMMA StoreViaCertIInv ==
  ASSUME IInv, NEW b \in Batches, NEW resp \in Response, StoreViaCert(b, resp)
  PROVE  IInv'
<1> DEFINE via == request[b].phase
<1>1. via \in Backends
  BY DEF StoreViaCert, Backends
<1>2. Justified(Certificate(via, b, request[b].declined))
  BY <1>1, WithBackend DEF Justified, Certificate, Backends
<1> QED
  BY <1>1, <1>2, WithBackend, SignStep DEF StoreViaCert

\* The backend asks for the next writer: AnyTrust, calldata, or nobody.
LEMMA StoreViaFallbackIInv ==
  ASSUME IInv, NEW b \in Batches, NEW resp \in Response, StoreViaFallback(b, resp)
  PROVE  IInv'
<1> DEFINE via == request[b].phase
           d0 == [via |-> request[b].phase, said |-> resp]
           declined == request[b].declined \cup {d0}
<1>1. via \in Backends
  BY DEF StoreViaFallback, Backends
<1>2. resp.status = "success" /\ resp.body = "fallback"
  <2>1. \/ resp \in [status : {"failure", "success"},
                    body : {"cert", "unreadable", "too_large", "fallback", "both", "other"}]
        \/ resp.status = "none"
    BY DEF Response
  <2>2. StoreOutcome(resp) = "Fallback"
    BY DEF StoreViaFallback
  <2> QED
    BY <2>1, <2>2 DEF StoreOutcome
<1>0. d0.via = via /\ d0.said = resp
  OBVIOUS
<1>3. \A d \in declined : Asked(d)
  <2>1. Asked(d0)
    BY <1>0, <1>2 DEF Asked
  <2> HIDE DEF d0
  <2> QED
    BY <1>1, <2>1, WithBackend
<1>4. {d.via : d \in declined} = WritersBefore(via) \cup {via}
  <2> HIDE DEF d0
  <2>1. {d.via : d \in declined} = {d.via : d \in request[b].declined} \cup {via}
    BY <1>0
  <2> QED
    BY <1>1, <2>1, WithBackend
<1>5. declined \in SUBSET [via : Backends, said : Response]
  BY <1>1 DEF IInv, Request
<1>6. CASE via = "primary" /\ da_config.anytrust_fallback_url # ""
  <2> DEFINE r == [phase |-> "anytrust", declined |-> declined]
  <2>1. r \in Request /\ r.phase = "anytrust" /\ r.declined = declined
    BY <1>5 DEF Request, Backends
  <2>2. {d.via : d \in declined} = {"primary"}
    BY <1>4, <1>6 DEF WritersBefore
  <2>3. request' = [request EXCEPT ![b] = r] /\ UNCHANGED <<da_config, size, verified, issued>>
    BY <1>6 DEF StoreViaFallback
  <2> HIDE DEF r, declined
  <2>4. RequestOK(r, b, verified', da_config)
    BY <1>1, <1>3, <1>6, <2>1, <2>2, <2>3, WithBackend DEF RequestOK
  <2> QED
    BY <2>1, <2>3, <2>4, RequestStep
<1>7. CASE ~ (via = "primary" /\ da_config.anytrust_fallback_url # "")
  <2>1. CASE FitsCalldata(b)
    <3>1. Sign("calldata", b, declined) /\ UNCHANGED <<da_config, size, verified>>
      BY <1>7, <2>1 DEF StoreViaFallback
    <3>2. RequestOK(request[b], b, verified, da_config)
      BY DEF IInv
    <3>3. WritersBefore(via) \cup {via} = WritersBefore("calldata")
      BY <1>1, <1>7, <3>2 DEF WritersBefore, Backends, RequestOK
    <3>4. ESPRESSO_CERT_SIZE + size[b] <= calldata_max_size
      BY <2>1 DEF FitsCalldata
    <3> HIDE DEF declined
    <3>5. Certificate("calldata", b, declined).via = "calldata"
      BY DEF Certificate
    <3>6. Certificate("calldata", b, declined).batch = b
      BY DEF Certificate
    <3>7. Certificate("calldata", b, declined).declined = declined
      BY DEF Certificate
    <3>8. Justified(Certificate("calldata", b, declined))
      BY <1>3, <1>4, <3>3, <3>4, <3>5, <3>6, <3>7 DEF Justified
    <3> QED
      BY <1>1, <3>1, <3>8, WithBackend, SignStep
  <2>2. CASE ~ FitsCalldata(b)
    BY <1>7, <2>2, EndStep DEF StoreViaFallback
  <2> QED
    BY <2>1, <2>2
<1> QED
  BY <1>6, <1>7

LEMMA NextIInv ==
  ASSUME IInv, [Next]_vars
  PROVE  IInv'
<1>1. ASSUME NEW b \in Batches, Store(b) \/ Verdict(b)
      PROVE  IInv'
  BY <1>1, StoreIInv, VerdictIInv
<1>2. ASSUME NEW b \in Batches, NEW resp \in Response, StoreViaOther(b, resp)
      PROVE  IInv'
  BY <1>2, EndStep DEF StoreViaOther
<1>3. ASSUME NEW b \in Batches, NEW resp \in Response,
             StoreViaCert(b, resp) \/ StoreViaFallback(b, resp)
      PROVE  IInv'
  BY <1>3, StoreViaCertIInv, StoreViaFallbackIInv
<1>4. CASE UNCHANGED <<da_config, size, request, verified, issued>>
  BY <1>4 DEF IInv, Justified, WritersBefore
<1>5. CASE \E cert \in issued, wrapped \in BOOLEAN : Recover(cert, wrapped)
  BY <1>4, <1>5 DEF Recover
<1>6. CASE Restart
  <2>1. request' \in [Batches -> Request] /\ \A b \in Batches : request'[b] = Idle
    BY <1>6, IdleOK DEF Restart
  <2>2. \A b \in Batches : RequestOK(request'[b], b, verified', da_config')
    BY <2>1, IdleOK
  <2>3. \A cert \in issued' : cert.batch \in verified' /\ Justified(cert)'
    BY <1>6 DEF IInv, Restart, Justified, WritersBefore
  <2> QED
    BY <2>1, <2>2, <2>3 DEF IInv
<1> QED
  BY <1>1, <1>2, <1>3, <1>4, <1>5, <1>6 DEF Next, vars

\* The inductive invariant holds for every configuration.
THEOREM Invariance == Spec => []IInv
<1>1. Init => IInv
  BY IdleOK DEF Init, IInv
<1>2. IInv /\ [Next]_vars => IInv'
  BY NextIInv
<1> QED
  BY <1>1, <1>2, PTL DEF Spec

\* handle_store signs a certificate only for a batch whose verdict was success,
\* whatever the other requests, the backends and restarts do in between.
THEOREM SignsOnlyVerified == Spec => []SignedOnlyVerified
<1>1. IInv => SignedOnlyVerified
  BY DEF IInv, SignedOnlyVerified
<1> QED
  BY <1>1, Invariance, PTL

\* resolve_downstream_cert moves a batch to the next writer only when all before
\* it asked for that alone, and into calldata only if it fits with its
\* certificate, for every limit and every configuration.
THEOREM FallsBackOnlyWhenAsked == Spec => []FallbackJustified
<1>1. IInv => FallbackJustified
  BY DEF IInv, FallbackJustified
<1> QED
  BY <1>1, Invariance, PTL
=============================================================================
