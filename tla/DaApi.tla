------------------------------- MODULE DaApi -------------------------------
(***************************************************************************)
(* A provider route of the DA API (src/da_api/nitro/server.rs,             *)
(* store_fallback.rs): daprovider_store verifies a batch, stores it with   *)
(* the first backend that takes it and signs a certificate; the recover    *)
(* calls strip the certificate and find the backend again from the header  *)
(* byte of what is left.                                                   *)
(*                                                                         *)
(* The backends, the streamer's verdict and the batch poster are external. *)
(* A batch is a model value with a length; a downstream certificate is the *)
(* backend that issued it and the batch it stands for, a calldata one is   *)
(* the batch itself.  The signature is the number of the start whose       *)
(* random key made it.                                                     *)
(***************************************************************************)
EXTENDS Integers, FiniteSets

CONSTANTS
  Batches, Sizes,       \* batches the poster stores, and their lengths
  Configs,              \* provider configurations, see ProviderConfig
  calldata_max_size, ESPRESSO_CERT_SIZE,
  MaxStarts             \* bound: starts of the process

ProviderConfig ==
  [name : {"calldata", "other"}, endpoint_url : {"", "primary"},
   is_anytrust : BOOLEAN, anytrust_fallback_url : {"", "anytrust"}]

\* build_app refuses a fallback without a primary endpoint.
ASSUME DaApiAssumption ==
  /\ Sizes \subseteq Nat \ {0} /\ MaxStarts \in Nat \ {0}
  /\ calldata_max_size \in Nat /\ ESPRESSO_CERT_SIZE \in Nat
  /\ Configs \subseteq {c \in ProviderConfig :
       /\ c.endpoint_url = "" => c.anytrust_fallback_url = ""
       /\ c.name = "calldata" => c.endpoint_url = "" /\ ~c.is_anytrust}

VARIABLES
  da_config,
  size,        \* length of each batch
  signer,      \* start of the process, its key
  request,     \* the store request for each batch: phase and backends passed over
  verified,    \* batches the streamer's verdict was success for
  holds,       \* pairs <<backend, batch>>: the data a backend keeps
  issued,      \* certificates returned to the poster
  answer       \* the last recover call: message, where it went, what came back

vars == <<da_config, size, signer, request, verified, holds, issued, answer>>

\* `declined' is a history: the backends passed over and what they answered.
Certificate(via, b, declined) ==
  [via |-> via, batch |-> b, signer |-> signer, declined |-> declined]
Idle == [phase |-> "idle", declined |-> {}]
NoAnswer == [from |-> "none", found |-> FALSE, wrapped |-> FALSE, signer |-> 0]

Init ==
  /\ da_config \in Configs
  /\ size \in [Batches -> Sizes]
  /\ signer = 1
  /\ request = [b \in Batches |-> Idle]
  /\ verified = {} /\ holds = {} /\ issued = {}
  /\ answer = NoAnswer

-----------------------------------------------------------------------------
Goto(b, phase) == request' = [request EXCEPT ![b].phase = phase]

\* The request ends with an error, or with a response that is passed on.
EndRequest(b) == request' = [request EXCEPT ![b] = Idle]

\* handle_store up to the request for a verdict; max_message_size is set for
\* the calldata provider only.
Store(b) ==
  /\ request[b].phase = "idle"
  /\ da_config.name = "calldata" => size[b] <= calldata_max_size
  /\ Goto(b, "verifying")
  /\ UNCHANGED <<da_config, size, signer, verified, holds, issued, answer>>

\* build_espresso_certificate refuses a downstream certificate under two bytes.
Sign(via, b, declined) ==
  /\ IF via = "calldata" /\ size[b] < 2 THEN UNCHANGED issued
     ELSE issued' = issued \cup {Certificate(via, b, declined)}
  /\ EndRequest(b)

\* Mutant: the verdict is not looked at.
VerdictIgnored(b) ==
  /\ request[b].phase = "verifying"
  /\ \E success \in BOOLEAN :
       verified' = IF success THEN verified \cup {b} ELSE verified
  /\ IF da_config.endpoint_url = "" THEN Sign("calldata", b, {})
     ELSE Goto(b, "primary") /\ UNCHANGED issued
  /\ UNCHANGED <<da_config, size, signer, holds, answer>>

\* The streamer's verdict arrives; resolve_downstream_cert takes the batch
\* itself when there is no endpoint.
Verdict(b) ==
  /\ request[b].phase = "verifying"
  /\ \/ /\ EndRequest(b)
        /\ UNCHANGED <<verified, issued>>
     \/ /\ verified' = verified \cup {b}
        /\ IF da_config.endpoint_url = "" THEN Sign("calldata", b, {})
           ELSE Goto(b, "primary") /\ UNCHANGED issued
  /\ UNCHANGED <<da_config, size, signer, holds, answer>>

\* What a backend answers: HTTP status ("none": no answer), and a certificate
\* or an error, by the strings that its message contains.
Response ==
  [status : {"failure", "success"}, body : {"cert", "unreadable", "too_large", "fallback", "both", "other"}]
    \cup {[status |-> "none", body |-> "unreadable"]}

\* Mutant: the string for the fallback is looked for first.
StoreOutcomeFallbackFirst(resp) ==
  CASE resp.status = "none" -> "Err"
    [] resp.status = "failure" -> "Forward"
    [] resp.status = "success" ->
         IF resp.body = "cert" THEN "Cert" ELSE IF resp.body = "unreadable" THEN "Err"
         ELSE IF resp.body \in {"fallback", "both"} THEN "Fallback" ELSE "Forward"

\* store_via: only a body that can be read is looked at, and "message too large"
\* comes before the request for a fallback.
StoreOutcome(resp) ==
  CASE resp.status = "none" -> "Err"
    [] resp.status = "failure" -> "Forward"
    [] resp.status = "success" ->
         IF resp.body = "cert" THEN "Cert" ELSE IF resp.body = "unreadable" THEN "Err"
         ELSE IF resp.body = "fallback" THEN "Fallback" ELSE "Forward"

\* A certificate: the backend has the batch.
StoreViaCert(b, resp) ==
  LET via == request[b].phase
  IN /\ via \in {"primary", "anytrust"} /\ StoreOutcome(resp) = "Cert"
     /\ holds' = holds \cup {<<via, b>>}
     /\ Sign(via, b, request[b].declined)
     /\ UNCHANGED <<da_config, size, signer, verified, answer>>

\* The response is passed on, or is an error: the backend may have the batch.
StoreViaOther(b, resp) ==
  LET via == request[b].phase
  IN /\ via \in {"primary", "anytrust"} /\ StoreOutcome(resp) \in {"Forward", "Err"}
     /\ holds' \in {holds, holds \cup {<<via, b>>}}
     /\ EndRequest(b)
     /\ UNCHANGED <<da_config, size, signer, verified, issued, answer>>

FitsCalldata(b) == ESPRESSO_CERT_SIZE + size[b] <= calldata_max_size

\* The backend asks for the next writer: AnyTrust after the primary, if it is
\* configured, then calldata if the batch and its certificate fit.
StoreViaFallback(b, resp) ==
  LET via == request[b].phase
      declined == request[b].declined \cup {[via |-> via, said |-> resp]}
  IN /\ via \in {"primary", "anytrust"} /\ StoreOutcome(resp) = "Fallback"
     /\ IF via = "primary" /\ da_config.anytrust_fallback_url # ""
        THEN /\ request' = [request EXCEPT ![b] = [phase |-> "anytrust", declined |-> declined]]
             /\ UNCHANGED issued
        ELSE IF FitsCalldata(b) THEN Sign("calldata", b, declined)
        ELSE EndRequest(b) /\ UNCHANGED issued
     /\ UNCHANGED <<da_config, size, signer, verified, holds, answer>>

-----------------------------------------------------------------------------
\* The header byte of a downstream certificate.  Verified batches start with
\* the calldata byte; a provider that is not AnyTrust uses a byte of its own.
InnerHeader(cert) ==
  CASE cert.via = "calldata" -> "calldata"
    [] cert.via = "anytrust" \/ da_config.is_anytrust -> "anytrust"
    [] OTHER -> "other"

\* Mutant: the header byte is not looked at.
EndpointByConfig(cert) ==
  IF da_config.anytrust_fallback_url # "" THEN "anytrust" ELSE "primary"

\* The endpoint a recover call is forwarded to.
Endpoint(cert) ==
  IF da_config.anytrust_fallback_url # "" /\ InnerHeader(cert) = "anytrust"
  THEN "anytrust" ELSE "primary"

\* try_extract_da_sequencer_msg_from_espresso_da_cert accepts the certificate.
Valid(cert) == cert.signer = signer

\* handle_recover_inner, for a batch with its certificate (the poster's check)
\* or without it (a reader of L1).
Recover(cert, wrapped) ==
  /\ answer' =
       IF wrapped /\ ~Valid(cert)
       THEN [from |-> "refused", found |-> FALSE, wrapped |-> wrapped, signer |-> cert.signer]
       ELSE IF da_config.name = "calldata" \/ InnerHeader(cert) = "calldata"
       THEN [from |-> "payload", found |-> cert.via = "calldata", wrapped |-> wrapped,
             signer |-> cert.signer]
       ELSE [from |-> Endpoint(cert), found |-> <<Endpoint(cert), cert.batch>> \in holds,
             wrapped |-> wrapped, signer |-> cert.signer]
  /\ UNCHANGED <<da_config, size, signer, request, verified, holds, issued>>

\* The process ends and is started again: requests are lost, the key is new.
Restart ==
  /\ signer < MaxStarts
  /\ signer' = signer + 1
  /\ request' = [b \in Batches |-> Idle]
  /\ answer' = NoAnswer
  /\ UNCHANGED <<da_config, size, verified, holds, issued>>

Next ==
  \/ \E b \in Batches :
       \/ Store(b) \/ Verdict(b)
       \/ \E resp \in Response :
            StoreViaCert(b, resp) \/ StoreViaOther(b, resp) \/ StoreViaFallback(b, resp)
  \/ \E cert \in issued, wrapped \in BOOLEAN : Recover(cert, wrapped)
  \/ Restart

Spec == Init /\ [][Next]_vars

-----------------------------------------------------------------------------
(* Properties.                                                             *)

\* A certificate is signed only for a batch that passed verification, however
\* the requests for other batches and the restarts interleave.
SignedOnlyVerified == \A cert \in issued : cert.batch \in verified

\* Store and recover agree: whatever chain of fallbacks stored a batch, the
\* recover calls find it where it is, for the poster that holds the
\* certificate and for a reader that sees only the downstream part.  A
\* certificate of an earlier start is refused, never passed on as if it were a
\* batch without one.
RecoverFindsTheBatch ==
  answer.from # "none" =>
    IF answer.wrapped /\ answer.signer # signer
    THEN answer.from = "refused"
    ELSE answer.found

\* The writers before `via'.
WritersBefore(via) ==
  IF via = "primary" \/ da_config.endpoint_url = "" THEN {}
  ELSE IF via = "anytrust" \/ da_config.anytrust_fallback_url = "" THEN {"primary"}
  ELSE {"primary", "anytrust"}

\* An answer that asks for the next writer and says nothing else.
Asked(d) == d.said.status = "success" /\ d.said.body = "fallback"

Justified(cert) ==
  /\ {d.via : d \in cert.declined} = WritersBefore(cert.via)
  /\ \A d \in cert.declined : Asked(d)
  /\ cert.via = "calldata" /\ da_config.endpoint_url # "" =>
       ESPRESSO_CERT_SIZE + size[cert.batch] <= calldata_max_size

\* A batch goes to AnyTrust as a fallback, or into calldata, only after every
\* writer before it asked for the next one in an answer that says nothing else,
\* and into calldata only if it stays within the L1 limit together with its
\* certificate: an error, a lost answer or a request for a smaller batch never
\* moves a batch, and what was moved can be posted.
FallbackJustified == \A cert \in issued : Justified(cert)
=============================================================================
