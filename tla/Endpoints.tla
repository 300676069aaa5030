----------------------------- MODULE Endpoints -----------------------------
(***************************************************************************)
(* distribution/pull.go and push.go: which registry endpoints a pull or a  *)
(* push tries, in which order, when it goes on to the next and which error *)
(* it returns in the end.  The endpoints come from registry/service*.go,   *)
(* the verdict on an attempt from pull_v1.go, pull_v2.go, registry.go and  *)
(* errors.go.  The registries are external: every answer is possible.      *)
(***************************************************************************)
EXTENDS Naturals, Sequences, SequencesExt

CONSTANTS
  Mirrors    \* the sequences of mirrors a daemon may be configured with

Official == "docker.io"
V1Host == "index.docker.io"   \* the host of DefaultV1Registry
Private == "private"

VARIABLES
  op, ref,      \* "pull" or "push"; a tag, a digest, or all tags
  endpoints,    \* what LookupPullEndpoints or LookupPushEndpoints returned
  i, pc,        \* the endpoint in turn; "next", "ping", "list", "tag", "layers", "done", "error"
  confirmed,    \* the puller's confirmedV2
  confirmedV2, confirmedTLS, discardNoSupportErrors, lastErr,
  result,       \* the error returned
  tried,        \* endpoints that were tried
  knows,        \* an endpoint has shown that it has the repository by the v2 protocol
  relevant      \* an endpoint has failed otherwise than by not supporting the request

vars == <<op, ref, endpoints, i, pc, confirmed, confirmedV2, confirmedTLS,
          discardNoSupportErrors, lastErr, result, tried, knows, relevant>>

Errors == {"none", "nosupport", "other", "noendpoints", "cancelled"}

Endpoint(h, s, v, m) == [host |-> h, scheme |-> s, version |-> v, mirror |-> m]

TypeOK ==
  /\ op \in {"pull", "push"} /\ ref \in {"tag", "digest", "all"}
  /\ i \in 1..Len(endpoints) + 1
  /\ pc \in {"next", "ping", "list", "tag", "layers", "done", "error"}
  /\ {confirmed, confirmedV2, discardNoSupportErrors, knows, relevant} \subseteq BOOLEAN
  /\ lastErr \in Errors /\ result \in Errors
  /\ Range(tried) \subseteq Range(endpoints)

----------------------------------------------------------------------------
lookupV2Endpoints(hostname, mirrors, insecure) ==
  IF hostname \in {Official, V1Host}
  THEN [n \in 1..Len(mirrors) |-> Endpoint(mirrors[n], "https", 2, TRUE)]
       \o <<Endpoint("registry-1", "https", 2, FALSE)>>
  ELSE <<Endpoint(hostname, "https", 2, FALSE)>>
       \o (IF insecure THEN <<Endpoint(hostname, "http", 2, FALSE)>> ELSE <<>>)

lookupV1Endpoints(hostname, insecure) ==
  IF hostname = Official
  THEN <<Endpoint(V1Host, "https", 1, FALSE)>>
  ELSE <<Endpoint(hostname, "https", 1, FALSE)>>
       \o (IF insecure THEN <<Endpoint(hostname, "http", 1, FALSE)>> ELSE <<>>)

lookupEndpoints(hostname, mirrors, insecure, v2only) ==
  lookupV2Endpoints(hostname, mirrors, insecure)
  \o (IF v2only THEN <<>> ELSE lookupV1Endpoints(hostname, insecure))

LookupPushEndpoints(all) == SelectSeq(all, LAMBDA e : ~e.mirror)

Init ==
  /\ op \in {"pull", "push"} /\ ref \in {"tag", "digest", "all"}
  /\ op = "push" => ref /= "digest"
  /\ \E h \in {Official, V1Host, Private}, m \in Mirrors, ins \in BOOLEAN, v2 \in BOOLEAN :
       LET all == lookupEndpoints(h, m, ins, v2)
       IN  endpoints = IF op = "pull" THEN all ELSE LookupPushEndpoints(all)
  /\ i = 1 /\ pc = "next" /\ confirmed = FALSE
  /\ confirmedV2 = FALSE /\ confirmedTLS = {} /\ discardNoSupportErrors = FALSE
  /\ lastErr = "none" /\ result = "none"
  /\ tried = <<>> /\ knows = FALSE /\ relevant = FALSE

config == <<op, ref, endpoints>>
e == endpoints[i]

----------------------------------------------------------------------------
\* The loop of Pull and Push: an endpoint is skipped, or tried.
NextEndpoint ==
  /\ pc = "next" /\ i <= Len(endpoints)
  /\ IF \/ confirmedV2 /\ e.version = 1
        \/ e.scheme /= "https" /\ e.host \in confirmedTLS
     THEN i' = i + 1 /\ UNCHANGED <<pc, confirmed, tried>>
     ELSE /\ pc' = "ping" /\ confirmed' = FALSE
          /\ tried' = Append(tried, e)
          /\ UNCHANGED i
  /\ UNCHANGED <<config, confirmedV2, confirmedTLS, discardNoSupportErrors, lastErr, result,
                 knows, relevant>>

NoEndpointLeft ==
  /\ pc = "next" /\ i > Len(endpoints)
  /\ result' = IF lastErr = "none" THEN "noendpoints" ELSE lastErr
  /\ pc' = "error"
  /\ UNCHANGED <<config, i, confirmed, confirmedV2, confirmedTLS,
                 discardNoSupportErrors, lastErr, tried, knows, relevant>>

\* A mutant of Fallback: every error replaces the one before.
FallbackLast(err, v2, transportOK) ==
  /\ confirmedV2' = (confirmedV2 \/ v2)
  /\ confirmedTLS' = IF transportOK /\ e.scheme = "https" THEN confirmedTLS \cup {e.host} ELSE confirmedTLS
  /\ lastErr' = err
  /\ relevant' = (relevant \/ err /= "nosupport")
  /\ i' = i + 1 /\ pc' = "next"
  /\ UNCHANGED <<config, confirmed, discardNoSupportErrors, result, tried, knows>>

\* The attempt failed with a fallbackError: what it confirmed is noted, and the
\* next endpoint is tried.  Push notes every error.
Fallback(err, v2, transportOK) ==
  /\ confirmedV2' = (confirmedV2 \/ v2)
  /\ confirmedTLS' = IF transportOK /\ e.scheme = "https" THEN confirmedTLS \cup {e.host} ELSE confirmedTLS
  /\ IF op = "push" \/ err /= "nosupport" \/ ~discardNoSupportErrors
     THEN lastErr' = err ELSE UNCHANGED lastErr
  /\ discardNoSupportErrors' = (discardNoSupportErrors \/ err /= "nosupport")
  /\ relevant' = (relevant \/ err /= "nosupport")
  /\ i' = i + 1 /\ pc' = "next"
  /\ UNCHANGED <<config, confirmed, result, tried, knows>>

\* It failed with another error, or was cancelled: Pull and Push return it.
Fail(err) ==
  /\ result' = err /\ pc' = "error"
  /\ UNCHANGED <<config, i, confirmed, confirmedV2, confirmedTLS,
                 discardNoSupportErrors, lastErr, tried, knows, relevant>>

Succeed ==
  /\ pc' = "done"
  /\ knows' = (knows \/ e.version = 2)
  /\ UNCHANGED <<config, i, confirmed, confirmedV2, confirmedTLS,
                 discardNoSupportErrors, lastErr, result, tried, relevant>>

Cancel == pc \in {"ping", "list", "tag", "layers"} /\ Fail("cancelled")

\* v1Puller.Pull and v1Pusher.Push
V1 ==
  /\ pc = "ping" /\ e.version = 1
  /\ IF ref = "digest"
     THEN Fallback("nosupport", FALSE, FALSE)
     ELSE Fallback("other", FALSE, FALSE) \/ Fail("other") \/ Succeed

\* NewV2Repository: the ping may fail before or after the registry answered.
NewV2Repository ==
  /\ pc = "ping" /\ e.version = 2
  /\ \/ \E found \in BOOLEAN, ok \in BOOLEAN : (found => ok) /\ Fallback("other", found, ok)
     \/ \E found \in BOOLEAN :
          /\ confirmed' = found
          /\ pc' = IF ref = "all" /\ op = "pull" THEN "list" ELSE "tag"
          /\ UNCHANGED <<config, i, confirmedV2, confirmedTLS,
                         discardNoSupportErrors, lastErr, result, tried, knows, relevant>>

\* An error of the registry's.  allowV1Fallback takes it as a reason to try v1,
\* continueOnError as one to go on, or it is final.
allowV1Fallback == Fallback("other", FALSE, TRUE) \/ Fallback("other", FALSE, FALSE)
continueOnError == Fallback("other", confirmed, TRUE) \/ Fail("other")

\* A mutant of Known: the puller's confirmedV2 is not set.
KnownOnly(next) ==
  /\ knows' = TRUE /\ pc' = next
  /\ UNCHANGED <<config, i, confirmed, confirmedV2, confirmedTLS, discardNoSupportErrors, lastErr,
                 result, tried, relevant>>

\* The registry has shown that it has the repository.
Known(next) ==
  /\ confirmed' = TRUE /\ knows' = TRUE /\ pc' = next
  /\ UNCHANGED <<config, i, confirmedV2, confirmedTLS, discardNoSupportErrors, lastErr,
                 result, tried, relevant>>

\* pullV2Repository lists the tags.
ListTags ==
  /\ pc = "list"
  /\ allowV1Fallback \/ continueOnError \/ Known("tag")

\* pullV2Tag fetches the manifest.  Only for a single tag may its absence be a
\* reason to try v1.
FetchManifest ==
  /\ pc = "tag" /\ op = "pull"
  /\ (ref = "tag" /\ allowV1Fallback) \/ continueOnError \/ Known("layers")

\* The rest of pullV2Tag; there may be more tags.
PullLayers ==
  /\ pc = "layers"
  /\ continueOnError \/ (ref = "all" /\ Known("tag")) \/ Succeed

\* v2Pusher.Push: an upload that got an answer confirms the protocol.
PushTag ==
  /\ pc = "tag" /\ op = "push"
  /\ continueOnError \/ (~confirmed /\ Known("tag")) \/ Succeed

Next == NextEndpoint \/ NoEndpointLeft \/ V1 \/ NewV2Repository \/ ListTags
        \/ FetchManifest \/ PullLayers \/ PushTag \/ Cancel

Spec == Init /\ [][Next]_vars

----------------------------------------------------------------------------
V2StaysStep ==
    knows /\ tried' /= tried => Last(tried').version = 2

\* "The v2 registry knows about this repository, so we will not allow fallback
\* to the v1 protocol even if we encounter an error later on"
\* (pullV2Repository): not at this endpoint and not at any later one.
V2Stays == [][V2StaysStep]_vars

\* The error a pull returns is the relevant one: that a v1 registry does not
\* support a pull by digest is not reported when another endpoint has failed
\* for another reason (Pull, discardNoSupportErrors).
ErrorIsRelevant ==
  pc = "error" /\ op = "pull" /\ relevant => result /= "nosupport"
=============================================================================
