--------------------------- MODULE SignedRequests ---------------------------
(***************************************************************************)
(* Signed requests on their way from the SDK's client over the             *)
(* facilitator's API to the validator: what is signed                      *)
(* (compute_horde_core/signature.py), how often a call is tried and when   *)
(* it logs in again (sdk.py), what the facilitator verifies, stores and    *)
(* sends on (signature_middleware.py, authentication.py, api.py,           *)
(* models.py) and what the validator makes of it (facilitator_client.py,   *)
(* fv_protocol/facilitator_requests.py).  Some calls create a job, others  *)
(* report the same completed job as cheated.  JSON texts are kept as       *)
(* terms; fields that are copied as they are, are left out.                *)
(***************************************************************************)
EXTENDS Integers, Sequences, FiniteSets

CONSTANTS
  Creators, Reporters, \* calls of create_job and of report_cheated_job
  ReportDetails,       \* what the reports may say: a value or null
  ChannelRows,         \* number of Channel rows of the validator
  HttpAttempts,        \* HTTP_RETRY_MAX_ATTEMPTS
  MaxExpiries,         \* bound: times the tokens issued so far expire
  MaxBreaks,           \* bound: failed sends to a channel, lost answers
  NoKey, Null          \* a key that a JSON object lacks; null

ASSUME SignedAssumption ==
  /\ HttpAttempts \in Nat \ {0} /\ ChannelRows \in Nat /\ MaxExpiries \in Nat /\ MaxBreaks \in Nat
  /\ Creators \cap Reporters = {} /\ NoKey # Null
  /\ {NoKey, Null} \cap {"", "dir", "cert"} = {} /\ {NoKey, Null} \cap {<<>>, <<"v">>, <<"u">>} = {}

Calls == Creators \cup Reporters
NoToken == 0

VARIABLES
  token,     \* SDK: _token, counted by login; 0 is None
  issued,    \* facilitator: tokens issued
  expired,   \* the tokens up to this one have expired
  expiries, breaks,
  call,      \* SDK: _make_request of each call
  rows,      \* facilitator: Job rows, each with the try that made it
  reported,  \* facilitator: the job has a CheatedJobReport
  handled,   \* messages the validator has got and handled, with the verdict
  listed,    \* ValidatorWhitelist has the client's hotkey
  verdictOn  \* validator: the OrganicJob the reports are about

signedVars == <<token, issued, expired, expiries, breaks, call, rows, reported,
                handled, listed, verdictOn>>

(***************************************************************************)
(* What is signed.  json.dumps makes a text of a value, also of a text.    *)
(***************************************************************************)
Dumps(x) == [text |-> x]
\* hash_message_signature and Signer.sign: the timestamp goes with the signature.
Sign(payload, scope) == [scope |-> scope, over |-> Dumps(payload)]
Verifies(payload, s) == s.over = Dumps(payload)

\* The specification a user gives; the body create_job makes of it.
JobSpecs == [artifacts_dir : {Null, "", "dir"}, volumes : {NoKey, <<>>, <<"v">>},
             uploads : {NoKey, <<>>, <<"u">>}, streaming_details : {NoKey, "cert"}]
Default(x, absent, value) == IF x \in absent THEN value ELSE x

\* SignedFields.from_facilitator_sdk_json
FromSdkJson(data) ==
  [artifacts_dir |-> Default(data.artifacts_dir, {NoKey, Null}, ""),
   volumes |-> Default(data.volumes, {NoKey}, <<>>),
   uploads |-> Default(data.uploads, {NoKey}, <<>>),
   streaming_details |-> Default(data.streaming_details, {NoKey}, Null)]

\* _get_signature_headers and _get_cheated_job_headers
SignJob(data) == Sign(Dumps(FromSdkJson(data)), "SignedFields")
SignReport(data) == Sign(Dumps(data), "FullRequest")

\* signature_from_request
FacilitatorVerifies(data, s) ==
  IF s.scope = "SignedFields" THEN Verifies(Dumps(FromSdkJson(data)), s)
  ELSE Verifies(Dumps(data), s)

\* JobSerializer.to_internal_value and the defaults of Job
JobRow(data) ==
  [artifacts_dir |-> data.artifacts_dir,
   volumes |-> Default(data.volumes, {NoKey}, <<>>),
   uploads |-> Default(data.uploads, {NoKey}, <<>>),
   streaming_client_cert |-> Default(data.streaming_details, {NoKey}, "")]

\* Job.as_job_request
AsJobRequest(row) ==
  [artifacts_dir |-> Default(row.artifacts_dir, {""}, Null),
   volume |-> Default(row.volumes, {<<>>}, Null),
   output_upload |-> Default(row.uploads, {<<>>}, Null),
   streaming_details |-> Default(row.streaming_client_cert, {""}, Null)]

\* V2JobRequest.get_signed_fields
GetSignedFields(request) ==
  [artifacts_dir |-> Default(request.artifacts_dir, {Null}, ""),
   volumes |-> Default(request.volume, {Null}, <<>>),
   uploads |-> Default(request.output_upload, {Null}, <<>>),
   streaming_details |-> request.streaming_details]

(***************************************************************************)
(* The SDK's _make_request.                                                *)
(***************************************************************************)
SignedInit ==
  /\ token = NoToken /\ issued = 0 /\ expired = 0 /\ expiries = 0 /\ breaks = 0
  /\ \E data \in [Creators -> JobSpecs], details \in [Reporters -> ReportDetails] :
       call = [c \in Calls |->
         [st |-> "token", tok |-> NoToken, renewed |-> FALSE, tries |-> 1, left |-> 0,
          data |-> IF c \in Creators THEN data[c]
                   ELSE [job_uuid |-> "job", details |-> details[c]]]]
  /\ rows = {} /\ reported = FALSE /\ handled = {}
  /\ listed \in BOOLEAN
  /\ verdictOn = [cheated |-> FALSE, blacklisted |-> FALSE, slashings |-> 0]

Signature(c) == IF c \in Creators THEN SignJob(call[c].data) ELSE SignReport(call[c].data)
Expired(t) == t <= expired

\* Under the token lock; authenticate asks for a nonce and logs in with it.
TakeToken(c) ==
  /\ call[c].st = "token"
  /\ issued' = IF token = NoToken THEN issued + 1 ELSE issued
  /\ token' = IF token = NoToken THEN issued' ELSE token
  /\ call' = [call EXCEPT ![c] = [@ EXCEPT !.st = "post", !.tok = token']]
  /\ UNCHANGED <<expired, expiries, breaks, rows, reported, handled, listed, verdictOn>>

\* JWT_LIFETIME
ExpireTokens ==
  /\ expiries < MaxExpiries /\ expired < issued
  /\ expired' = issued /\ expiries' = expiries + 1
  /\ UNCHANGED <<token, issued, breaks, call, rows, reported, handled, listed, verdictOn>>

\* JWTAuthentication answers 401: another login and another attempt, once
PostExpired(c) ==
  /\ call[c].st = "post" /\ Expired(call[c].tok)
  /\ IF call[c].renewed
     THEN call' = [call EXCEPT ![c].st = "401"] /\ UNCHANGED token
     ELSE /\ call' = [call EXCEPT ![c] = [@ EXCEPT !.st = "token", !.renewed = TRUE]]
          /\ token' = NoToken
  /\ UNCHANGED <<issued, expired, expiries, breaks, rows, reported, handled,
                 listed, verdictOn>>

\* 5xx: tenacity calls _make_request once more, or the error is raised.
Retry(c) ==
  LET again == call[c].tries < HttpAttempts IN
  call' = [call EXCEPT ![c] = [@ EXCEPT
             !.st = IF again THEN "token" ELSE "error", !.renewed = FALSE, !.left = 0,
             !.tries = call[c].tries + IF again THEN 1 ELSE 0]]

(***************************************************************************)
(* The facilitator.  The middleware raises if the signature does not       *)
(* verify.  The serializer refuses a directory that is null; a job that    *)
(* has a report already gets 400.  Otherwise the transaction commits, and  *)
(* the message is sent to the channels one after another.                  *)
(***************************************************************************)
Post(c) ==
  /\ call[c].st = "post" /\ ~Expired(call[c].tok)
  /\ IF ~FacilitatorVerifies(call[c].data, Signature(c))
     THEN Retry(c) /\ UNCHANGED <<rows, reported>>
     ELSE IF (c \in Creators /\ call[c].data.artifacts_dir = Null) \/ (c \in Reporters /\ reported)
          THEN call' = [call EXCEPT ![c].st = "400"] /\ UNCHANGED <<rows, reported>>
          ELSE /\ call' = [call EXCEPT ![c] = [@ EXCEPT !.st = "dispatch", !.left = ChannelRows]]
               /\ rows' = IF c \in Creators THEN rows \cup {<<c, call[c].tries>>} ELSE rows
               /\ reported' = (reported \/ c \in Reporters)
  /\ UNCHANGED <<token, issued, expired, expiries, breaks, handled, listed, verdictOn>>

\* as_job_request; report_cheated, which leaves out what is null
Message(c) ==
  [from |-> c, try |-> call[c].tries, signature |-> Signature(c),
   body |-> IF c \in Creators THEN AsJobRequest(JobRow(call[c].data))
            ELSE [job_uuid |-> "job", details |-> Default(call[c].data.details, {Null}, NoKey)]]

(***************************************************************************)
(* The validator: verify_request_or_fail.  The signed payload of a job     *)
(* request is a text, that of a report an object.                          *)
(***************************************************************************)
VerifyRequest(m) ==
  listed /\ Verifies(IF m.from \in Creators THEN Dumps(GetSignedFields(m.body)) ELSE m.body,
                     m.signature)

\* handle_message: process_job_request answers RECEIVED or REJECTED,
\* process_miner_cheat_report marks the job, blacklists its miner and starts
\* slash_collateral_task, unless the job is marked already.
HandleSigned(channel, m) ==
  LET parsed == m.from \in Creators \/ m.body.details # NoKey
      ok == parsed /\ VerifyRequest(m)
  IN /\ handled' = handled \cup {[channel |-> channel, m |-> m, ok |-> ok]}
     /\ verdictOn' = IF m.from \in Reporters /\ ok /\ ~verdictOn.cheated
                     THEN [cheated |-> TRUE, blacklisted |-> TRUE,
                           slashings |-> verdictOn.slashings + 1]
                     ELSE verdictOn

\* send_to_validator writes to one channel after another.  The message is
\* handled at once: nothing else changes what the handler reads.
DispatchNext(c) ==
  /\ call[c].st = "dispatch" /\ call[c].left > 0
  /\ call' = [call EXCEPT ![c].left = call[c].left - 1]
  /\ HandleSigned(call[c].left, Message(c))
  /\ UNCHANGED <<token, issued, expired, expiries, breaks, rows, reported, listed>>

\* Mutant of DispatchFails: the failure is logged and not raised.
DispatchFailsQuietly(c) ==
  /\ call[c].st = "dispatch" /\ call[c].left > 0
  /\ breaks < MaxBreaks /\ breaks' = breaks + 1
  /\ call' = [call EXCEPT ![c].left = 0]
  /\ UNCHANGED <<token, issued, expired, expiries, rows, reported, handled,
                 listed, verdictOn>>

\* A send raises: dispatch_job_on_commit deletes the row; the answer is 500.
DispatchFails(c) ==
  /\ call[c].st = "dispatch" /\ call[c].left > 0
  /\ breaks < MaxBreaks /\ breaks' = breaks + 1
  /\ rows' = rows \ {<<c, call[c].tries>>}
  /\ Retry(c)
  /\ UNCHANGED <<token, issued, expired, expiries, reported, handled, listed, verdictOn>>

\* The answer is 201, or a gateway makes a 5xx of it.
AnswerCall(c) ==
  /\ call[c].st = "dispatch" /\ call[c].left = 0
  /\ \/ call' = [call EXCEPT ![c].st = "201"] /\ UNCHANGED breaks
     \/ breaks < MaxBreaks /\ breaks' = breaks + 1 /\ Retry(c)
  /\ UNCHANGED <<token, issued, expired, expiries, rows, reported, handled,
                 listed, verdictOn>>

SignedNext ==
  \/ ExpireTokens
  \/ \E c \in Calls : TakeToken(c) \/ PostExpired(c) \/ Post(c)
                    \/ DispatchNext(c) \/ DispatchFails(c) \/ AnswerCall(c)

SignedSpec == SignedInit /\ [][SignedNext]_signedVars

-----------------------------------------------------------------------------
(***************************************************************************)
(* A job request of the SDK passes the validator's signature check, for    *)
(* every combination of the optional fields: what the facilitator stores   *)
(* and builds its message from, gives back the fields that were signed,    *)
(* although an absent list, an empty one and null are not told apart       *)
(* everywhere.  Only a signer that is not whitelisted is turned down.      *)
(***************************************************************************)
HonestRequestsVerify ==
  /\ \A c \in Creators : call[c].st # "error" \/ breaks >= HttpAttempts
  /\ \A h \in handled : h.m.from \in Creators => (h.ok <=> listed)

(***************************************************************************)
(* A call that was answered 201 was sent to every channel of the           *)
(* validator, and the job it created is on record, however often its       *)
(* dispatch had failed and the call was made again.                        *)
(***************************************************************************)
AnsweredCallsAreDispatched ==
  \A c \in Calls : call[c].st = "201" =>
    /\ \A channel \in 1..ChannelRows : \E h \in handled : h.channel = channel /\ h.m = Message(c)
    /\ c \in Creators => <<c, call[c].tries>> \in rows

(***************************************************************************)
(* Tokens that expire once do not fail a call, although calls share the    *)
(* token and one may drop the token that another has just renewed.         *)
(***************************************************************************)
OneExpiryIsInvisible == expiries <= 1 => \A c \in Calls : call[c].st # "401"

\* From the SDK through the facilitator to the validator: a request signed by
\* the SDK verifies after every conversion on its way, a call answered with
\* success was dispatched, and one expired token is renewed unseen by the
\* caller.
AcceptedCallsArrive ==
    /\ HonestRequestsVerify
    /\ AnsweredCallsAreDispatched
    /\ OneExpiryIsInvisible


(***************************************************************************)
(* report_cheated_job "Reports to validator that a miner has cheated on a  *)
(* job" (sdk.py:497): a report of a completed job by a whitelisted signer  *)
(* that the validator has handled leaves the job marked as cheated.  It    *)
(* does not: the text is signed, the object is verified.                   *)
(***************************************************************************)
ReportedCheatIsRecorded ==
  (listed /\ \E h \in handled : h.m.from \in Reporters) => verdictOn.cheated
=============================================================================
