---------------------------- MODULE ConfigEndpoint ----------------------------
(***************************************************************************)
(* The penalty configuration, from loading to serving.                    *)
(*                                                                         *)
(* config.LoadPenaltyConfig (src/config/config.go) unmarshals the two     *)
(* embedded YAML documents of the finance configuration and stores both   *)
(* in the package variable penaltyConfig; main() returns if it fails.     *)
(* HandleConfiguration (src/handlers/configuration.go) then serves either *)
(* list, through the ConfigurationProvider of                             *)
(* penalty_config_provider.go, to GET /penalty-payment-api/configuration. *)
(*                                                                         *)
(* A response is the state of the http.ResponseWriter as net/http keeps   *)
(* it: the status is committed by the first WriteHeader or Write, and a   *)
(* later WriteHeader is ignored ("superfluous response.WriteHeader call"). *)
(* A Write can fail (the client went away) after the status was sent.     *)
(***************************************************************************)
EXTENDS Naturals

CONSTANTS
  Reqs   \* requests to the endpoint; net/http serves each in a goroutine

\* The query parameter values a request may carry.
ConfigTypes == {"penaltyTypesConfig", "payablePenaltiesConfig", "other"}

VARIABLES
  loadPc,        \* where LoadPenaltyConfig is: "types", "payables", "loaded", "failed"
  penaltyConfig, \* [types, payables]: "nil" or "loaded" each
  hpc,           \* per request, where its handler is: "idle", "switch", "encode", "done"
  ctype,         \* per request, its type query parameter
  data,          \* per request, configData: the list about to be encoded
  status,        \* per request, the status committed on its response, 0 while none
  body,          \* per request, what its client received: "none", "config", "message"
  writeFailed    \* per request, a Write on its response returned an error

vars == <<loadPc, penaltyConfig, hpc, ctype, data, status, body, writeFailed>>

Init ==
  /\ loadPc = "types"
  /\ penaltyConfig = [types |-> "nil", payables |-> "nil"]
  /\ hpc = [r \in Reqs |-> "idle"]
  /\ ctype = [r \in Reqs |-> "other"]
  /\ data = [r \in Reqs |-> "nil"]
  /\ status = [r \in Reqs |-> 0]
  /\ body = [r \in Reqs |-> "none"]
  /\ writeFailed = [r \in Reqs |-> FALSE]

-----------------------------------------------------------------------------
(* LoadPenaltyConfig                                                       *)

\* yaml.Unmarshal of the penalty types into a local; return on error.
UnmarshalTypes ==
  /\ loadPc = "types"
  /\ \E ok \in BOOLEAN : loadPc' = IF ok THEN "payables" ELSE "failed"
  /\ UNCHANGED <<penaltyConfig, hpc, ctype, data, status, body, writeFailed>>

\* Mutant of UnmarshalPayables: the penalty types stored before the second
\* document is unmarshalled.
UnmarshalPayablesEarlyStore ==
  /\ loadPc = "payables"
  /\ \E ok \in BOOLEAN :
       /\ loadPc' = IF ok THEN "loaded" ELSE "failed"
       /\ penaltyConfig' = [types |-> "loaded",
                            payables |-> IF ok THEN "loaded" ELSE "nil"]
  /\ UNCHANGED <<hpc, ctype, data, status, body, writeFailed>>

\* yaml.Unmarshal of the payable penalties; on success both lists are
\* stored, on error neither.
UnmarshalPayables ==
  /\ loadPc = "payables"
  /\ \/ /\ loadPc' = "loaded"
        /\ penaltyConfig' = [types |-> "loaded", payables |-> "loaded"]
     \/ /\ loadPc' = "failed"
        /\ UNCHANGED penaltyConfig
  /\ UNCHANGED <<hpc, ctype, data, status, body, writeFailed>>

-----------------------------------------------------------------------------
(* HandleConfiguration, reached only once main() loaded the configuration. *)

\* ConfigurationProvider.GetPenaltyTypesConfig / GetPayablePenaltiesConfig.
ProvidedConfig(t) ==
  IF t = "penaltyTypesConfig" THEN penaltyConfig.types ELSE penaltyConfig.payables

\* The handler's goroutine takes a GET request r with some value of ?type=
\* and sets the Content-Type header (nothing is committed yet).
Accept(r) ==
  /\ hpc[r] = "idle"
  /\ \E t \in ConfigTypes : ctype' = [ctype EXCEPT ![r] = t]
  /\ hpc' = [hpc EXCEPT ![r] = "switch"]
  /\ status' = [status EXCEPT ![r] = 0]
  /\ body' = [body EXCEPT ![r] = "none"]
  /\ writeFailed' = [writeFailed EXCEPT ![r] = FALSE]
  /\ UNCHANGED <<loadPc, penaltyConfig, data>>

\* In this module of its own, the endpoint is reached only after main()
\* got through LoadPenaltyConfig without an error (the System module
\* derives this from main's steps instead).
Request(r) ==
  /\ loadPc = "loaded"
  /\ Accept(r)

\* The switch on the type: a known one picks its list; any other value is
\* answered 400 with a message (utils.WriteJSONWithStatus).
Switch(r) ==
  /\ hpc[r] = "switch"
  /\ \/ /\ ctype[r] # "other"
        /\ data' = [data EXCEPT ![r] = ProvidedConfig(ctype[r])]
        /\ hpc' = [hpc EXCEPT ![r] = "encode"]
        /\ UNCHANGED <<status, body>>
     \/ /\ ctype[r] = "other"
        /\ status' = [status EXCEPT ![r] = 400]
        /\ body' = [body EXCEPT ![r] = "message"]
        /\ hpc' = [hpc EXCEPT ![r] = "done"]
        /\ UNCHANGED data
  /\ UNCHANGED <<loadPc, penaltyConfig, ctype, writeFailed>>

\* json.NewEncoder(w).Encode(response): the Write commits status 200 and
\* either delivers the body or fails; on failure the handler logs and calls
\* WriteJSONWithStatus(w, r, message, 500), whose WriteHeader comes after
\* the committed 200 and whose Write fails on the same connection.
Encode(r) ==
  /\ hpc[r] = "encode"
  /\ status' = [status EXCEPT ![r] = IF @ = 0 THEN 200 ELSE @]
  /\ \/ /\ body' = [body EXCEPT ![r] = IF data[r] = "loaded" THEN "config" ELSE "none"]
        /\ UNCHANGED writeFailed
     \/ /\ writeFailed' = [writeFailed EXCEPT ![r] = TRUE]
        /\ UNCHANGED body
  /\ hpc' = [hpc EXCEPT ![r] = "done"]
  /\ UNCHANGED <<loadPc, penaltyConfig, ctype, data>>

\* The client has its answer; the connection takes its next request.
Complete(r) ==
  /\ hpc[r] = "done"
  /\ hpc' = [hpc EXCEPT ![r] = "idle"]
  /\ UNCHANGED <<loadPc, penaltyConfig, ctype, data, status, body, writeFailed>>

Next ==
  \/ UnmarshalTypes \/ UnmarshalPayables
  \/ \E r \in Reqs : Request(r) \/ Switch(r) \/ Encode(r) \/ Complete(r)

Spec == Init /\ [][Next]_vars

-----------------------------------------------------------------------------
(* Properties.                                                             *)

TypeOK ==
  /\ loadPc \in {"types", "payables", "loaded", "failed"}
  /\ penaltyConfig \in [types : {"nil", "loaded"}, payables : {"nil", "loaded"}]
  /\ hpc \in [Reqs -> {"idle", "switch", "encode", "done"}]
  /\ ctype \in [Reqs -> ConfigTypes]
  /\ data \in [Reqs -> {"nil", "loaded"}]
  /\ status \in [Reqs -> {0, 200, 400, 500}]
  /\ body \in [Reqs -> {"none", "config", "message"}]
  /\ writeFailed \in [Reqs -> BOOLEAN]

\* LoadPenaltyConfig stores the two lists together or not at all: whether
\* it returned an error or not, penaltyConfig never holds one list without
\* the other, so the reason provider and the endpoint agree on what is
\* loaded.
ConfigAllOrNothing ==
  (penaltyConfig.types = "loaded") = (penaltyConfig.payables = "loaded")

\* A request the handler answered 200 with a body got the list it asked
\* for, loaded: the endpoint never serves a list LoadPenaltyConfig left nil.
\* Checked in System, where main's order, not Request's guard, keeps the
\* endpoint closed until the load succeeded.
ServedLoadedConfig ==
  \A r \in Reqs :
    hpc[r] = "done" /\ status[r] = 200 /\ ~writeFailed[r] =>
      body[r] = "config" /\ ctype[r] # "other"

\* TestHandleConfiguration, "should return 500 when JSON encoding fails":
\* a response whose encoding failed carries status 500.
EncodeFailureAnswered500 ==
  \A r \in Reqs : hpc[r] = "done" /\ writeFailed[r] => status[r] = 500

=============================================================================
