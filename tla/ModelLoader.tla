---------------------------- MODULE ModelLoader ----------------------------
(***************************************************************************)
(* The lazily loaded model of app/inference/model_loader.py, shared by the *)
(* threads that generate: load() with its unlocked test, its lock and its  *)
(* second test, and get().  One attribute access of Python is one step.    *)
(***************************************************************************)
EXTENDS Integers

CONSTANTS
  Requests,  \* requests of POST /chat, each run in a thread of its own
  Nobody,    \* the lock is free
  Failures   \* TRUE: loading and inference may raise

ASSUME NobodyIsNoRequest == Nobody \notin Requests
ASSUME FailuresIsBoolean == Failures \in BOOLEAN

VARIABLES
  pc,         \* next step of each request
  lock,       \* ModelLoader._lock
  loaded,     \* ModelLoader._loaded
  tokenizer,  \* the tokenizer object: the number of its from_pretrained(), or 0
  model,      \* the model object, and whether it is on its device in eval mode
  fetches,    \* number of from_pretrained() calls made
  handle      \* what get() returned to each request

loader == <<lock, loaded, tokenizer, model, fetches, handle>>

Handle == [tokenizer : Nat, model : Nat]

LoaderTypeOK ==
  /\ lock \in Requests \cup {Nobody}
  /\ loaded \in BOOLEAN
  /\ tokenizer \in Nat
  /\ model \in [id : Nat, ready : BOOLEAN]
  /\ fetches \in Nat
  /\ handle \in [Requests -> Handle]

LoaderInit ==
  /\ lock = Nobody
  /\ loaded = FALSE
  /\ tokenizer = 0
  /\ model = [id |-> 0, ready |-> FALSE]
  /\ fetches = 0
  /\ handle = [r \in Requests |-> [tokenizer |-> 0, model |-> 0]]

LoadPcs == {"check", "acquire", "recheck", "fetch_tokenizer", "fetch_model",
            "prepare", "publish", "release", "get"}

Goto(r, from, to) ==
  /\ pc[r] = from
  /\ pc' = [pc EXCEPT ![r] = to]

----------------------------------------------------------------------------
(* if self._loaded: return, before the lock is taken *)
Check(r) ==
  /\ \/ loaded /\ Goto(r, "check", "get")
     \/ ~loaded /\ Goto(r, "check", "acquire")
  /\ UNCHANGED loader

Acquire(r) ==
  /\ Goto(r, "acquire", "recheck")
  /\ lock = Nobody
  /\ lock' = r
  /\ UNCHANGED <<loaded, tokenizer, model, fetches, handle>>

(* Slip: the second test is left out. *)
RecheckSkipped(r) == Goto(r, "recheck", "fetch_tokenizer") /\ UNCHANGED loader

(* if self._loaded: return, under the lock *)
Recheck(r) ==
  /\ \/ loaded /\ Goto(r, "recheck", "release")
     \/ ~loaded /\ Goto(r, "recheck", "fetch_tokenizer")
  /\ UNCHANGED loader

FetchTokenizer(r) ==
  /\ Goto(r, "fetch_tokenizer", "fetch_model")
  /\ fetches' = fetches + 1
  /\ tokenizer' = fetches + 1
  /\ UNCHANGED <<lock, loaded, model, handle>>

(* Slip: the model is published as soon as it is fetched. *)
FetchModelPublishing(r) ==
  /\ Goto(r, "fetch_model", "prepare")
  /\ fetches' = fetches + 1
  /\ model' = [id |-> fetches + 1, ready |-> FALSE]
  /\ loaded' = TRUE
  /\ UNCHANGED <<lock, tokenizer, handle>>

FetchModel(r) ==
  /\ Goto(r, "fetch_model", "prepare")
  /\ fetches' = fetches + 1
  /\ model' = [id |-> fetches + 1, ready |-> FALSE]
  /\ UNCHANGED <<lock, loaded, tokenizer, handle>>

(* pad_token, model.to(device) and model.eval() *)
Prepare(r) ==
  /\ Goto(r, "prepare", "publish")
  /\ model' = [model EXCEPT !.ready = TRUE]
  /\ UNCHANGED <<lock, loaded, tokenizer, fetches, handle>>

Publish(r) ==
  /\ Goto(r, "publish", "release")
  /\ loaded' = TRUE
  /\ UNCHANGED <<lock, tokenizer, model, fetches, handle>>

Release(r) ==
  /\ Goto(r, "release", "get")
  /\ lock' = Nobody
  /\ UNCHANGED <<loaded, tokenizer, model, fetches, handle>>

(* get() returns the objects the attributes refer to. *)
Get(r) ==
  /\ Goto(r, "get", "prefill")
  /\ handle' = [handle EXCEPT ![r] = [tokenizer |-> tokenizer, model |-> model.id]]
  /\ UNCHANGED <<lock, loaded, tokenizer, model, fetches>>

(* Slip: the lock stays taken when loading raises. *)
LoadRaisesLocked(r) ==
  /\ Failures
  /\ pc[r] \in {"fetch_tokenizer", "fetch_model", "prepare"}
  /\ pc' = [pc EXCEPT ![r] = "raised"]
  /\ UNCHANGED loader

(* from_pretrained() or to() raises: leaving the with block frees the lock. *)
LoadRaises(r) ==
  /\ Failures
  /\ pc[r] \in {"fetch_tokenizer", "fetch_model", "prepare"}
  /\ pc' = [pc EXCEPT ![r] = "raised"]
  /\ lock' = Nobody
  /\ UNCHANGED <<loaded, tokenizer, model, fetches, handle>>

LoadStep(r) ==
  \/ Check(r) \/ Acquire(r) \/ Recheck(r) \/ FetchTokenizer(r) \/ FetchModel(r)
  \/ Prepare(r) \/ Publish(r) \/ Release(r) \/ Get(r)

============================================================================
