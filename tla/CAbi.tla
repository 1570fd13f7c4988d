---------------------------------- MODULE CAbi ----------------------------------
(***************************************************************************)
(* calybris-ffi/src/lib.rs: the C interface as a C program sees it, with   *)
(* one variable for every out-parameter, reused from call to call.  The    *)
(* program passes null, short buffers, unordered and refused catalogs and  *)
(* discriminants of its own making, and looks at no status; it does keep   *)
(* the rule of the header that a handle is freed once.                     *)
(*                                                                         *)
(* What the kernel decides is modelled in DecisionKernel; here a candidate *)
(* is its id and its enabled flag, and any call into the core may panic.   *)
(***************************************************************************)
EXTENDS Digests

CONSTANTS
  Catalogs,     \* catalogs a program passes: sequences of [id, enabled]
  Requests,     \* requested model ids, or Invalid, or Unservable
  MaxCatalog,   \* MAX_CATALOG_MODELS
  DigestLen,    \* CALYBRIS_DIGEST_HEX_LEN
  MaxHandles    \* bound: how many policies are built

VARIABLES
  heap,       \* the policies behind the handles, None once freed
  handle,     \* calybris_policy *: None or a handle
  decision,   \* calybris_decision
  valid,      \* uint8_t
  buffer,     \* char[]: what the digest in it is of, and how many digits; None before
  status,     \* what the last call returned
  built,      \* the catalog of the last calybris_policy_new with an out, None if it failed
  verified,   \* whether the decision given to the last calybris_verify with a valid "matches"
              \* or "differs" from the policy's own on that request, None if the call failed
  digested    \* what the last digest call that returned CALYBRIS_OK was given, None before

abiVars == <<heap, handle, decision, valid, buffer, status, built, verified, digested>>

Statuses == {"ok", "null", "invalid_policy", "invalid_input", "buffer_too_small",
             "unknown_variant", "panic", "catalog_too_large", "reserved_model_id",
             "invalid_enabled_flag"}

-----------------------------------------------------------------------------
\* The core.

\* PolicySnapshot::try_new_trusted: why a catalog is refused, None when it is not.
Refused(catalog) ==
  LET ids == [i \in DOMAIN catalog |-> catalog[i].id]
  IN  IF Len(catalog) > MaxCatalog THEN "catalog_too_large"
      ELSE IF 0 \in Range(ids) THEN "reserved_model_id"
      ELSE IF \E m \in Range(catalog) : m.enabled > 1 THEN "invalid_enabled_flag"
      ELSE IF ~IsInjective(ids) \/ \A m \in Range(catalog) : m.enabled = 0 THEN "invalid_policy"
      ELSE None

InOrder(catalog) == SortSeq(catalog, LAMBDA a, b : a.id < b.id)

Actions == <<"ExecuteRequested", "Substitute", "Reject">>
Reasons == {1, 2} \cup 100..110

\* A request that does not validate, and one that no candidate may serve.
Invalid == 0
Unservable == 9

\* The kernel's answer: the requested model, else the first enabled one, else none.
KernelPrescribe(catalog, request) ==
  LET on == {i \in DOMAIN catalog : catalog[i].enabled = 1}
      wanted == {i \in on : catalog[i].id = request}
      answer(action, reason, i) ==
        [action |-> action, reason |-> reason, index |-> i,
         model |-> IF i = 0 THEN 0 ELSE catalog[i].id]
  IN  IF request = Unservable THEN answer("Reject", 105, 0)
      ELSE IF wanted # {} THEN answer("ExecuteRequested", 1, Min(wanted))
      ELSE answer("Substitute", 2, Min(on))

-----------------------------------------------------------------------------
\* Conversions.

\* From<KernelDecision> for CalybrisDecision, and decision_from_c, None for an invented one.
ToC(d) == [d EXCEPT !.action = CHOOSE n \in DOMAIN Actions : Actions[n] = d.action]

DecisionFromC(c) ==
  IF c.action \in DOMAIN Actions /\ c.reason \in Reasons
  THEN [c EXCEPT !.action = Actions[@]] ELSE None

Zeroed == [action |-> 0, reason |-> 0, index |-> 0, model |-> 0]

\* Whose digest: a policy by its handle, a request, or a decision by the model it names.
Digits(subject, n) == [of |-> subject, digits |-> n]

\* Mutant of WriteCstr: as much as fits is written.
WriteCstrTruncated(subject, out, capacity) ==
  IF out = None THEN status' = "null" /\ UNCHANGED <<buffer, digested>>
  ELSE IF capacity < DigestLen + 1
  THEN /\ status' = "buffer_too_small" /\ buffer' = Digits(subject, capacity - 1)
       /\ UNCHANGED digested
  ELSE status' = "ok" /\ buffer' = Digits(subject, DigestLen) /\ digested' = subject

\* The buffer is the caller's or null; only a digest that fits is written.
WriteCstr(subject, out, capacity) ==
  IF out = None THEN status' = "null" /\ UNCHANGED <<buffer, digested>>
  ELSE IF capacity < DigestLen + 1
  THEN status' = "buffer_too_small" /\ UNCHANGED <<buffer, digested>>
  ELSE status' = "ok" /\ buffer' = Digits(subject, DigestLen) /\ digested' = subject

\* A digest call that fails leaves the digest of an earlier one in the buffer.
DigestFails(s) == status' = s /\ UNCHANGED <<buffer, digested>>

\* guard: a panic becomes a status.
Guard(body) == body \/ DigestFails("panic")

-----------------------------------------------------------------------------
\* The entry points.  `given` says which of the pointers are not null.

\* calybris_policy_new.
PolicyNew(catalog, given) ==
  LET refused == Refused(catalog)
      fails(s) == status' = s /\ handle' = None /\ built' = None /\ UNCHANGED heap
  IN  /\ IF "out" \notin given
         THEN status' = "null" /\ UNCHANGED <<heap, handle, built>>
         ELSE IF "config" \notin given \/ ("models" \notin given /\ catalog # <<>>)
         THEN fails("null")
         ELSE IF refused # None THEN fails(refused)
         ELSE \/ fails("panic")
              \/ /\ heap' = Append(heap, InOrder(catalog))
                 /\ handle' = Len(heap) + 1 /\ built' = catalog /\ status' = "ok"
      /\ UNCHANGED <<decision, valid, buffer, verified, digested>>

\* calybris_policy_free, after which the program clears its variable.
PolicyFree ==
  /\ handle # None
  /\ heap' = [heap EXCEPT ![handle] = None]
  /\ handle' = None /\ built' = None
  /\ UNCHANGED <<decision, valid, buffer, status, verified, digested>>

\* calybris_policy_model_count writes a size the program compares at once.
ModelCount == IF handle = None THEN None ELSE Len(heap[handle])

Validates(request) == request # Invalid

\* calybris_decide leaves *out alone when it fails.
DecideInC(request, given) ==
  /\ IF handle = None \/ given # {"input", "out"} THEN status' = "null" /\ UNCHANGED decision
     ELSE IF ~Validates(request) THEN status' = "invalid_input" /\ UNCHANGED decision
     ELSE \/ status' = "panic" /\ UNCHANGED decision
          \/ status' = "ok" /\ decision' = ToC(KernelPrescribe(heap[handle], request))
  /\ UNCHANGED <<heap, handle, valid, buffer, built, verified, digested>>

\* calybris_verify.
VerifyInC(request, given) ==
  LET rebuilt == DecisionFromC(decision)
      fails(s) == status' = s /\ valid' = 0 /\ verified' = None
  IN  /\ IF "valid" \notin given THEN status' = "null" /\ UNCHANGED <<valid, verified>>
         ELSE IF handle = None \/ given # {"input", "decision", "valid"} THEN fails("null")
         ELSE IF rebuilt = None THEN fails("unknown_variant")
         ELSE IF ~Validates(request) THEN fails("invalid_input")
         ELSE \/ fails("panic")
              \/ /\ status' = "ok"
                 /\ valid' = IF KernelPrescribe(heap[handle], request) = rebuilt THEN 1 ELSE 0
                 /\ verified' = IF ToC(KernelPrescribe(heap[handle], request)) = decision
                                THEN "matches" ELSE "differs"
      /\ UNCHANGED <<heap, handle, decision, buffer, built, digested>>

PolicyDigestHex(out, capacity) ==
  /\ IF handle = None THEN DigestFails("null")
     ELSE Guard(WriteCstr(<<"policy", handle>>, out, capacity))
  /\ UNCHANGED <<heap, handle, decision, valid, built, verified>>

InputDigestHex(request, given, out, capacity) ==
  /\ IF given = {} THEN DigestFails("null")
     ELSE Guard(WriteCstr(<<"input", request>>, out, capacity))
  /\ UNCHANGED <<heap, handle, decision, valid, built, verified>>

DecisionDigestHex(given, out, capacity) ==
  /\ IF given = {} THEN DigestFails("null")
     ELSE IF DecisionFromC(decision) = None THEN DigestFails("unknown_variant")
     ELSE Guard(WriteCstr(<<"decision", decision.model>>, out, capacity))
  /\ UNCHANGED <<heap, handle, decision, valid, built, verified>>

\* The program writes into its own decision.
Scribble(c) ==
  /\ decision' = c
  /\ UNCHANGED <<heap, handle, valid, buffer, status, built, verified, digested>>

-----------------------------------------------------------------------------
AbiInit ==
  /\ heap = <<>> /\ handle = None /\ decision = Zeroed /\ valid = 0 /\ buffer = None
  /\ status = "ok" /\ built = None /\ verified = None /\ digested = None

Given(pointers) == {pointers} \cup {pointers \ {p} : p \in pointers}

\* Nowhere to write to, one byte too few, and just enough.
Buffers == {<<None, DigestLen + 1>>, <<"buffer", DigestLen>>, <<"buffer", DigestLen + 1>>}

AbiNext ==
  \/ /\ Len(heap) < MaxHandles
     /\ \E catalog \in Catalogs, given \in Given({"config", "models", "out"}) :
          PolicyNew(catalog, given)
  \/ PolicyFree
  \/ \E request \in Requests :
       \/ \E given \in Given({"input", "out"}) : DecideInC(request, given)
       \/ \E given \in Given({"input", "decision", "valid"}) : VerifyInC(request, given)
  \/ \E b \in Buffers :
       \/ PolicyDigestHex(b[1], b[2])
       \/ \E request \in Requests, given \in Given({"input"}) :
            InputDigestHex(request, given, b[1], b[2])
       \/ \E given \in Given({"decision"}) : DecisionDigestHex(given, b[1], b[2])
  \/ Scribble([decision EXCEPT !.action = 3]) \/ Scribble(Zeroed)

-----------------------------------------------------------------------------
\* include/calybris.h: "*out is set to NULL before anything can fail", "*valid is cleared to 0
\* before anything can fail, so a caller who ignores the status code cannot read a stale 1",
\* "a truncated digest can never be mistaken for a whole one", and "the order they are passed
\* in does not affect the policy digest or selected_model_index".  At every point of a program
\* that looks at no status, valid and the handle say what the last call found, and a digest in
\* the buffer is whole and of one thing: what the last digest call that returned CALYBRIS_OK was
\* given.  A digest call that fails leaves that earlier digest in place, and calybris_decide the
\* earlier decision, so those two are only to be read when the call returned CALYBRIS_OK.
OutParametersTellTruth ==
  /\ status \in Statuses
  /\ (valid = 1) = (verified = "matches")
  /\ (handle = None) = (built = None)
  /\ handle # None =>
       /\ heap[handle] # None
       /\ Range(heap[handle]) = Range(built) /\ ModelCount = Len(built)
       /\ \A c \in Catalogs : Refused(c) = None /\ Range(c) = Range(built) => InOrder(c) = heap[handle]
  /\ buffer = IF digested = None THEN None ELSE Digits(digested, DigestLen)
=============================================================================
