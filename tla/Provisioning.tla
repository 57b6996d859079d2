---------------------------- MODULE Provisioning ----------------------------
(***************************************************************************)
(* The delivery of what was sold: providers and their mapping to the       *)
(* product, the fulfillment of an item of a sale, the attempts at having a *)
(* provider perform it, and the activation that results.                   *)
(*                                                                         *)
(* Operations on a fulfillment are transactions under a lock of its row.   *)
(* Provisioning is two of them with the call of the adapter in between,    *)
(* where the row is free: it may be completed, cancelled or assigned by    *)
(* hand, and the caller may die.  The provider an operation names is read  *)
(* under the lock of the fulfillment, not of the provider.                 *)
(***************************************************************************)
EXTENDS Naturals, FiniteSets

CONSTANTS
  Providers,
  Fulfillments, \* identities: an item of a sale and a subscription of it
  Calls,        \* requests to provision
  Activations,
  MaxAttempts,  \* bound of attemptCount
  NoProvider,
  NoFulfillment

ASSUME ProvisioningAssumption ==
  /\ MaxAttempts \in Nat
  /\ NoProvider \notin Providers
  /\ NoFulfillment \notin Fulfillments

VARIABLES
  provider,     \* "Provider", and the mapping of the product to it
  fulfillment,  \* "Fulfillment": status, provider, attemptCount
  subscription, \* the status of its subscription
  chosen,       \* create and assign: the provider read, until the transaction ends
  attempts,     \* "ProvisioningAttempt": the numbers inserted for a fulfillment
  call,         \* provision: waiting for the adapter
  activation    \* "Activation"

provisioningVars ==
  <<provider, fulfillment, subscription, chosen, attempts, call, activation>>

FulfillmentStatus == {"PENDING", "ASSIGNED", "PROCESSING", "COMPLETED", "FAILED", "CANCELLED"}
LiveActivation == {"PENDING", "ACTIVE", "SUSPENDED"}
ActivationStatus == LiveActivation \cup {"REVOKED"}
SubscriptionStatus == {"none", "PENDING", "ACTIVE", "SUSPENDED", "closed"}
AnyProvider == Providers \cup {NoProvider}

\* In place of a provider: no transaction is open on the row.
Unlocked == "unlocked"

ProvisioningTypeOK ==
  /\ provider \in [Providers -> [active : BOOLEAN, archived : BOOLEAN, mapped : BOOLEAN]]
  /\ fulfillment \in [Fulfillments -> [status : FulfillmentStatus \cup {"none"}, provider : AnyProvider,
                                       attemptCount : 0 .. MaxAttempts]]
  /\ subscription \in [Fulfillments -> SubscriptionStatus]
  /\ chosen \in [Fulfillments -> AnyProvider \cup {Unlocked}]
  /\ attempts \in [Fulfillments -> SUBSET (1 .. MaxAttempts)]
  /\ call \in [Calls -> [on : Fulfillments \cup {NoFulfillment}, number : 0 .. MaxAttempts]]
  /\ activation \in [Activations -> [status : ActivationStatus \cup {"none"},
                                     on : Fulfillments \cup {NoFulfillment}]]

----------------------------------------------------------------------------
(* Providers.                                                              *)

\* update and changeStatus; the statuses other than ACTIVE are one.
SetProviderStatus(p, active) ==
  /\ ~provider[p].archived
  /\ provider' = [provider EXCEPT ![p].active = active]
  /\ UNCHANGED <<fulfillment, subscription, chosen, attempts, call, activation>>

ArchiveProvider(p) ==
  /\ ~provider[p].archived
  /\ provider' = [provider EXCEPT ![p].archived = TRUE, ![p].active = FALSE]
  /\ UNCHANGED <<fulfillment, subscription, chosen, attempts, call, activation>>

RestoreProvider(p) ==
  /\ provider[p].archived
  /\ provider' = [provider EXCEPT ![p].archived = FALSE]
  /\ UNCHANGED <<fulfillment, subscription, chosen, attempts, call, activation>>

\* createMapping wants an active provider for an active mapping; updateMapping
\* looks at nothing, and archiving a mapping makes it inactive.
SetMapping(p, mapped) ==
  /\ provider' = [provider EXCEPT ![p].mapped = mapped]
  /\ UNCHANGED <<fulfillment, subscription, chosen, attempts, call, activation>>

Assignable(p) == provider[p].active /\ ~provider[p].archived

\* resolveMapping: any of the mapped providers can have the highest priority.
Resolved ==
  LET mapped == {p \in Providers : provider[p].mapped /\ Assignable(p)} IN
  IF mapped = {} THEN {NoProvider} ELSE mapped

----------------------------------------------------------------------------
(* Fulfillments.                                                           *)

Free(f) == chosen[f] = Unlocked
Status(f) == fulfillment[f].status

\* create, up to the insert, under the lock of the item of the sale.
BeginCreate(f, p) ==
  /\ Free(f) /\ Status(f) = "none"
  /\ p \in Resolved \cup {q \in Providers : Assignable(q)}
  /\ chosen' = [chosen EXCEPT ![f] = p]
  /\ UNCHANGED <<provider, fulfillment, subscription, attempts, call, activation>>

\* assign, up to the update: the provider named, or the one it has.
BeginAssign(f, p) ==
  /\ Free(f) /\ Status(f) \notin {"none", "COMPLETED", "CANCELLED"}
  /\ p \in Providers \cup {fulfillment[f].provider}
  /\ p # NoProvider => Assignable(p)
  /\ chosen' = [chosen EXCEPT ![f] = p]
  /\ UNCHANGED <<provider, fulfillment, subscription, attempts, call, activation>>

\* The insert of create or the update of assign.
CommitProvider(f) ==
  /\ ~Free(f)
  /\ fulfillment' = [fulfillment EXCEPT ![f] =
       [status |-> IF chosen[f] = NoProvider THEN "PENDING" ELSE "ASSIGNED",
        provider |-> chosen[f], attemptCount |-> fulfillment[f].attemptCount]]
  /\ chosen' = [chosen EXCEPT ![f] = Unlocked]
  /\ UNCHANGED <<provider, subscription, attempts, call, activation>>

\* A statement fails or the process dies: nothing is kept.
Rollback(f) ==
  /\ ~Free(f)
  /\ chosen' = [chosen EXCEPT ![f] = Unlocked]
  /\ UNCHANGED <<provider, fulfillment, subscription, attempts, call, activation>>

Startable(f) == Free(f) /\ Status(f) \in {"PENDING", "ASSIGNED", "FAILED"}

\* The increment of attemptCount, and PROCESSING.
Started(f) == [fulfillment EXCEPT ![f].status = "PROCESSING", ![f].attemptCount = @ + 1]

StartFulfillment(f) ==
  /\ Startable(f) /\ fulfillment[f].attemptCount < MaxAttempts
  /\ fulfillment' = Started(f)
  /\ UNCHANGED <<provider, subscription, chosen, attempts, call, activation>>

SetStatus(f, from, to) ==
  /\ Free(f) /\ Status(f) \in from
  /\ fulfillment' = [fulfillment EXCEPT ![f].status = to]
  /\ UNCHANGED <<provider, subscription, chosen, attempts, call, activation>>

Complete(f) == SetStatus(f, {"PROCESSING", "ASSIGNED", "PENDING"}, "COMPLETED")

Failable == FulfillmentStatus \ {"COMPLETED", "CANCELLED"}

Fail(f) == SetStatus(f, Failable, "FAILED")

Cancel(f) == SetStatus(f, FulfillmentStatus \ {"COMPLETED", "CANCELLED"}, "CANCELLED")

----------------------------------------------------------------------------
(* Provisioning.                                                           *)

\* ManualProviderAdapter and MockProviderAdapter, the ones registered, succeed.
AdapterAnswers == {TRUE}

NextNumber(f) == fulfillment[f].attemptCount + 1

BeginProvision(c, f) ==
  /\ call[c].on = NoFulfillment
  /\ Startable(f) /\ fulfillment[f].attemptCount < MaxAttempts
  /\ call' = [call EXCEPT ![c] = [on |-> f, number |-> NextNumber(f)]]
  /\ fulfillment' = Started(f)
  /\ UNCHANGED <<provider, subscription, chosen, attempts, activation>>

NoCall == [on |-> NoFulfillment, number |-> 0]

\* finalizeProvisioning inserts the attempt, unless its number is taken, and
\* writes the status whatever it is by now.
FinishProvision(c, success) ==
  LET f == call[c].on IN
  /\ f # NoFulfillment /\ Free(f)
  /\ call[c].number \notin attempts[f]
  /\ attempts' = [attempts EXCEPT ![f] = @ \cup {call[c].number}]
  /\ fulfillment' = [fulfillment EXCEPT ![f].status = IF success THEN "COMPLETED" ELSE "FAILED"]
  /\ call' = [call EXCEPT ![c] = NoCall]
  /\ UNCHANGED <<provider, subscription, chosen, activation>>

\* The process dies, or the second transaction fails.
LoseCall(c) ==
  /\ call[c].on # NoFulfillment
  /\ call' = [call EXCEPT ![c] = NoCall]
  /\ UNCHANGED <<provider, fulfillment, subscription, chosen, attempts, activation>>

----------------------------------------------------------------------------
(* Activations.                                                            *)

LiveOf(f) == {a \in Activations : activation[a].on = f /\ activation[a].status \in LiveActivation}

\* create returns the live activation when there is one.
CreateActivation(a, f) ==
  /\ Free(f) /\ Status(f) = "COMPLETED"
  /\ fulfillment[f].provider # NoProvider
  /\ LiveOf(f) = {}
  /\ activation[a].status = "none"
  /\ activation' = [activation EXCEPT ![a] = [status |-> "PENDING", on |-> f]]
  /\ UNCHANGED <<provider, fulfillment, subscription, chosen, attempts, call>>

\* The transitions the controller asks for.
Allowed(from, to) ==
  \/ from = to
  \/ from \in {"PENDING", "SUSPENDED"} /\ to = "ACTIVE"
  \/ from = "ACTIVE" /\ to = "SUSPENDED"
  \/ from \in LiveActivation /\ to = "REVOKED"

\* transition moves the subscription along.
TransitionActivation(a, to) ==
  LET f == activation[a].on IN
  /\ activation[a].status # "none"
  /\ Allowed(activation[a].status, to)
  /\ activation' = [activation EXCEPT ![a].status = to]
  /\ subscription' = [subscription EXCEPT ![f] =
       IF to = "ACTIVE" /\ @ \in {"PENDING", "SUSPENDED"} THEN "ACTIVE"
       ELSE IF to = "SUSPENDED" /\ @ = "ACTIVE" THEN "SUSPENDED" ELSE @]
  /\ UNCHANGED <<provider, fulfillment, chosen, attempts, call>>

\* Billing moves the subscription too.
MoveSubscription(f, to) ==
  /\ subscription[f] \notin {"none", "closed"}
  /\ subscription' = [subscription EXCEPT ![f] = to]
  /\ UNCHANGED <<provider, fulfillment, chosen, attempts, call, activation>>

----------------------------------------------------------------------------
ProvisioningInit ==
  /\ provider = [p \in Providers |-> [active |-> TRUE, archived |-> FALSE, mapped |-> FALSE]]
  /\ fulfillment = [f \in Fulfillments |->
       [status |-> "none", provider |-> NoProvider, attemptCount |-> 0]]
  /\ subscription \in [Fulfillments -> {"none", "PENDING"}]
  /\ chosen = [f \in Fulfillments |-> Unlocked]
  /\ attempts = [f \in Fulfillments |-> {}]
  /\ call = [c \in Calls |-> NoCall]
  /\ activation = [a \in Activations |-> [status |-> "none", on |-> NoFulfillment]]

ProvisioningNext ==
  \/ \E p \in Providers :
       \/ \E on \in BOOLEAN : SetProviderStatus(p, on) \/ SetMapping(p, on)
       \/ ArchiveProvider(p) \/ RestoreProvider(p)
  \/ \E f \in Fulfillments :
       \/ \E p \in AnyProvider : BeginCreate(f, p) \/ BeginAssign(f, p)
       \/ CommitProvider(f) \/ Rollback(f)
       \/ StartFulfillment(f) \/ Complete(f) \/ Fail(f) \/ Cancel(f)
       \/ \E c \in Calls : BeginProvision(c, f)
       \/ \E a \in Activations : CreateActivation(a, f)
       \/ \E to \in SubscriptionStatus \ {"none"} : MoveSubscription(f, to)
  \/ \E c \in Calls : \/ LoseCall(c)
                      \/ \E success \in AdapterAnswers : FinishProvision(c, success)
  \/ \E a \in Activations, to \in ActivationStatus \ {"PENDING"} : TransitionActivation(a, to)

ProvisioningSpec == ProvisioningInit /\ [][ProvisioningNext]_provisioningVars

----------------------------------------------------------------------------
(* Correctness.                                                            *)

\* No answer of an adapter is lost to the unique number of an attempt: the
\* calls under way and the attempts recorded all have numbers of their own,
\* though calls are abandoned, answered late and overtaken.
AttemptsNumberedOnce ==
  \A c \in Calls : call[c].on # NoFulfillment =>
    /\ call[c].number \notin attempts[call[c].on]
    /\ call[c].number <= fulfillment[call[c].on].attemptCount
    /\ \A d \in Calls : call[d] = call[c] => d = c

\* "Una Activation es el resultado operativo de un fulfillment completado"
\* (docs/activations.md): it stays completed, and there is one that is live,
\* whatever calls are still to be answered.
ActivationOfCompleted ==
  \A f \in Fulfillments :
    /\ Cardinality(LiveOf(f)) <= 1
    /\ LiveOf(f) # {} => Status(f) = "COMPLETED"
============================================================================
