--------------------------- MODULE OverrideQueue ---------------------------
(***************************************************************************)
(* BrowserProxyOverrideOperationQueue: the one queue through which the     *)
(* Activities of the Android process set and clear the WebView proxy       *)
(* override, which is global to the process.  Owners are numbered by       *)
(* generation.                                                             *)
(*                                                                         *)
(* Everything here runs on the main thread.  An operation that need not    *)
(* ask the platform ends at once, and the next one begins in the same      *)
(* call.  Results go to the callers as posted callbacks.                   *)
(***************************************************************************)
EXTENDS Integers, Sequences, SequencesExt

CONSTANTS
  Owners,       \* number of Activity generations
  CanOverride,  \* WebViewFeature.PROXY_OVERRIDE and its reverse bypass
  None

ASSUME OwnersAssumption == Owners \in Nat /\ CanOverride \in BOOLEAN

Owner == 1..Owners
NoOwner == 0

VARIABLES
  latest,       \* latestGeneration
  activeOwner,  \* owner of the override, as far as known
  claimed,      \* claimedOwner
  listening,    \* owners with an onOwnershipRevoked callback
  pending,      \* operations waiting
  current,      \* the operation the platform is busy with
  override,     \* the proxies the platform may be using, None for no override
  posted        \* callbacks waiting on the main executor

claims == <<latest, claimed, listening>>
running == <<pending, current, activeOwner, override>>

NoProxy == 0
Operation == [kind : {"acquire", "apply", "clear"}, owner : Owner, proxy : Nat]

QueueInit ==
  /\ latest = 0
  /\ activeOwner = NoOwner
  /\ claimed = NoOwner
  /\ listening = {}
  /\ pending = <<>>
  /\ current = None
  /\ override = {NoProxy}
  /\ posted = <<>>

Reply(op, ok) == [to |-> op.owner, kind |-> op.kind, ok |-> ok, proxy |-> op.proxy]

----------------------------------------------------------------------------
(***************************************************************************)
(* Running the queue.  Operations that end inline change nothing, so all   *)
(* of them up to the first that needs the platform see the same state.     *)
(***************************************************************************)

NeedsPlatform(op, generation, active) ==
  CASE op.kind = "acquire" -> op.owner = generation /\ active \notin {NoOwner, op.owner}
    [] op.kind = "apply"   -> op.owner = generation
    [] op.kind = "clear"   -> active = op.owner

InlineReply(op, generation) ==
  Reply(op, CASE op.kind = "acquire" -> op.owner = generation
              [] op.kind = "apply"   -> FALSE
              [] op.kind = "clear"   -> TRUE)

\* The setting the platform reaches when it has carried the operation out.
Setting(op) == IF op.kind = "apply" THEN op.proxy ELSE NoProxy

\* Run ops in order: post the inline replies and start the first platform call.  base:
\* the callbacks posted before that.
Run(ops, generation, active, settings, base) ==
  LET Asks == {i \in DOMAIN ops : NeedsPlatform(ops[i], generation, active)}
      n    == IF Asks = {} THEN Len(ops) + 1 ELSE CHOOSE i \in Asks : \A j \in Asks : i <= j
      next == IF Asks = {} THEN None ELSE ops[n]
  IN  /\ posted' = base \o [i \in 1..(n - 1) |-> InlineReply(ops[i], generation)]
      /\ current' = next
      /\ pending' = SubSeq(ops, n + 1, Len(ops))
      /\ activeOwner' = IF next # None /\ next.kind = "apply" THEN next.owner ELSE active
      /\ override' = IF next = None THEN settings ELSE settings \cup {Setting(next)}

\* enqueue; without platform support HnsProxyController answers itself.
Submit(op, generation, base) ==
  CASE ~CanOverride ->
         /\ posted' = Append(base, Reply(op, op.kind # "apply"))
         /\ UNCHANGED running
    [] CanOverride /\ current = None -> Run(<<op>>, generation, activeOwner, override, base)
    [] CanOverride /\ current # None ->
         /\ pending' = Append(pending, op)
         /\ posted' = base
         /\ UNCHANGED <<current, activeOwner, override>>

----------------------------------------------------------------------------
(***************************************************************************)
(* Claims                                                                  *)
(***************************************************************************)

\* latestGeneration once o has claimed the override
Generation(o) == IF CanOverride /\ o > latest THEN o ELSE latest

\* The owner whose onOwnershipRevoked is called when o claims the override.
Displaced(o) == IF Generation(o) > latest THEN (listening \cap {claimed}) \ {o} ELSE {}

\* The first part of acquire; the operation itself is submitted after it.
Claim(o) ==
  /\ latest' = Generation(o)
  /\ IF CanOverride /\ o = Generation(o)
     THEN claimed' = o /\ listening' = (listening \ Displaced(o)) \cup {o}
     ELSE UNCHANGED <<claimed, listening>>

Release(o) ==
  /\ claimed' = IF claimed = o THEN NoOwner ELSE claimed
  /\ listening' = listening \ {o}
  /\ UNCHANGED latest

----------------------------------------------------------------------------
(***************************************************************************)
(* The platform                                                            *)
(***************************************************************************)

\* The completion callback: only now is the setting certain.
PlatformDone ==
  /\ current # None
  /\ Run(pending, latest, IF current.kind = "apply" THEN activeOwner ELSE NoOwner,
         {Setting(current)},
         Append(posted, Reply(current, current.kind = "clear" \/ current.owner = latest)))
  /\ UNCHANGED claims

\* Mutant: a failed call is taken to have left no override.
MutantForgetsOwner ==
  /\ current # None
  /\ Run(pending, latest, NoOwner, override, Append(posted, Reply(current, FALSE)))
  /\ UNCHANGED claims

\* The call throws a RuntimeException, perhaps after it has changed the setting.
PlatformThrows ==
  /\ current # None
  /\ Run(pending, latest, activeOwner, override, Append(posted, Reply(current, FALSE)))
  /\ UNCHANGED claims
============================================================================
