------------------------------- MODULE Nodes --------------------------------
(***************************************************************************)
(* Pairing, approving and revoking remote nodes: createPairingCode,        *)
(* claimPairingCode, approveOrRevoke and assertRemoteActionAllowed of      *)
(* src/src/orchestrator/api.ts, with the certificate authority of          *)
(* node-ca.ts and the admission check of node-wire.ts.                     *)
(*                                                                         *)
(* Node records and pairing codes are in the orchestrator file; the list   *)
(* of revoked nodes is a file of its own; the public key of a claim is     *)
(* held only in the memory of the coordinator that took the claim.  A      *)
(* locked section changes all three and can fail in between.               *)
(***************************************************************************)
EXTENDS Integers, FiniteSets

CONSTANTS
  Node,        \* remote nodes: a name stands for the one id it ever gets
  Key,         \* public keys of nodes
  NoKey,
  Process,     \* processes with an OrchestratorApi: the GUI, MCP servers
  Claimed,     \* those with the claim route: the GUI servers
  MaxCodes,    \* 8 in the code
  MaxIssued,   \* bound on pairing codes: Code == 1..MaxIssued, as given out
  MaxFailures    \* bound on failed saves and restarts

ASSUME NodesAssumption ==
  /\ NoKey \notin Key
  /\ Claimed \subseteq Process
  /\ MaxCodes \in Nat \ {0} /\ MaxIssued \in Nat
  /\ MaxFailures \in Nat

VARIABLES
  nodes,    \* the node records
  listed,   \* trust.approved_node_ids
  pending,  \* trust.pending_pairing_requests
  issued,   \* how many codes were given out (each is a new random one)
  codes,    \* trust.pairing_codes: the order is that of the numbers
  used,     \* codes with a used_at
  expired,  \* codes past their ten minutes
  held,     \* nodeClaimedKeys of each coordinator
  revoked,  \* revoked.json of the certificate authority
  cert,     \* the certificate last issued to each node, if still valid
  paired,   \* the claims each code let through (pastClaims)
  ended,    \* nodes once revoked (pastClaims)
  mixed,    \* nodes claimed at two coordinators, or in a section that was
            \* not saved (pastClaims)
  failures

nodesVars == <<nodes, listed, pending, issued, codes, used, expired, held,
               revoked, cert, paired, ended, mixed, failures>>

pastClaims == <<paired, ended, mixed>>

Code == 1..MaxIssued

NodeRecord ==
  [status : {"none", "pending_approval", "online", "offline"},
   approved : BOOLEAN, fingerprint : Key \cup {NoKey},
   credential : {"none", "valid", "expired"}]

Unknown == [status |-> "none", approved |-> FALSE, fingerprint |-> NoKey,
            credential |-> "none"]

\* A certificate binds the node to the key it was issued for; `pinned` is
\* the fingerprint of the record at that moment.
NoCert == [key |-> NoKey, pinned |-> NoKey]

NodesTypeOK ==
  /\ nodes \in [Node -> NodeRecord]
  /\ listed \subseteq Node
  /\ pending \subseteq Node
  /\ issued \in 0..MaxIssued
  /\ codes \subseteq [code : Code, node : Node]
  /\ used \subseteq Code
  /\ expired \subseteq Code
  /\ held \in [Process -> [Node -> Key \cup {NoKey}]]
  /\ revoked \subseteq Node
  /\ cert \in [Node -> [key : Key \cup {NoKey}, pinned : Key \cup {NoKey}]]
  /\ paired \in [Code -> SUBSET (Node \X Key)]
  /\ ended \subseteq Node
  /\ mixed \subseteq Node
  /\ failures \in 0..MaxFailures

NodesInit ==
  /\ nodes = [n \in Node |-> Unknown]
  /\ listed = {}
  /\ pending = {}
  /\ issued = 0
  /\ codes = {}
  /\ used = {}
  /\ expired = {}
  /\ held = [p \in Process |-> [n \in Node |-> NoKey]]
  /\ revoked = {}
  /\ cert = [n \in Node |-> NoCert]
  /\ paired = [c \in Code |-> {}]
  /\ ended = {}
  /\ mixed = {}
  /\ failures = 0

CountFailure == failures < MaxFailures /\ failures' = failures + 1

-----------------------------------------------------------------------------
InList(c) == \E k \in codes : k.code = c

LastCodes(ks) ==
  {k \in ks : Cardinality({l \in ks : l.code >= k.code}) <= MaxCodes}

\* The owner asks for a code.  Used and expired codes leave the list, and
\* so do the oldest beyond the cap.
CreateCode(c, n) ==
  /\ c = issued + 1 /\ issued' = c
  /\ codes' = LastCodes({k \in codes \cup {[code |-> c, node |-> n]} :
                           k.code \notin used \cup expired})
  /\ UNCHANGED <<nodes, listed, pending, used, expired, held, revoked, cert,
                 pastClaims, failures>>

CodeExpires(c) ==
  /\ InList(c) /\ c \notin expired
  /\ expired' = expired \cup {c}
  /\ UNCHANGED <<nodes, listed, pending, issued, codes, used, held, revoked,
                 cert, pastClaims, failures>>

\* Slip for the mutant runs: a code is not looked up among the used ones.
RedeemableAgain(c, n) ==
  /\ [code |-> c, node |-> n] \in codes
  /\ c \notin expired

\* The code is one the owner gave out, not used and not expired.
Redeemable(c, n) ==
  /\ [code |-> c, node |-> n] \in codes
  /\ c \notin used \cup expired

\* Slip: the first key stays.
HoldFirst(p, n, k) ==
  held' = [held EXCEPT ![p][n] = IF @ = NoKey THEN k ELSE @]

\* The key is remembered by the coordinator before the section is saved.
Hold(p, n, k) == held' = [held EXCEPT ![p][n] = k]

Elsewhere(p, n) == \E q \in Process \ {p} : held[q][n] # NoKey

Mix(p, n) == mixed' = IF Elsewhere(p, n) THEN mixed \cup {n} ELSE mixed

\* A claim pins the key to the record with the code's name.  A record that
\* exists keeps its status, its approval and its credential.  A refused
\* claim, and one whose key does not parse, change nothing.
Claim(p, c, n, k) ==
  /\ p \in Claimed
  /\ Redeemable(c, n)
  /\ used' = used \cup {c}
  /\ nodes' = [nodes EXCEPT
       ![n].fingerprint = k,
       ![n].status = IF @ = "none" THEN "pending_approval" ELSE @]
  /\ pending' = pending \cup {n}
  /\ Hold(p, n, k)
  /\ paired' = [paired EXCEPT ![c] = @ \cup {<<n, k>>}]
  /\ Mix(p, n)
  /\ UNCHANGED <<listed, issued, codes, expired, revoked, cert, ended,
                 failures>>

ClaimNotSaved(p, c, n, k) ==
  /\ p \in Claimed
  /\ Redeemable(c, n)
  /\ CountFailure
  /\ Hold(p, n, k)
  /\ mixed' = mixed \cup {n}
  /\ UNCHANGED <<nodes, listed, pending, issued, codes, used, expired,
                 revoked, cert, paired, ended>>

-----------------------------------------------------------------------------
\* A pinned node is approved by the coordinator that holds its key; in any
\* other the certificate cannot be issued and the section is not saved.
Approve(p, n) ==
  LET key == nodes[n].fingerprint
  IN  /\ nodes[n].status # "none"
      /\ key # NoKey => held[p][n] # NoKey
      /\ nodes' = [nodes EXCEPT
           ![n].status = "online", ![n].approved = TRUE,
           ![n].credential = IF key = NoKey THEN @ ELSE "valid"]
      /\ listed' = listed \cup {n}
      /\ pending' = pending \ {n}
      /\ cert' = IF key = NoKey THEN cert
                 ELSE [cert EXCEPT ![n] = [key |-> held[p][n], pinned |-> key]]
      /\ UNCHANGED <<issued, codes, used, expired, held, revoked,
                     pastClaims, failures>>

\* Slip: the authority is not told.
RevokeInRecord(n) ==
  /\ nodes[n].status # "none"
  /\ nodes' = [nodes EXCEPT ![n] =
       [Unknown EXCEPT !.status = "offline"]]
  /\ listed' = listed \ {n}
  /\ ended' = ended \cup {n}
  /\ UNCHANGED <<pending, issued, codes, used, expired, held, revoked, cert,
                 paired, mixed, failures>>

\* The authority's list is written first, then the record.  A pairing
\* request stays pending.  This build creates no agents on remote nodes.
Revoke(n) ==
  /\ nodes[n].status # "none"
  /\ revoked' = revoked \cup {n}
  /\ nodes' = [nodes EXCEPT ![n] = [Unknown EXCEPT !.status = "offline"]]
  /\ listed' = listed \ {n}
  /\ ended' = ended \cup {n}
  /\ UNCHANGED <<pending, issued, codes, used, expired, held, cert, paired,
                 mixed, failures>>

RevokeNotSaved(n) ==
  /\ nodes[n].status # "none"
  /\ CountFailure
  /\ revoked' = revoked \cup {n}
  /\ ended' = ended \cup {n}
  /\ UNCHANGED <<nodes, listed, pending, issued, codes, used, expired, held,
                 cert, paired, mixed>>

\* Twelve hours, or one, after the approval.
CredentialExpires(n) ==
  /\ nodes[n].credential = "valid" \/ cert[n] # NoCert
  /\ nodes' = [nodes EXCEPT ![n].credential =
                 IF @ = "valid" THEN "expired" ELSE @]
  /\ cert' = [cert EXCEPT ![n] = NoCert]
  /\ UNCHANGED <<listed, pending, issued, codes, used, expired, held,
                 revoked, pastClaims, failures>>

Restart(p) ==
  /\ CountFailure
  /\ held[p] # [n \in Node |-> NoKey]
  /\ held' = [held EXCEPT ![p] = [n \in Node |-> NoKey]]
  /\ UNCHANGED <<nodes, listed, pending, issued, codes, used, expired,
                 revoked, cert, pastClaims>>

-----------------------------------------------------------------------------
NodesNext ==
  \/ \E c \in Code, n \in Node : CreateCode(c, n)
  \/ \E c \in Code : CodeExpires(c)
  \/ \E p \in Process, c \in Code, n \in Node, k \in Key :
       Claim(p, c, n, k) \/ ClaimNotSaved(p, c, n, k)
  \/ \E p \in Process, n \in Node : Approve(p, n)
  \/ \E n \in Node : Revoke(n) \/ RevokeNotSaved(n) \/ CredentialExpires(n)
  \/ \E p \in Process : Restart(p)

NodesSpec == NodesInit /\ [][NodesNext]_nodesVars

-----------------------------------------------------------------------------
\* The three checks of an authentication.
InDate(n) == cert[n] # NoCert

SignedWith(n, k) == cert[n].key = k

IsRevoked(n) == n \in revoked

\* verifyCoordinatorAuth for a node that signs with key k.
Admitted(n, k) == InDate(n) /\ SignedWith(n, k) /\ ~IsRevoked(n)

\* assertRemoteActionAllowed, but for the grants of the record, which no
\* operation adds to.
Allowed(n) ==
  /\ nodes[n].approved
  /\ n \in listed
  /\ nodes[n].status # "offline"
  /\ nodes[n].credential = "valid"
  /\ ~IsRevoked(n)

\* A pairing code lets one claim through, whatever was saved in between.
CodePairsOnce == \A c \in Code : Cardinality(paired[c]) <= 1

\* Together with the types of the codes.
CodesSound == NodesTypeOK /\ CodePairsOnce

\* A node whose revocation has begun is never again allowed an action or
\* admitted, whether or not the record was saved, and whatever is claimed
\* and approved afterwards.
RevokedStaysOut ==
  \A n \in ended : ~Allowed(n) /\ \A k \in Key : ~Admitted(n, k)

\* A certificate is for the key the record pins when it is issued, as long
\* as the claims of a node are saved and made at one coordinator.
CertifiesPinned ==
  \A n \in Node \ mixed : cert[n].key = cert[n].pinned

\* The three places that say a node is trusted agree: the record's
\* approval, the approved list and the credential.
TrustAgrees ==
  \A n \in Node :
    /\ nodes[n].approved <=> n \in listed
    /\ nodes[n].approved <=> nodes[n].status = "online"
    /\ nodes[n].credential # "none" => nodes[n].approved

\* Together: what is pinned, certified and approved fits.
TrustSound == CertifiesPinned /\ TrustAgrees
=============================================================================
