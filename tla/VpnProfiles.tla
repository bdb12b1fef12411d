----------------------------- MODULE VpnProfiles -----------------------------
(***************************************************************************)
(* The OpenVPN profiles of the gateways: services/vpn-pki makes the        *)
(* certification authority when it first starts, issues one profile per    *)
(* gateway and revokes it; platform-api                                    *)
(* (internal/handler/gateway_connectivity.go) calls it and then notes the  *)
(* outcome in tenant_gateways.  Everything vpn-pki knows is in files.      *)
(*                                                                         *)
(* A certificate is its serial number, and 0 stands for no certificate.    *)
(* An .ovpn file is the certificate in it: an empty one is never served    *)
(* and counts as none.                                                     *)
(***************************************************************************)
EXTENDS Integers, FiniteSets

CONSTANTS
    CommonName,    \* the ids of the gateways
    Call,          \* the requests of the run
    NoName,
    MaxVpnFaults,  \* bound: commands, writes and calls that fail
    MaxRestarts    \* bound: restarts of vpn-pki

ASSUME VpnAssumption ==
    NoName \notin CommonName /\ MaxVpnFaults \in Nat /\ MaxRestarts \in Nat

VARIABLES
    ca,         \* how many of the authority's files are there
    server,     \* "down", "init" (EnsureCA is at work) or "up"
    keyed,      \* the gateways with a private key
    issued,     \* pki/issued: the certificate of each gateway
    last,       \* the newest serial number
    revoked,    \* the certificates the index calls revoked
    crl,        \* the certificates in the revocation list
    profile,    \* the .ovpn file of each gateway
    column,     \* tenant_gateways: what the vpn_cert columns say of each gateway
    at, kind, cn, \* where each request is, what it does, and for which gateway
    got,        \* the certificate the request has in hand
    cutShort,   \* history: EnsureCA was cut short
    mixed,      \* history: the gateways with opposite requests at once, or a fault in one
    vpnFaults, restarts

vpnCall == <<at, kind, cn, got>>
files == <<keyed, issued, last, revoked, crl, profile>>
vpnVars == <<ca, server, files, column, vpnCall, cutShort, mixed, vpnFaults, restarts>>

(* ca.crt, the server's certificate, the Diffie-Hellman parameters, ta.key *)
Whole == 4

AtPlatform == {"mark"}
AtPki == {"lookup", "build", "sign", "render", "write", "revoke", "gencrl", "remove"}
Working == AtPlatform \cup AtPki
Columns == {"none", "issued", "revoked"}

VpnInit ==
    /\ ca = 0 /\ server = "down"
    /\ keyed = {} /\ issued = [g \in CommonName |-> 0] /\ last = 0
    /\ revoked = {} /\ crl = {} /\ profile = [g \in CommonName |-> 0]
    /\ column = [g \in CommonName |-> "none"]
    /\ at = [c \in Call |-> "idle"] /\ kind = [c \in Call |-> "issue"]
    /\ cn = [c \in Call |-> NoName] /\ got = [c \in Call |-> 0]
    /\ cutShort = FALSE /\ mixed = {} /\ vpnFaults = 0 /\ restarts = 0

VpnFault == vpnFaults < MaxVpnFaults /\ vpnFaults' = vpnFaults + 1

-----------------------------------------------------------------------------
(* The authority *)

(* EnsureCA begins: a ca.crt is taken for a whole authority.               *)
Boot ==
    /\ server = "down"
    /\ server' = IF ca >= 1 THEN "up" ELSE "init"
    /\ UNCHANGED <<ca, files, column, vpnCall, cutShort, mixed, vpnFaults, restarts>>

(* The next command of EnsureCA; the service ends when one fails.          *)
Make ==
    /\ server = "init"
    /\ \/ /\ ca' = ca + 1 /\ server' = IF ca' = Whole THEN "up" ELSE "init"
          /\ UNCHANGED <<cutShort, vpnFaults>>
       \/ /\ VpnFault /\ server' = "down" /\ cutShort' = TRUE /\ UNCHANGED ca
    /\ UNCHANGED <<files, column, vpnCall, mixed, restarts>>

(* vpn-pki restarts: the calls it was serving fail at platform-api.        *)
Restart ==
    /\ server # "down" /\ restarts < MaxRestarts /\ restarts' = restarts + 1
    /\ server' = "down"
    /\ cutShort' = (cutShort \/ server = "init")
    /\ at' = [c \in Call |-> IF at[c] \in AtPki THEN "refused" ELSE at[c]]
    /\ mixed' = mixed \cup {cn[c] : c \in {d \in Call : at[d] \in AtPki}}
    /\ UNCHANGED <<ca, files, column, kind, cn, got, vpnFaults>>

-----------------------------------------------------------------------------
(* Requests *)

Reach(c, to) == at' = [at EXCEPT ![c] = to]

Hold(c, s) == got' = [got EXCEPT ![c] = s]

(* POST or DELETE .../vpn/profile of a gateway of the caller's tenant.     *)
Ask(c) ==
    /\ at[c] = "idle" /\ server = "up"
    /\ \E k \in {"issue", "revoke"}, g \in CommonName :
         /\ Reach(c, IF k = "issue" THEN "lookup" ELSE "revoke")
         /\ kind' = [kind EXCEPT ![c] = k]
         /\ cn' = [cn EXCEPT ![c] = g]
         /\ mixed' = IF \E d \in Call : at[d] \in Working /\ cn[d] = g /\ kind[d] # k
                     THEN mixed \cup {g} ELSE mixed
    /\ UNCHANGED <<ca, server, files, column, got, cutShort, vpnFaults, restarts>>

(* What a step of vpn-pki leaves alone.                                    *)
OtherThanFiles == UNCHANGED <<ca, server, column, kind, cn, cutShort, restarts>>

Smoothly == UNCHANGED <<mixed, vpnFaults>>

(* A command or a write of c fails, and the request with it.               *)
Breaks(c) == VpnFault /\ mixed' = mixed \cup {cn[c]} /\ Reach(c, "refused")

(* IssueClient serves the profile it has already.                          *)
LookUp(c) ==
    /\ at[c] = "lookup"
    /\ Reach(c, IF profile[cn[c]] # 0 THEN "mark" ELSE "build")
    /\ Hold(c, profile[cn[c]])
    /\ OtherThanFiles /\ Smoothly /\ UNCHANGED files

(* build-client-full refuses a name that has a key or a certificate, and   *)
(* makes the key first.                                                    *)
Build(c) ==
    LET g == cn[c] IN
    /\ at[c] = "build"
    /\ \/ /\ g \notin keyed /\ issued[g] = 0
          /\ keyed' = keyed \cup {g}
          /\ Reach(c, "sign") /\ Smoothly
       \/ /\ g \in keyed \/ issued[g] # 0
          /\ Reach(c, "refused") /\ Smoothly /\ UNCHANGED keyed
       \/ Breaks(c) /\ keyed' \in {keyed, keyed \cup {g}}
    /\ OtherThanFiles /\ UNCHANGED <<issued, last, revoked, crl, profile, got>>

(* build-client-full signs the certificate.                                *)
Sign(c) ==
    /\ at[c] = "sign"
    /\ \/ /\ issued' = [issued EXCEPT ![cn[c]] = last + 1]
          /\ last' = last + 1
          /\ Reach(c, "render") /\ Smoothly
       \/ Breaks(c) /\ UNCHANGED <<issued, last>>
    /\ OtherThanFiles /\ UNCHANGED <<keyed, revoked, crl, profile, got>>

(* renderClientProfile reads the authority's files and the certificate.    *)
Render(c) ==
    /\ at[c] = "render"
    /\ Reach(c, IF ca = Whole /\ issued[cn[c]] # 0 THEN "write" ELSE "refused")
    /\ Hold(c, issued[cn[c]])
    /\ OtherThanFiles /\ Smoothly /\ UNCHANGED files

WriteProfile(c) ==
    /\ at[c] = "write"
    /\ \/ Reach(c, "mark") /\ profile' = [profile EXCEPT ![cn[c]] = got[c]] /\ Smoothly
       \/ Breaks(c) /\ UNCHANGED profile
    /\ OtherThanFiles /\ UNCHANGED <<keyed, issued, last, revoked, crl, got>>

(* Mutant: the key stays when the certificate is revoked.                  *)
RevokeCertificate(c) ==
    LET g == cn[c] IN
    /\ at[c] = "revoke"
    /\ Hold(c, issued[g])
    /\ Reach(c, IF issued[g] = 0 THEN "refused" ELSE "gencrl")
    /\ revoked' = revoked \cup ({issued[g]} \ {0})
    /\ issued' = [issued EXCEPT ![g] = 0]
    /\ OtherThanFiles /\ Smoothly /\ UNCHANGED <<keyed, last, crl, profile>>

(* revoke: the certificate and the key move away, the index calls the      *)
(* certificate revoked.                                                    *)
Revoke(c) ==
    LET g == cn[c] IN
    /\ at[c] = "revoke"
    /\ Hold(c, issued[g])
    /\ \/ /\ issued[g] # 0
          /\ revoked' = revoked \cup {issued[g]}
          /\ issued' = [issued EXCEPT ![g] = 0] /\ keyed' = keyed \ {g}
          /\ Reach(c, "gencrl") /\ Smoothly
       \/ /\ issued[g] = 0 /\ Reach(c, "refused") /\ Smoothly
          /\ UNCHANGED <<revoked, issued, keyed>>
       \/ Breaks(c) /\ UNCHANGED <<revoked, issued, keyed>>
    /\ OtherThanFiles /\ UNCHANGED <<last, crl, profile>>

(* gen-crl lists all that is revoked.                                      *)
GenCrl(c) ==
    /\ at[c] = "gencrl"
    /\ \/ Reach(c, "remove") /\ crl' = revoked /\ Smoothly
       \/ Breaks(c) /\ UNCHANGED crl
    /\ OtherThanFiles /\ UNCHANGED <<keyed, issued, last, revoked, profile, got>>

(* Whether the .ovpn file could be removed is not looked at.               *)
RemoveProfile(c) ==
    /\ at[c] = "remove"
    /\ Reach(c, "mark")
    /\ \/ profile' = [profile EXCEPT ![cn[c]] = 0] /\ Smoothly
       \/ VpnFault /\ mixed' = mixed \cup {cn[c]} /\ UNCHANGED profile
    /\ OtherThanFiles /\ UNCHANGED <<keyed, issued, last, revoked, crl, got>>

(* platform-api has the answer and notes it; a failure to note it is not   *)
(* looked at.  Or the answer does not reach it within the minute it waits. *)
Mark(c) ==
    /\ at[c] = "mark"
    /\ \/ /\ column' = [column EXCEPT ![cn[c]] = IF kind[c] = "issue" THEN "issued" ELSE "revoked"]
          /\ Reach(c, "done") /\ Smoothly
       \/ /\ VpnFault /\ mixed' = mixed \cup {cn[c]}
          /\ at' \in {[at EXCEPT ![c] = "done"], [at EXCEPT ![c] = "refused"]}
          /\ UNCHANGED column
    /\ UNCHANGED <<ca, server, files, kind, cn, got, cutShort, restarts>>

VpnNext ==
    \/ Boot \/ Make \/ Restart
    \/ \E c \in Call :
         \/ Ask(c) \/ LookUp(c) \/ Build(c) \/ Sign(c) \/ Render(c) \/ WriteProfile(c)
         \/ Revoke(c) \/ GenCrl(c) \/ RemoveProfile(c) \/ Mark(c)

VpnSpec == VpnInit /\ [][VpnNext]_vpnVars

-----------------------------------------------------------------------------
(* Properties *)

VpnTypeOK ==
    /\ ca \in 0..Whole /\ server \in {"down", "init", "up"}
    /\ keyed \subseteq CommonName /\ last \in Nat
    /\ issued \in [CommonName -> 0..last] /\ profile \in [CommonName -> 0..last]
    /\ revoked \subseteq 1..last /\ crl \subseteq revoked
    /\ column \in [CommonName -> Columns]
    /\ at \in [Call -> Working \cup {"idle", "done", "refused"}]
    /\ kind \in [Call -> {"issue", "revoke"}]
    /\ cn \in [Call -> CommonName \cup {NoName}] /\ got \in [Call -> 0..last]
    /\ cutShort \in BOOLEAN /\ mixed \subseteq CommonName
    /\ vpnFaults \in 0..MaxVpnFaults /\ restarts \in 0..MaxRestarts

Quiet(g) == g \notin mixed /\ \A c \in Call : at[c] \in Working => cn[c] # g

(* Between requests the records of a gateway belong together: the profile  *)
(* that is served holds the certificate in force and never a revoked one,  *)
(* a gateway without a profile has no key left that would make the next    *)
(* issue fail, what tenant_gateways says (vpnProfileAvailable) is so, and  *)
(* the certificates of the answered revocations are listed - unless        *)
(* opposite requests met, one of them failed, or the authority was left    *)
(* unfinished.                                                             *)
ProfileInForce ==
    \A g \in CommonName : Quiet(g) /\ ~cutShort =>
      /\ profile[g] = issued[g]
      /\ g \in keyed <=> issued[g] # 0
      /\ column[g] = "issued" <=> profile[g] # 0
      /\ \A c \in Call : cn[c] = g /\ kind[c] = "revoke" /\ at[c] = "done" => got[c] \in crl
=============================================================================
