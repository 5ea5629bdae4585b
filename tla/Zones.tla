-------------------------------- MODULE Zones --------------------------------
(***************************************************************************)
(* The access zones: the octet ranges of roleOctetRange, the FORWARD rules *)
(* that the hooks of the wg0.conf template install and remove              *)
(* (services/configs.service.go).                                          *)
(*                                                                         *)
(* Two machines a and b talk through wg0: peers, or a peer and a host      *)
(* outside the subnet (Internet).  wg-quick brings the interface up and    *)
(* then runs the PostUp lines one by one, so packets meet a chain that is  *)
(* half built; it removes the interface before the PostDown lines.  The    *)
(* kernel tracks the connection once its first packet was accepted, and    *)
(* keeps it over a restart of the interface.  NAT is left out.             *)
(***************************************************************************)
EXTENDS Integers, Sequences, SequencesExt

CONSTANT Machines           \* last octets of peers, and Internet

Subnet == 0 .. 255
Internet == 256

Zone(role) ==
    CASE role = "admin"         -> 2 .. 15
      [] role = "hidden_server" -> 16 .. 49
      [] role = "shared_server" -> 50 .. 99
      [] role = "employee"      -> 100 .. 149
      [] role = "gamer"         -> 150 .. 199
      [] role = "guest"         -> 200 .. 254

Servers == {"hidden_server", "shared_server"}

InZone(o, role) == o \in Zone(role)

ASSUME ZonesAssumption == Machines \subseteq (2 .. 254) \cup {Internet}

-----------------------------------------------------------------------------
\* Wrong: the rule is not limited to new connections.
DropAlways(from, to) == [from |-> from, to |-> to, new |-> FALSE, target |-> "DROP"]

Drop(from, to) == [from |-> from, to |-> to, new |-> TRUE, target |-> "DROP"]
AcceptAll == [from |-> Subnet, to |-> Subnet \cup {Internet}, new |-> FALSE,
              target |-> "ACCEPT"]

\* Wrong: nothing stops employees from reaching each other, gamers and guests.
DropsButEmployees == <<
    Drop(200 .. 254, Subnet),
    Drop(150 .. 199, 2 .. 149),
    Drop(150 .. 199, 200 .. 254),
    Drop(100 .. 149, 2 .. 49),
    Drop(16 .. 99, 2 .. 15),
    Drop(16 .. 99, 100 .. 254) >>

\* the -I lines: each goes to the head of the chain
Drops == <<
    Drop(200 .. 254, Subnet),
    Drop(150 .. 199, 2 .. 149),
    Drop(150 .. 199, 200 .. 254),
    Drop(100 .. 149, 2 .. 49),
    Drop(100 .. 149, 100 .. 254),
    Drop(16 .. 99, 2 .. 15),
    Drop(16 .. 99, 100 .. 254) >>

\* Wrong: the ACCEPT comes first.
AcceptThenDrops == <<AcceptAll>> \o Drops

PostUp == Append(Drops, AcceptAll)

\* Wrong: the ACCEPT is never removed.
PostDownKeepsAccept == Drops

\* the -D lines, in the same order
PostDown == Append(Drops, AcceptAll)

Matches(rule, s, d, isNew) ==
    s \in rule.from /\ d \in rule.to /\ (rule.new => isNew)

\* the first rule that matches decides, and the policy if none does
Verdict(rules, default, s, d, isNew) ==
    LET hits == {i \in 1 .. Len(rules) : Matches(rules[i], s, d, isNew)}
    IN  IF hits = {} THEN default
        ELSE rules[CHOOSE i \in hits : \A j \in hits : i <= j].target

-----------------------------------------------------------------------------
VARIABLES
    a, b,           \* the two machines
    policy,         \* policy of the FORWARD chain
    chain,          \* rules of the chain for packets from wg0
    phase,          \* "down", "up", "stopping"
    hook,           \* hook lines of the phase that have been run
    flow            \* the tracked connection: who opened it, to whom; or <<>>

vars == <<a, b, policy, chain, phase, hook, flow>>

Init ==
    /\ a \in Machines
    /\ b \in Machines \ {a}
    /\ policy \in {"ACCEPT", "DROP"}
    /\ chain = <<>>
    /\ phase = "down"
    /\ hook = 0
    /\ flow = <<>>

IfUp ==
    /\ phase = "down"
    /\ phase' = "up"
    /\ hook' = 0
    /\ UNCHANGED <<a, b, policy, chain, flow>>

\* Wrong: the -I lines lack --ctstate NEW, the -D lines do not.
RunPostUpAnyState ==
    /\ phase = "up"
    /\ hook < Len(PostUp)
    /\ hook' = hook + 1
    /\ chain' = IF PostUp[hook'].target = "DROP"
                THEN <<[PostUp[hook'] EXCEPT !.new = FALSE]>> \o chain
                ELSE Append(chain, PostUp[hook'])
    /\ UNCHANGED <<a, b, policy, phase, flow>>

\* the next PostUp line: -I for a DROP, -A for the ACCEPT
RunPostUp ==
    /\ phase = "up"
    /\ hook < Len(PostUp)
    /\ hook' = hook + 1
    /\ chain' = IF PostUp[hook'].target = "DROP" THEN <<PostUp[hook']>> \o chain
                                                 ELSE Append(chain, PostUp[hook'])
    /\ UNCHANGED <<a, b, policy, phase, flow>>

IfDown ==
    /\ phase = "up"
    /\ hook = Len(PostUp)
    /\ phase' = "stopping"
    /\ hook' = 0
    /\ UNCHANGED <<a, b, policy, chain, flow>>

\* the next PostDown line: -D removes the first rule equal to the one it names
RunPostDown ==
    /\ phase = "stopping"
    /\ hook < Len(PostDown)
    /\ hook' = hook + 1
    /\ chain' = LET found == {i \in 1 .. Len(chain) : chain[i] = PostDown[hook']}
                IN  IF found = {} THEN chain
                    ELSE RemoveAt(chain, CHOOSE i \in found : \A j \in found : i <= j)
    /\ UNCHANGED <<a, b, policy, phase, flow>>

IfGone ==
    /\ phase = "stopping"
    /\ hook = Len(PostDown)
    /\ phase' = "down"
    /\ hook' = 0
    /\ UNCHANGED <<a, b, policy, chain, flow>>

\* The first packet of a connection arrives from wg0 and is accepted.
Open(s, d) ==
    /\ phase = "up"
    /\ s # Internet
    /\ flow = <<>>
    /\ Verdict(chain, policy, s, d, TRUE) = "ACCEPT"
    /\ flow' = <<s, d>>
    /\ UNCHANGED <<a, b, policy, chain, phase, hook>>

\* the tracked connection ends or expires
Close ==
    /\ flow # <<>>
    /\ flow' = <<>>
    /\ UNCHANGED <<a, b, policy, chain, phase, hook>>

Next ==
    \/ IfUp \/ RunPostUp \/ IfDown \/ RunPostDown \/ IfGone
    \/ Open(a, b) \/ Open(b, a)
    \/ Close

Spec == Init /\ [][Next]_vars

-----------------------------------------------------------------------------
TypeOK ==
    /\ {a, b} \subseteq Machines
    /\ policy \in {"ACCEPT", "DROP"}
    /\ \A i \in 1 .. Len(chain) : \E j \in 1 .. Len(PostUp) : chain[i] = PostUp[j]
    /\ phase \in {"down", "up", "stopping"}
    /\ hook \in 0 .. Len(PostUp)
    /\ flow \in {<<>>, <<a, b>>, <<b, a>>}

\* The table of README.md ("Architecture & Access Zones"), by who may open a connection
\* to whom; what one server may open to another is left to HiddenOnlyByAdmins.
MayOpen(s, d) ==
    \/ InZone(s, "admin")
    \/ d = Internet
    \/ InZone(s, "employee") /\ InZone(d, "shared_server")
    \/ InZone(s, "gamer") /\ InZone(d, "gamer")
    \/ \E r \in Servers, t \in Servers : InZone(s, r) /\ InZone(d, t)

Up == phase = "up" /\ hook = Len(PostUp)

\* Once the hooks have run, a peer opens exactly the connections of the zone table,
\* whatever the policy of the chain and although the -I lines build it in reverse; once
\* PostDown has run no rule is left, so that the next start builds the same chain again.
ZonesEnforced ==
    /\ Up => \A s \in {a, b} \ {Internet} : \A d \in {a, b} \ {s} :
                 (Verdict(chain, policy, s, d, TRUE) = "ACCEPT") <=> MayOpen(s, d)
    /\ phase = "down" => chain = <<>>

\* With policy DROP no connection outside the table is ever tracked, not even while the
\* hooks are still running: the ACCEPT comes last.
FlowsRespectZones ==
    policy = "DROP" /\ flow # <<>> => MayOpen(flow[1], flow[2])

\* The rules stop new connections only: the answers of a tracked connection pass, also
\* from a zone that may not open one to the caller.
AnswersPass ==
    Up /\ flow # <<>> /\ flow[2] # Internet =>
        Verdict(chain, policy, flow[2], flow[1], FALSE) = "ACCEPT"

\* README.md: hidden servers are accessible only by admins (and by each other).
HiddenOnlyByAdmins ==
    flow # <<>> /\ InZone(flow[2], "hidden_server") /\ policy = "DROP" =>
        InZone(flow[1], "admin") \/ InZone(flow[1], "hidden_server")
=============================================================================
