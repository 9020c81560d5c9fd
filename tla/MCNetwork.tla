----------------------------- MODULE MCNetwork -----------------------------
(***************************************************************************)
(* Sockets and names in one process.  They share no state: a behaviour     *)
(* shows the one or the other, which TLC then need not interleave.  Of     *)
(* sockets it shows many packets and one connection, with nothing sent, or *)
(* many connections and sends, with one packet at most.                    *)
(***************************************************************************)
EXTENDS Network, Dns

VARIABLE side

MCHost == {"a", "bc", "def"}
MCLength == ("a" :> 1) @@ ("bc" :> 2) @@ ("def" :> 3)

MCInit == side \in {"packets", "connections", "names"} /\ NetworkInit /\ DnsInit
NetStep ==
  /\ NetworkNext
  /\ \/ /\ side = "packets" /\ outgoing' = <<>> /\ Len(sockets') < 2
        /\ sockets' # <<>> => \A r \in waiting' : r.call # "accept"
     \/ side = "connections" /\ injected' < 2
  /\ UNCHANGED <<side, dnsVars>>
DnsStep == side = "names" /\ DnsNext /\ UNCHANGED <<side, netVars>>
MCSpec ==
  MCInit /\ [][NetStep \/ DnsStep]_<<side, netVars, dnsVars>> /\ WF_<<side, netVars, dnsVars>>(NetStep /\ PollAny)

(* Sockets and names keep their types. *)
TypesOK == NetworkTypeOK /\ DnsTypeOK
===========================================================================
