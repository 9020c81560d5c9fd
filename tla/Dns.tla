-------------------------------- MODULE Dns --------------------------------
(***************************************************************************)
(* DNS(...) of src/source/net/h2_dns.cpp: the entries getaddrinfo and      *)
(* gethostbyname answer from.  One list of the process holds them all, the *)
(* newest in front; an entry made while the runner knows a case is on that *)
(* case's list too and goes with it.  The case the runner knows is the     *)
(* last one that was begun, over or not, or none while they are collected. *)
(***************************************************************************)
EXTENDS Integers, Sequences, FiniteSetsExt, SequencesExt

CONSTANTS
  Case,
  Host, Length,    \* hostnames, and how long each is
  Ip,              \* the arguments that are addresses
  MaxArguments, MaxEntry  \* bounds: arguments of one DNS, entries made

Every == "*"
NoCase == "none"

ASSUME DnsAssumption ==
  /\ Length \in [Host -> Nat \ {0}] /\ Host \cap Ip = {} /\ Every \notin Host \cup Ip /\ NoCase \notin Case /\ Ip # {}
  /\ {MaxArguments, MaxEntry} \subseteq Nat /\ MaxArguments > 0

VARIABLES
  dnses,        \* h2_resolver::dnses, from the front
  known,        \* the runner's current_case
  tested,       \* whether that case is under test
  made          \* history: entries made, which is the id of the last one

dnsVars == <<dnses, known, tested, made>>

Arguments == BoundedSeq(Host \cup Ip, MaxArguments)
(* An entry; `inside`, as history, tells that its case was under test.     *)
Domain == [name : Host \cup {Every}, resolves : Arguments, owner : Case \cup {NoCase},
           inside : BOOLEAN, id : 0..MaxEntry]

(* A list without those of its members that go. *)
Without(list, gone) ==
  LET left[n \in 0..Len(list)] ==
        IF n = 0 THEN <<>> ELSE IF list[n] \in gone THEN left[n - 1] ELSE Append(left[n - 1], list[n])
  IN left[Len(list)]

(* Mutant of Hostname: the first name is not compared with the others. *)
HostnameFirst(arguments) ==
  LET names == SelectSeq(arguments, LAMBDA a : a \in Host) IN
  IF names = <<>> THEN Every ELSE names[1]

(* The hostname among the arguments: the shortest that is no address, and  *)
(* the first of those, save that one of one letter gives way to any later. *)
Hostname(arguments) ==
  LET named[n \in 0..Len(arguments)] ==
        IF n = 0 THEN Every
        ELSE LET a == arguments[n]
                 name == named[n - 1]
             IN  IF a \in Host /\ (name = Every \/ Length[name] < 2 \/ Length[a] < Length[name]) THEN a ELSE name
  IN named[Len(arguments)]

(* initialize: every name leads to this machine. *)
DnsInit ==
  /\ dnses = <<[name |-> Every, resolves |-> <<CHOOSE ip \in Ip : TRUE>>, owner |-> NoCase,
                inside |-> FALSE, id |-> 0]>>
  /\ known = NoCase /\ tested = FALSE /\ made = 0

(* Mutant of SetAddrInfo: behind the older ones. *)
SetAddrInfoBehind(arguments) ==
  LET name == Hostname(arguments) IN
  /\ made < MaxEntry /\ made' = made + 1
  /\ dnses' = Append(dnses, [name |-> name, resolves |-> Without(arguments, {name}),
                             owner |-> known, inside |-> tested, id |-> made'])
  /\ UNCHANGED <<known, tested>>

(* DNS(arguments), from a case or from the code around it. *)
SetAddrInfo(arguments) ==
  LET name == Hostname(arguments) IN
  /\ made < MaxEntry /\ made' = made + 1
  /\ dnses' = <<[name |-> name, resolves |-> Without(arguments, {name}),
                 owner |-> known, inside |-> tested, id |-> made']>> \o dnses
  /\ UNCHANGED <<known, tested>>

Begin(case) ==
  /\ ~tested /\ tested' = TRUE /\ known' = case
  /\ UNCHANGED <<dnses, made>>

(* Mutant of PostCleanup: only the entry made last goes. *)
PostCleanupLast ==
  /\ tested /\ tested' = FALSE
  /\ dnses' = IF Head(dnses).owner = known THEN Tail(dnses) ELSE dnses
  /\ UNCHANGED <<known, made>>

(* Mutant of PostCleanup: the entry for every name goes too. *)
PostCleanupAll ==
  /\ tested /\ tested' = FALSE
  /\ dnses' = <<>>
  /\ UNCHANGED <<known, made>>

(* h2_dnses::clear of the case's list. *)
PostCleanup ==
  /\ tested /\ tested' = FALSE
  /\ dnses' = Without(dnses, {d \in Range(dnses) : d.owner = known})
  /\ UNCHANGED <<known, made>>

DnsNext ==
  \/ PostCleanup
  \/ \E case \in Case : Begin(case)
  \/ \E arguments \in Arguments \ {<<>>} : SetAddrInfo(arguments)

DnsSpec == DnsInit /\ [][DnsNext]_dnsVars

(* What a lookup finds: the first entry for every name or for this one. *)
Answering(host) == {i \in DOMAIN dnses : dnses[i].name \in {Every, host}}
Find(host) == dnses[Min(Answering(host))]

---------------------------------------------------------------------------
(* Entries have their type, one is for every name and stays.               *)
DnsTypeOK ==
  /\ dnses \in Seq(Domain) /\ known \in Case \cup {NoCase} /\ tested \in BOOLEAN /\ made \in 0..MaxEntry
  /\ dnses # <<>> /\ Last(dnses).name = Every

(* A lookup is answered by what was set last for its name or for all, of   *)
(* what is still there (h2_resolver::find).                                *)
LatestAnswers ==
  \A host \in Host : \A i \in Answering(host) : dnses[i].id <= Find(host).id

(* No other case is answered by what a case set (h2_case::post_cleanup).   *)
CaseKeepsItsOwn == \A i \in DOMAIN dnses : dnses[i].inside => tested /\ dnses[i].owner = known

(* An entry is named by the shortest of the names it was made of, of which *)
(* one of a single letter does not count (h2_dns::setaddrinfo).            *)
NamedByShortest ==
  \A d \in Range(dnses) :
    LET aliases == Range(d.resolves) \cap Host IN
    /\ d.name \notin Range(d.resolves)
    /\ (\A a \in aliases : Length[a] >= 2) => \A a \in aliases : Length[d.name] <= Length[a]

(* A name resolves to the latest answer that is in force for it.           *)
NamesResolve == LatestAnswers /\ CaseKeepsItsOwn /\ NamedByShortest
===========================================================================
