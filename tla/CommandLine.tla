----------------------------- MODULE CommandLine -----------------------------
(***************************************************************************)
(* What a scan is started with: the options, or what is entered at the      *)
(* prompts (main.c), the adapter, and the addresses that requests are sent  *)
(* from (deviceHandler.c, as built on Linux).                               *)
(*                                                                         *)
(* An argument is a record of its text and of the number that the whole     *)
(* text is, or Absent; a target's number tells whether checkIP accepts it.  *)
(* A system is the sequence of its interfaces with their IPv4 addresses, as *)
(* pcap_findalldevs and getifaddrs list them.                               *)
(***************************************************************************)
EXTENDS Integers, Sequences, SequencesExt

CONSTANT Absent  \* an option, a number, an adapter or an address that there is not

Modes == {"local", "remote", "topology"}

Valued == {"--interface", "--mode", "--target", "--duration"}

\* The options as main initialises them, and what the loop is to do next.
NoOptions(argv) ==
  [interactive |-> argv = <<>>, listInterfaces |-> FALSE, interface |-> Absent,
   mode |-> Absent, target |-> Absent, duration |-> Absent,
   pending |-> Absent, outcome |-> "scan"]

\* An argument where an option is expected.
TakeOption(options, option) ==
  CASE option = "--help"            -> [options EXCEPT !.outcome = "help"]
    [] option = "--interactive"     -> [options EXCEPT !.interactive = TRUE]
    [] option = "--list-interfaces" -> [options EXCEPT !.listInterfaces = TRUE]
    [] option \in Valued            -> [options EXCEPT !.pending = option]
    [] OTHER                        -> [options EXCEPT !.outcome = "usage"]

\* The argument behind such an option, whatever it looks like.
TakeValue(options, value) ==
  LET taken  == [options EXCEPT !.pending = Absent]
      failed == [options EXCEPT !.outcome = "usage"]
  IN  CASE options.pending = "--interface" -> [taken EXCEPT !.interface = value]
        [] options.pending = "--target"    -> [taken EXCEPT !.target = value]
        [] options.pending = "--mode" ->
             IF value.text \in Modes THEN [taken EXCEPT !.mode = value.text]
             ELSE failed
        [] options.pending = "--duration" ->
             IF value.number # Absent /\ value.number > 0
             THEN [taken EXCEPT !.duration = value.number] ELSE failed

\* The loop over argv, which returns at once from help and from an error.
TakeArgument(options, argument) ==
  IF options.outcome # "scan" THEN options
  ELSE IF options.pending = Absent THEN TakeOption(options, argument.text)
  ELSE TakeValue(options, argument)

Options(argv) == FoldLeft(TakeArgument, NoOptions(argv), argv)

\* What has to be given when nothing will be asked.
Incomplete(options) ==
  /\ ~options.interactive /\ ~options.listInterfaces
  /\ \/ options.interface = Absent
     \/ options.mode = Absent
     \/ options.mode = "remote" /\ options.target = Absent

\* obtainDeviceList: isRealEthernetInterface leaves out the others.
Filter(adapters, interface) ==
  IF interface.real THEN Append(adapters, interface) ELSE adapters

Adapters(system) == FoldLeft(Filter, <<>>, system)

\* resolveInterfaceIndex; a number is never a name.
ResolveInterfaceIndex(adapters, value) ==
  LET named == {i \in DOMAIN adapters : adapters[i].name = value.text} IN
  IF value.number # Absent
  THEN IF value.number \in DOMAIN adapters THEN value.number ELSE Absent
  ELSE IF named = {} THEN Absent ELSE Min(named)

\* inum, by the option or as entered.
AdapterNumber(options, adapters, entered) ==
  IF options.interface # Absent
  THEN ResolveInterfaceIndex(adapters, options.interface)
  ELSE IF entered.interface \in DOMAIN adapters THEN entered.interface ELSE Absent

\* Mutant of OwnIp: the adapter's first address.
FirstIp(adapter) ==
  IF adapter.addresses = <<>> THEN Absent ELSE Head(adapter.addresses)

\* getIP_SUB: each address of the adapter overwrites the one before.
OwnIp(adapter) ==
  IF adapter.addresses = <<>> THEN Absent ELSE Last(adapter.addresses)

\* getMAC: the first interface of the whole system that has this address.
OwnMac(system, ip) ==
  LET with == {i \in DOMAIN system : Contains(system[i].addresses, ip)}
  IN  IF with = {} THEN Absent ELSE system[Min(with)].mac

\* How far main gets, and the scan it begins.
Started(argv, system, entered) ==
  LET options  == Options(argv)
      adapters == Adapters(system)
      adapter  == AdapterNumber(options, adapters, entered)
      mode     == IF options.mode # Absent THEN options.mode ELSE entered.mode
      accepted == IF options.target # Absent THEN options.target.number # Absent
                  ELSE entered.target
      ownIp    == OwnIp(adapters[adapter])
      stopped(outcome) == [outcome |-> outcome]
  IN  IF options.outcome # "scan" THEN stopped(options.outcome)
      ELSE IF options.pending # Absent \/ Incomplete(options) THEN stopped("usage")
      ELSE IF adapters = <<>> THEN stopped("none")
      ELSE IF options.listInterfaces THEN stopped("listed")
      ELSE IF adapter = Absent THEN stopped("adapter")
      ELSE IF mode \notin Modes THEN stopped("mode")
      ELSE IF mode = "remote" /\ ~accepted THEN stopped("target")
      ELSE [outcome |-> "scan", adapter |-> adapters[adapter].name, mode |-> mode,
            duration |-> IF options.duration = Absent THEN 0 ELSE options.duration,
            ownIp |-> ownIp, ownMac |-> OwnMac(system, ownIp)]

=============================================================================
