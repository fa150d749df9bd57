------------------------------- MODULE Startup -------------------------------
(***************************************************************************)
(* How a librf24pp program starts (src/librf24pp/rf24-load.cpp, rf24-send,   *)
(* main, rf24-sweep, rf24-outlet-test): it reads its command line, looks    *)
(* for a dongle on the USB, boots one that is still in its bootloader, and  *)
(* configures the radio.  `pc' is the next call; a search is one look at    *)
(* the bus, and the bus may change between two looks.  What the dongle does *)
(* with the requests is in modules Dongle and LibRF24.                     *)
(***************************************************************************)
EXTENDS CommandLine

CONSTANTS
  Programs,      \* those the user may start
  CommandLines,  \* what the user may type
  Dongles,       \* by their serial numbers
  MaxUsbErrors,  \* bound: devices that can not be opened
  MaxReplugs     \* bound: dongles plugged in or out

ASSUME ProgramsAssumption == Programs \subseteq {"load", "send", "test", "outlet", "sweep"}
ASSUME BoundsAssumption == MaxUsbErrors \in Nat /\ MaxReplugs \in Nat
ASSUME DonglesAssumption == Dongles \subseteq STRING

VARIABLES
  \* the user and the machine
  program, typed, usbErrors, replugs,
  bus,      \* what each dongle is: absent, cold (in its bootloader), booting, hot
  works,    \* the dongles whose firmware comes up
  radio,    \* what each dongle was last told
  \* the program
  pc, argv, request, serial, config, dev

environment == <<program, typed, usbErrors, replugs, bus, works>>
vars == <<environment, radio, pc, argv, request, serial, config, dev>>

NoDongle == "none"
BootSerial == "USB-NRF24L01-boot"
Untold == [config |-> DefaultConfig, writePipe |-> None, readPipe |-> None, sent |-> None]
Ended == {"ready", "thrown", "aborted", "exited"}

\* rf24-load reads its own options first; main and rf24-sweep take any dongle.
First(p) == CASE p = "load" -> "own" [] p \in {"send", "outlet"} -> "adaptor" [] OTHER -> "findHot"

Init ==
  /\ program \in Programs /\ typed \in CommandLines
  /\ bus \in [Dongles -> {"absent", "cold", "hot"}] /\ works \in SUBSET Dongles
  /\ usbErrors = 0 /\ replugs = 0
  /\ radio = [d \in Dongles |-> Untold]
  /\ pc = First(program) /\ argv = typed
  /\ request = LoadRequest(<<>>) /\ serial = NoWord
  /\ config = DefaultConfig /\ dev = NoDongle

-----------------------------------------------------------------------------
(***************************************************************************)
(* The loops over the command line.                                        *)
(***************************************************************************)
\* Mutant of Found: optind is not set back, and the loop is over at once.
FoundFromOptind(table) == IF argv = typed THEN getopt_long(argv, table).found ELSE <<>>

Found(table) == getopt_long(argv, table).found
Scans(table) == argv' = getopt_long(argv, table).argv

OwnOptions ==
  /\ pc = "own" /\ program = "load"
  /\ Scans(LoadTable)
  /\ request' = LoadRequest(Found(LoadTable))
  /\ pc' = IF Given(Found(LoadTable), {"help"}) THEN "exited" ELSE "adaptor"
  /\ UNCHANGED <<environment, radio, serial, config, dev>>

fromArgs ==
  /\ pc = "adaptor"
  /\ Scans(AdaptorTable)
  /\ pc' = IF Argument(Found(AdaptorTable), "adaptor-type", Plain("libusb")) = Plain("libusb")
             THEN "serial" ELSE "thrown"
  /\ UNCHANGED <<environment, radio, request, serial, config, dev>>

AdaptorArgs ==
  /\ pc = "serial"
  /\ Scans(SerialTable)
  /\ serial' = Argument(Found(SerialTable), "adaptor-serial", NoWord)
  /\ pc' = "findHot"
  /\ UNCHANGED <<environment, radio, request, config, dev>>

-----------------------------------------------------------------------------
(***************************************************************************)
(* getDongle: one that runs, else a cold one with the serial, else any cold *)
(* one, which is booted before the search begins again.                    *)
(***************************************************************************)
SerialOf(d) == IF bus[d] = "cold" THEN BootSerial ELSE d

\* No serial matches any.
Matching(state, s) == {d \in Dongles : bus[d] = state /\ s \in {NoWord, Plain(SerialOf(d))}}

\* The first device in the list that can be opened and matches, if any.
findDevice(state, s, then, else) ==
  \E broken \in SUBSET Matching(state, s) :
    /\ usbErrors + Cardinality(broken) <= MaxUsbErrors
    /\ usbErrors' = usbErrors + Cardinality(broken)
    /\ LET found == Matching(state, s) \ broken IN
       IF found = {} THEN pc' = else /\ UNCHANGED dev
                     ELSE pc' = then /\ dev' \in found
    /\ UNCHANGED <<program, typed, replugs, bus, works, radio, argv, request, serial, config>>

\* Mutant of FindHot: any dongle that runs will do.
FindHotAny == pc = "findHot" /\ findDevice("hot", NoWord, "open", "findColdSerial")

FindHot == pc = "findHot" /\ findDevice("hot", serial, "open", "findColdSerial")
FindColdSerial == pc = "findColdSerial" /\ findDevice("cold", serial, "boot", "findCold")
FindCold == pc = "findCold" /\ findDevice("cold", NoWord, "boot", "thrown")

\* Mutant of bootDongle: the request is not sent.
bootDongleNot ==
  /\ pc = "boot"
  /\ pc' = "sleep"
  /\ UNCHANGED <<environment, radio, argv, request, serial, config, dev>>

\* One that can not be opened any more is taken for booted, without the sleep.
bootDongle ==
  /\ pc = "boot"
  /\ \/ bus[dev] = "cold"
        /\ bus' = [bus EXCEPT ![dev] = "booting"] /\ pc' = "sleep" /\ UNCHANGED usbErrors
     \/ bus[dev] = "cold" /\ usbErrors < MaxUsbErrors
        /\ usbErrors' = usbErrors + 1 /\ pc' = "findHot" /\ UNCHANGED bus
     \/ bus[dev] # "cold" /\ pc' = "findHot" /\ UNCHANGED <<bus, usbErrors>>
  /\ UNCHANGED <<program, typed, replugs, works, radio, argv, request, serial, config, dev>>

\* sleep(3), long enough for the dongle or not.
Awake ==
  /\ pc = "sleep"
  /\ pc' = "findHot"
  /\ UNCHANGED <<environment, radio, argv, request, serial, config, dev>>

Open ==
  /\ pc = "open"
  /\ \/ bus[dev] = "hot" /\ UNCHANGED usbErrors
        /\ pc' = IF program = "sweep" THEN "ready" ELSE "config"
     \/ usbErrors < MaxUsbErrors /\ usbErrors' = usbErrors + 1 /\ pc' = "thrown"
     \/ bus[dev] # "hot" /\ pc' = "thrown" /\ UNCHANGED usbErrors
  /\ UNCHANGED <<program, typed, replugs, bus, works, radio, argv, request, serial, config, dev>>

-----------------------------------------------------------------------------
(***************************************************************************)
(* setConfigFromArgs, and the calls in main after it.                      *)
(***************************************************************************)
Tell(field, value) == radio' = [radio EXCEPT ![dev][field] = value]
pipeOpen(pipe, addr) == Tell(pipe, addr)
write(data) == Tell("sent", data)

\* The exceptions leave before anything is assigned.
setConfigFromArgs ==
  /\ pc = "config"
  /\ Scans(ConfigTable)
  /\ IF OutOfRange(Found(ConfigTable))
       THEN pc' = "aborted" /\ UNCHANGED <<config, radio>>
       ELSE /\ config' = ConfigFrom(config, Found(ConfigTable))
            /\ Tell("config", config')
            /\ pc' = IF program = "outlet" THEN "outletConfig" ELSE "writePipe"
  /\ UNCHANGED <<environment, request, serial, dev>>

\* setConfig(&conf): whatever the command line asked for.
OutletConfig ==
  /\ pc = "outletConfig"
  /\ config' = [DefaultConfig EXCEPT !.channel = 13]
  /\ Tell("config", config')
  /\ pc' = "outletArgs"
  /\ UNCHANGED <<environment, argv, request, serial, dev>>

\* Without --state the byte is whatever was on the stack.
OutletArgs ==
  /\ pc = "outletArgs"
  /\ Scans(OutletTable)
  /\ LET found == Found(OutletTable)
         relay == IF Given(found, {"relay"}) THEN atoi(Latest(found, {"relay"}).arg) % 256 ELSE 16
     IN request' \in
          [relay : {relay},
           on : IF Given(found, {"state"}) THEN {atoi(Latest(found, {"state"}).arg) % 256 # 0}
                ELSE BOOLEAN]
  /\ pc' = "writePipe"
  /\ UNCHANGED <<environment, radio, serial, config, dev>>

WritePipe ==
  /\ pc = "writePipe"
  /\ pipeOpen("writePipe",
       CASE program = "load" -> request.remote
         [] program = "test" -> "b0:0b:10:ad:ed"
         [] program = "send" -> "08:5a:76:a6:09"
         [] program = "outlet" -> "08:5a:76:a6:" \o ToString(request.relay))
  /\ pc' = IF program = "load" THEN "readPipe" ELSE "send"
  /\ UNCHANGED <<environment, argv, request, serial, config, dev>>

\* Then rf24bootWaitTarget: see module Loader.
ReadPipe ==
  /\ pc = "readPipe"
  /\ pipeOpen("readPipe", request.local)
  /\ pc' = "ready"
  /\ UNCHANGED <<environment, argv, request, serial, config, dev>>

SendLine ==
  /\ pc = "send" /\ program \in {"send", "test"}
  /\ write(IF program = "send" THEN "line" ELSE "digits")
  /\ pc' = "ready"
  /\ UNCHANGED <<environment, argv, request, serial, config, dev>>

SendState ==
  /\ pc = "send" /\ program = "outlet"
  /\ Tell("sent", IF request.on THEN "on" ELSE "off")
  /\ pc' = "ready"
  /\ UNCHANGED <<environment, argv, request, serial, config, dev>>

ProgramStep ==
  \/ OwnOptions \/ fromArgs \/ AdaptorArgs
  \/ FindHot \/ FindColdSerial \/ FindCold \/ bootDongle \/ Awake \/ Open
  \/ setConfigFromArgs \/ OutletConfig \/ OutletArgs \/ WritePipe \/ ReadPipe
  \/ SendLine \/ SendState

-----------------------------------------------------------------------------
(***************************************************************************)
(* The bus.                                                                *)
(***************************************************************************)
DongleComesUp(d) ==
  /\ bus[d] = "booting"
  /\ bus' = [bus EXCEPT ![d] = IF d \in works THEN "hot" ELSE "cold"]
  /\ UNCHANGED <<program, typed, usbErrors, replugs, works, radio, pc, argv, request, serial,
                 config, dev>>

\* Nobody touches the dongles once the program has opened one.
Searching == {"own", "adaptor", "serial", "findHot", "findColdSerial", "findCold", "boot", "sleep", "open"}
Replug(d) ==
  /\ pc \in Searching /\ replugs < MaxReplugs
  /\ bus[d] # "booting"
  /\ \E state \in {"absent", "cold", "hot"} \ {bus[d]} : bus' = [bus EXCEPT ![d] = state]
  /\ replugs' = replugs + 1
  /\ UNCHANGED <<program, typed, usbErrors, works, radio, pc, argv, request, serial, config, dev>>

Stop == pc \in Ended /\ UNCHANGED vars

Next == ProgramStep \/ (\E d \in Dongles : DongleComesUp(d) \/ Replug(d)) \/ Stop

Spec == Init /\ [][Next]_vars

\* The program runs, and a dongle takes some time to come up.
FairSpec ==
  /\ Spec
  /\ WF_vars(ProgramStep)
  /\ \A d \in Dongles : WF_vars(DongleComesUp(d))

-----------------------------------------------------------------------------
(***************************************************************************)
(* Properties.                                                             *)
(***************************************************************************)
\* The command line as a reader takes it: every word says what it says, whatever
\* stands next to it.
Plainly(table) ==
  LET hits == SelectSeq(typed, LAMBDA w : IsHit(table, w))
  IN [i \in DOMAIN hits |-> Hit(hits[i].opt, Plain(hits[i].val))]

\* All options as the usage shows them, with their arguments after a `='.
AsInTheUsage ==
  \A i \in DOMAIN typed : \A table \in {LoadTable, AdaptorTable, SerialTable, ConfigTable, OutletTable} :
    ~(typed[i].opt \in table.required /\ typed[i].val = None)

\* However many loops of however many components go over argv and reorder it, each
\* finds what the user typed for it: when the radio is set up, the dongle and the
\* works are those of the command line.
CommandLineObeyed ==
  pc = "ready" /\ AsInTheUsage =>
    /\ program \in {"load", "send", "test"} => radio[dev].config = ConfigFrom(DefaultConfig, Plainly(ConfigTable))
    /\ program = "load" =>
         /\ request = LoadRequest(Plainly(LoadTable))
         /\ radio[dev].writePipe = request.remote /\ radio[dev].readPipe = request.local
    /\ program = "outlet" /\ Given(Plainly(OutletTable), {"state"}) =>
         radio[dev].sent = IF atoi(Argument(Plainly(OutletTable), "state", NoWord)) = 0 THEN "off" ELSE "on"

\* rf24libusbadaptor.cpp:499, "Use adaptor with 'blah' serial": with a serial no
\* other dongle is ever configured, however many are booted on the way.
OnlyTheDongleAsked ==
  \A d \in Dongles : radio[d] # Untold /\ program \in {"load", "send", "outlet"} /\ AsInTheUsage
      /\ Given(Plainly(SerialTable), {"adaptor-serial"}) =>
    Argument(Plainly(SerialTable), "adaptor-serial", NoWord) = Plain(d)

\* A program finds its dongle or gives up, unless a dongle never leaves its
\* bootloader: then getDongle calls itself for ever.
StartupEnds == works = Dongles ~> pc \in Ended
=============================================================================
