----------------------------- MODULE MCUserland -----------------------------
(***************************************************************************)
(* The drivers and the daemons on small instances.  They share no state: a *)
(* behaviour runs one of them, chosen at the start; the log daemon runs    *)
(* together with the console it prints to, which then gets no keys.        *)
(***************************************************************************)
EXTENDS NetworkCards, DiskStack, Ps2Keyboard, Rtc, ServiceDaemon, Syslog

VARIABLE program

MCVars == <<program, ne2kVars, rtlVars, diskVars, ps2Vars, rtcVars, serviceVars, consoleVars,
            syslogVars>>

MCConfigs == {[mode |-> m, hours |-> h] : m \in {"Binary", "Bcd"}, h \in {12, 24}}

R(n) == [op |-> "register", name |-> n, oneshot |-> FALSE]

(* Four services of startup_services.json, in an order of their own.  The  *)
(* example of the model waits for services itself, registers as a oneshot  *)
(* and exits.                                                              *)
MCDefinitions ==
    << [name |-> "netd",       requires |-> {},       executable |-> "netd"],
       [name |-> "driver_pci", requires |-> {},       executable |-> "driver_pci"],
       [name |-> "example",    requires |-> {"netd"}, executable |-> "example"],
       [name |-> "consoled",   requires |-> {},       executable |-> "consoled"] >>

MCPrograms ==
    [consoled   |-> <<R("consoled")>>,
     driver_pci |-> <<R("driver_pci"), [op |-> "spawn", executable |-> "ne2k"],
                      [op |-> "spawn", executable |-> "rtl8139"]>>,
     ne2k       |-> <<R("exclude/nic"), R("driver_ne2k")>>,
     rtl8139    |-> <<R("exclude/nic"), R("driver_rtl8139")>>,
     netd       |-> <<[op |-> "any", names |-> {"driver_ne2k", "driver_rtl8139"}], R("netd")>>,
     example    |-> <<[op |-> "all", names |-> {"consoled", "driver_pci"}],
                      [op |-> "register", name |-> "example", oneshot |-> TRUE], [op |-> "exit"]>>]

Press(k) == [symbol |-> k, release |-> FALSE]

MCKeyEvents == {Press("LeftCtrl"), [symbol |-> "LeftCtrl", release |-> TRUE], Press("1"), Press("0"),
                Press("Acute"), Press("Enter"), Press("Backspace")}
MCModifiers == {"LeftCtrl", "LeftShift"}
MCMapping ==
    (<<{}, "1">> :> [act |-> "text", text |-> <<"1">>])
    @@ (<<{}, "Acute">> :> [act |-> "buffer", text |-> <<"'">>])
    @@ (<<{}, "0">> :> [act |-> "remap", to |-> "1"])
MCNumberOf == "0" :> 0 @@ "1" :> 1
MCTexts == {<<"a", "b", "c">>, <<"nl", "d", "cr", "nl">>}
MCRecords == {<<"x", "nl">>, <<"y", "nl", "z", "nl">>, <<"l", "o", "n", "g", "nl">>}

MCInit ==
    /\ program \in {"ne2k", "rtl8139", "disk", "ps2", "rtc", "services", "console", "syslog"}
    /\ Ne2kInit /\ RtlInit /\ DiskInit /\ Ps2Init /\ RtcInit
    /\ ServicesInit /\ ConsoleInit /\ SyslogInit
    /\ program # "disk" => drive = [s \in Sectors |-> [i \in 1..SECTOR_SIZE |-> 0]]
    /\ program # "rtc" => config.mode = "Binary" /\ config.hours = 24 /\ hour = 0

Others(p) ==
    /\ program = p /\ UNCHANGED program
    /\ p # "ne2k" => UNCHANGED ne2kVars
    /\ p # "rtl8139" => UNCHANGED rtlVars
    /\ p # "disk" => UNCHANGED diskVars
    /\ p # "ps2" => UNCHANGED ps2Vars
    /\ p # "rtc" => UNCHANGED rtcVars
    /\ p # "services" => UNCHANGED serviceVars
    /\ p # "console" /\ p # "syslog" => UNCHANGED consoleVars
    /\ p # "syslog" => UNCHANGED syslogVars

MCNext ==
    \/ Others("ne2k") /\ Ne2kNext
    \/ Others("rtl8139") /\ RtlNext
    \/ Others("disk") /\ DiskNext
    \/ Others("ps2") /\ Ps2Next
    \/ Others("rtc") /\ RtcNext
    \/ Others("services") /\ ServicesNext
    \/ Others("console") /\ ConsoleNext /\ Len(keyboard') <= 2
    \/ Others("syslog") /\ SyslogNext /\ key_count' = 0 /\ print_count' <= 1

MCSpec ==
    /\ MCInit /\ [][MCNext]_MCVars
    /\ WF_MCVars(Others("ne2k") /\ Ne2kDriver)
    /\ WF_MCVars(Others("rtl8139") /\ RtlDriver)
    /\ WF_MCVars(Others("rtl8139") /\ card_transmit)
    /\ WF_MCVars(Others("ps2") /\ Ps2Driver)
    /\ WF_MCVars(Others("rtc") /\ RtcReader)
    /\ WF_MCVars(Others("rtc") /\ clock_write)
    /\ WF_MCVars(Others("services") /\ ServiceStep)
    /\ WF_MCVars(Others("services") /\ ProcessCalls)
    /\ WF_MCVars(Others("syslog") /\ SyslogStep)
    /\ WF_MCVars(Others("syslog") /\ ConsoleStep /\ UNCHANGED syslogVars)
----------------------------------------------------------------------------
=============================================================================
