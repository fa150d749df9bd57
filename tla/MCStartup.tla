------------------------------ MODULE MCStartup ------------------------------
(***************************************************************************)
(* Command lines for the model checker: as the usage shows them, with       *)
(* words in between, with arguments as words of their own, and wrong ones.  *)
(***************************************************************************)
EXTENDS Startup

Flag(opt) == Word(opt, None)

Flashes == << Word("part", "flash"), Word("channel", "40"), Word("file", "fw"), Flag("write"),
              Flag("pa-low"), Word("adaptor-serial", "A"), Flag("run") >>
Repeats == << Word("channel", "13"), Plain("stray"), Flag("rate-1m"), Flag("verify"),
              Word("adaptor-type", "libusb"), Word("channel", "300"), Word("relay", "3"),
              Word("remote-addr", "01:02:03:04:05"), Plain("5"), Word("state", "1"),
              Flag("noverify"), Flag("disable-aa"), Word("num-retries", "15") >>
Apart   == << Flag("adaptor-serial"), Plain("B"), Flag("relay"), Plain("3"), Flag("state"),
              Plain("1"), Flag("part"), Plain("flash"), Flag("channel"), Plain("40"),
              Flag("-r"), Flag("write") >>
Helps   == << Word("part", "flash"), Flag("help") >>
NoBackEnd == << Word("adaptor-type", "serial"), Word("channel", "40") >>
TooLong == << Word("payload-size", "33"), Word("adaptor-serial", "A") >>

UserTypes == {<<>>, Flashes, Repeats, Apart, Helps, NoBackEnd, TooLong}
=============================================================================
