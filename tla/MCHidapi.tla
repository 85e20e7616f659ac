------------------------------ MODULE MCHidapi ------------------------------
(* An instance of HidProgram for TLC. *)
EXTENDS HidProgram

TwoNodes == <<"uhid0", "uhid1">>

Page(bytes, page) == [kind |-> "page", bytes |-> bytes, page |-> page]
OneUsage(bytes, usage) == [kind |-> "usage", bytes |-> bytes, usage |-> usage]
Open(bytes) == [kind |-> "open", bytes |-> bytes]
Close == [kind |-> "close", bytes |-> <<192>>]

(* One has a collection that has more inside.                              *)
SomeBlocks == {
  <<Page(<<5, 12>>, 12)>>,
  <<Page(<<6, 160, 255>>, 65440)>>,
  <<OneUsage(<<10, 2, 1>>, 258)>>,
  <<[kind |-> "long", bytes |-> <<11, 6, 0, 1, 0>>, page |-> 1, usage |-> 6]>>,
  <<Open(<<161, 1>>), Page(<<5, 9>>, 9), Open(<<161, 0>>), Close, OneUsage(<<9, 1>>, 1), Close>>,
  <<[kind |-> "other", bytes |-> <<254, 2, 0, 161, 9>>]>>,
  <<Open(<<161, 1>>)>>, <<Close>>}

(* An interface with one top-level collection, one with two and a second   *)
(* alternate setting, one whose descriptor is cut off, and one that is not *)
(* for the HID driver.                                                     *)
Interface(alts, items) == [alts |-> alts, items |-> items, descriptor |-> BytesOf(items)]
One == Interface(<<"hid">>, <<Page(<<5, 12>>, 12), OneUsage(<<9, 4>>, 4), Open(<<161, 1>>),
                              [kind |-> "other", bytes |-> <<129, 2>>], Close>>)
Two == Interface(<<"hid", "hid">>,
                 <<Page(<<5, 12>>, 12), OneUsage(<<9, 4>>, 4), Open(<<161, 1>>), Open(<<161, 0>>), Close, Close,
                   OneUsage(<<10, 2, 1>>, 258), Open(<<161, 1>>), Close>>)
Cut == [One EXCEPT !.descriptor = <<5, 12, 9>>]
Vendor == Interface(<<"xbox360">>, <<>>)

Chopper(serial) ==
  [vid |-> ToolbitVid, pid |-> ToolbitPid, product |-> "Chopper", serial |-> serial,
   bus |-> "usb", answers |-> TRUE, interfaces |-> <<One>>]

SomeDevices == {
  Chopper("a"), Chopper(""), [Chopper("") EXCEPT !.product = "DMM1", !.answers = FALSE],
  [Chopper("b") EXCEPT !.vid = 1118, !.interfaces = <<Vendor, Two, Cut>>],
  [Chopper("a") EXCEPT !.bus = "bluetooth"]}

SomePayloads == {<<>>, <<1>>, <<0, 2>>, <<2, 1>>}
=============================================================================
