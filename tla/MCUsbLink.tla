----------------------------- MODULE MCUsbLink -----------------------------
(* Model checking of UsbLink with two devices.                             *)
EXTENDS UsbLink

CONSTANTS modem, other  \* the devices

Alt(d, config, n, alt, vendor, bulk) ==
  [dev |-> d, config |-> config, number |-> n, alt |-> alt, vendor |-> vendor, bulk |-> bulk]

\* Interface 1 is the network interface, 2 the GPS port, 3 the AT port; 4 has
\* its bulk pair only in an alternate setting, 5 only in another configuration.
\* The other device has one vendor interface.
MCAltSettings ==
  { Alt(modem, 1, 1, 0, FALSE, {"in", "out"}), Alt(modem, 1, 2, 0, TRUE, {"in", "out"}),
    Alt(modem, 1, 3, 0, TRUE, {"in", "out"}), Alt(modem, 1, 4, 0, TRUE, {"in"}),
    Alt(modem, 1, 4, 1, TRUE, {"in", "out"}), Alt(modem, 2, 5, 0, TRUE, {"in", "out"}),
    Alt(other, 1, 0, 0, TRUE, {"in", "out"}) }

\* Probe, the AT port, an interface without endpoints in its first setting.
MCInterfaces == {-1, 3, 4}

\* Noise, an answer in one packet, and one cut in two.
MCChunks == {<<"other">>, <<"O">>, <<"K">>, <<"other", "O", "K">>}
=============================================================================
