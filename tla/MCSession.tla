-------------------------------- MODULE MCSession --------------------------------
(* A small world for WebSession: two devices of one product, one of them without *)
(* a serial number, on two paths.                                             *)
EXTENDS WebSession, TLC

Device(pid, serial, usages, numbered) ==
  [vid |-> 1, pid |-> pid, serial |-> serial, usages |-> usages, numbered |-> numbered]

MCDevices ==
  {Device(1, "A", <<1, 2>>, TRUE), Device(1, None, <<>>, FALSE)}

MCRequests ==
  {[vid |-> 1, pid |-> 1, serial |-> "A"], [vid |-> 1, pid |-> 0, serial |-> None]}

MCBodies == {<<3>>, <<3, 4>>, <<3, 4, 5>>}

\* Two plugs, an open and a call; or a plug, an open and two calls.  In the
\* browser a close, an open and two reads, or fewer of them and a call.
MCMaxEvents ==
  [hidraw |-> 4, nusb |-> 4, macos |-> 4, windows |-> 4, web |-> 2]

Symmetry == Permutations(Callers)

MCAnswer == [Feature |-> <<7, 8>>, Input |-> <<5>>]
=============================================================================
