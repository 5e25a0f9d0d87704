-------------------------- MODULE MCAccessPoints --------------------------
(***************************************************************************)
(* Instances of AccessPoints for TLC: an onboard radio and a USB one, and a *)
(* dozen lists of access points an admin may ask for.                       *)
(***************************************************************************)
EXTENDS AccessPoints

CONSTANTS onboard, dongle, wlan0, wlan1, a, b, s1, s2

MCPlugs == {[r \in {onboard, dongle} |-> IF r = onboard THEN wlan0 ELSE wlan1]}

MCBootstrap == [radio |-> onboard, ssid |-> s1, net |-> {a}, policy |-> "direct",
                flaw |-> "none", on |-> TRUE]

Onto(r, s, n, p) == [radio |-> r, ssid |-> s, net |-> {n}, policy |-> p,
                     flaw |-> "none", on |-> TRUE]
At(i, ap) == [id |-> i, ap |-> ap]

Home  == Onto(onboard, s1, a, "direct")
Stick == Onto(dongle, s1, b, "killswitch")
Jail  == Onto(dongle, s2, b, "isolated")

\* One access point; it moves to another radio and a new one takes its place; an entry
\* without the key id; two new ones with one SSID; a part of the table, or an unknown id.
Sound ==
  {<<At(1, Home)>>,
   <<At(1, Stick), At(0, Home)>>,
   <<At(1, Home), At(Omitted, Stick)>>,
   <<At(1, [Home EXCEPT !.on = FALSE]), At(0, Home), At(0, Stick)>>,
   <<At(2, Jail)>>}

\* Nothing enabled; no subnet; no range; an SSID too long; no tunnel; one subnet twice.
Flawed ==
  {<<At(1, [Home EXCEPT !.on = FALSE])>>,
   <<At(1, [Home EXCEPT !.net = {}])>>,
   <<At(1, [Jail EXCEPT !.flaw = "leases"])>>,
   <<At(1, [Home EXCEPT !.flaw = "radio"])>>,
   <<At(1, [Stick EXCEPT !.flaw = "tunnel", !.on = FALSE])>>,
   <<At(1, Home), At(0, [Stick EXCEPT !.net = {a}])>>}

MCLists == Sound \cup Flawed

MCVifs == [r \in {onboard, dongle} |-> 1]
=============================================================================
