SPECIFICATION Spec
CONSTANTS
  onboard = onboard
  dongle = dongle
  wlan0 = wlan0
  wlan1 = wlan1
  a = a
  b = b
  s1 = s1
  s2 = s2
  Radios = {onboard, dongle}
  Usb = {dongle}
  Names = {wlan0, wlan1}
  Wlan0 = wlan0
  Gone = Gone
  Plugs <- MCPlugs
  Vifs <- MCVifs
  Ssids = {s1, s2}
  Addresses = {a, b}
  Omitted = Omitted
  Lists <- MCLists
  Bootstrap <- MCBootstrap
  MaxRows = 3
  MaxEvents = 3
INVARIANTS
  TypeOK
  KeptSetBoots
  FilesAgree
  Served
  FilesRun
  RoutedAsMarked
CHECK_DEADLOCK FALSE
