----------------------------- MODULE MCWifiSta ------------------------------
EXTENDS WifiSta

Entry(ssid, psk, keyBehind, fits) ==
  [ssid |-> ssid, psk |-> psk, keyBehind |-> keyBehind, fits |-> fits]

MCBuild == [ssid |-> "home", psk |-> "k1"]
From(card, build) == [card |-> card, build |-> build]

\* Two good networks, one behind entries that are not read, one without its key
\* behind the name, and no file, with and without a network of the build.
MCSources ==
  {From(<<Entry("home", "k1", TRUE, TRUE), Entry("work", "k2", TRUE, TRUE)>>, None),
   From(<<Entry("", "k0", TRUE, TRUE), Entry("long", "k3", TRUE, FALSE), Entry("work", "k2", TRUE, TRUE)>>,
        MCBuild),
   From(<<Entry("open", "", FALSE, TRUE), Entry("home", "k1", TRUE, TRUE), Entry("work", "k2", TRUE, TRUE)>>,
        None),
   From(<<>>, MCBuild), From(<<>>, None)}

Ap(ssid, rssi) == [ssid |-> ssid, rssi |-> rssi]
MCAir ==
  {<<>>, <<Ap("other", -20)>>, <<Ap("home", -60), Ap("work", -60)>>,
   <<Ap("home", -80), Ap("open", -50)>>, <<Ap("work", -127)>>}
=============================================================================
