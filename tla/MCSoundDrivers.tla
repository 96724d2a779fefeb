--------------------------- MODULE MCSoundDrivers ---------------------------
(* A build with the OSS and the dummy driver, and one with RtAudio and JACK.       *)
EXTENDS SoundDrivers, TLC

CONSTANTS gui, audio, notifier, c1, c2, oss, rtaudio, jack, dummy, nobody

MCKind == oss :> "oss" @@ rtaudio :> "rtaudio" @@ jack :> "jack" @@ dummy :> "dummy"
MCBuilds == {{oss, dummy}, {rtaudio, jack}}
=============================================================================
