-------------------------- MODULE MCImuTelemetry ---------------------------
(* ImuTelemetry with the constants of imu_telemetry.cfg.                   *)
EXTENDS ImuTelemetry
=============================================================================
