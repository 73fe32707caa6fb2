\* Device ids and completion of the ramp-up.
CONSTANTS
  DevicesNums <- MCDevicesNums
  Rampups <- MCRampups
  DevicesPerSite <- MCPerSite
  SitesPerTenant <- MCPerTenant
SPECIFICATION Spec
\* The ramp-up really ends: OnEvent stops re-arming and nothing is left to do.
CHECK_DEADLOCK FALSE
INVARIANT TypeOK
INVARIANT UniqueDeviceIds
PROPERTY AllTriggered
