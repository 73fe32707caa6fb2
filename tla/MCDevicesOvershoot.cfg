\* More devices than devices_num are triggered when the batch does not divide it.
CONSTANTS
  DevicesNums <- MCDevicesNums
  Rampups <- MCRampups
  DevicesPerSite <- MCPerSite
  SitesPerTenant <- MCPerTenant
SPECIFICATION Spec
\* The ramp-up really ends: OnEvent stops re-arming and nothing is left to do.
CHECK_DEADLOCK FALSE
INVARIANT NoOvershoot
