SPECIFICATION OutageSpec
CONSTANTS
  Publish = {p1}
  Boot = boot
  MaxRetries = 2
  MaxClients = 3
PROPERTIES
  StartsWithoutMessaging
CHECK_DEADLOCK FALSE
