CONSTANTS
  MaxFaults = 5
SPECIFICATION Spec
PROPERTIES AddressIsOwn ComesOnline
