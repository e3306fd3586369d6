SPECIFICATION PreferencesSpec
CONSTANTS
  Devices = {d1, d2}
  Switches = {push, dark}
  Flags = {transfers}
  NotLoaded = NotLoaded
INVARIANT FlagsAreIntended
