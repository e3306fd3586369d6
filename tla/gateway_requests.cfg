SPECIFICATION RequestsSpec
CONSTANTS
  me = me
  ann = ann
  ben = ben
  Accounts = {ann, ben}
  Whitelisted = {ann}
  Anyone = Anyone
  People = {me, ann, ben}
  Caller = me
  Directories <- MCDirectories
  Limit = 2
  MaxRows = 2
  Uploaders = {ann, ben}
  FileNames = {"jpeg", "pdf"}
  FileTypes = {"none", "audio/mp4", "video/mp4", "application/pdf"}
  Backends = {"local", "cloud"}
  MaxUploads = 2
  Devices = {d1, d2}
  Switches = {push}
  Flags = {transfers}
  NotLoaded = NotLoaded
CHECK_DEADLOCK FALSE
INVARIANTS  OneDocument ServicesKnowTheCaller OkMeansAuthorised ServicesAreToldTheCaller TestersAreNeverGated SuccessIsTheServices EverybodyIsFound RepeatsAreOfTheFirstPage UploadsAreSound
PROPERTY OnlyOutdatedWritesClobber
